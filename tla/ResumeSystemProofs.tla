------------------------- MODULE ResumeSystemProofs -------------------------
(***************************************************************************)
(* Profile v1.1 end to end, for any number of runs, faults, rounds and     *)
(* full handshakes: the Peripheral of ResumeSystem is that of              *)
(* ResumePeripheral, and the invariants of the system hold.                *)
(***************************************************************************)
EXTENDS ResumeSystem, ResumeLimitProofs

(* Before its first request of a link the Central has none in flight. *)
Starting == {"off", "connect", "secure", "pair", "load"}
Waiting == central.pc \in {"write", "read"}

(* The control of a run: where the Central stands, what is in flight, and  *)
(* that a handler holds resume_lock only for the FINISH_C of this run, or  *)
(* of one that has hung up.                                                *)
RunInv ==
    /\ central.pc \in Starting => central.step = "NONE" /\ nq = <<>>
    /\ central.pc = "save" => central.step \in {"FINISH_C", "FULL"} /\ nq = <<>>
    /\ Waiting => central.step # "NONE"
    /\ central.pc # "off" => runs # 0
    /\ central.pc \in {"off", "connect"} => ~link
    /\ write.type # "NONE" => /\ central.pc = "write" /\ write.type = central.step
                              /\ att = "none" /\ nq = <<>> /\ pc = "free"
    /\ write.type = "FINISH_C" => write.key = central.keys
    /\ write.type = "APP" => write.key = central.keys /\ write.seq = central.seq
    /\ pc = "commit" => \/ central.pc \in {"off", "connect"}
                        \/ central.pc = "write" /\ central.step = "FINISH_C" /\ att = "none"
    /\ central.pc = "pair" => central.cold
    /\ central.fell => central.force
    /\ central.force => central.step \notin {"INIT", "FINISH_C"}
    /\ central.pc = "save" /\ central.step = "FULL" => central.tk.age <= central.elapsed

(* An answer fits the step that waits for it. *)
AnswerInv == nq # <<>> =>
    /\ central.step = "INIT" => Head(nq).type \in {"ACCEPT", "REJECT"}
    /\ central.step = "FINISH_C" => Head(nq).type \in {"FINISH_P", "REJECT"}
    /\ central.step = "FULL" => Head(nq).type = "FINISHED_P"
    /\ central.step = "APP" => Head(nq).type = "PONG"

(* The session of the Peripheral is closed, or in a state with these keys. *)
Closed == session.state = "IDLE"
OpenAs(st, k) == Closed \/ (session.state = st /\ session.keys = k)
SecureAt(k, n) == Closed \/ (session.state = "SECURE" /\ session.keys = k /\ rx = n /\ tx = n)

(* Both ends step by step, on a live link. *)
InitStep ==
    /\ cp3 = "IDLE" /\ att # "err"
    /\ \/ write.type = "INIT" /\ Closed
       \/ write.type = "NONE" /\ nq # <<>> /\ Head(nq).type = "REJECT" /\ Closed
       \/ write.type = "NONE" /\ nq # <<>> /\ Head(nq).type = "ACCEPT"
          /\ OpenAs("WAIT_C", Head(nq).keys)
FinishStep ==
    /\ cp3 = "IDLE"
    /\ \/ write.type = "FINISH_C" /\ OpenAs("WAIT_C", central.keys)
       \/ write.type = "NONE" /\ nq # <<>> /\ Head(nq).type = "REJECT" /\ Closed /\ att # "err"
       \/ /\ write.type = "NONE" /\ nq # <<>> /\ Head(nq).type = "FINISH_P"
          /\ IF pc = "commit" THEN session.keys = central.keys ELSE SecureAt(central.keys, 0)
FullStep ==
    /\ att # "err"
    /\ \/ write.type = "FULL" /\ cp3 = "IDLE" /\ Closed
       \/ write.type = "NONE" /\ nq = <<>> /\ cp3 = "BUSY" /\ Closed
       \/ /\ write.type = "NONE" /\ nq # <<>> /\ cp3 \in {"APP_SECURE", "FAILED"}
          /\ SecureAt(FullKeys(Head(nq).root), 0)
AppStep ==
    /\ cp3 # "BUSY"
    /\ \/ write.type = "APP" /\ SecureAt(central.keys, central.seq)
       \/ write.type = "NONE" /\ nq = <<>> /\ att = "err" /\ SecureAt(central.keys, central.seq)
       \/ /\ write.type = "NONE" /\ nq # <<>>
          /\ Head(nq).key = central.keys /\ Head(nq).seq = central.seq
          /\ SecureAt(central.keys, central.seq + 1)
StepInv == link =>
    /\ central.pc \in Starting => cp3 = "IDLE" /\ Closed
    /\ central.pc = "save" => cp3 # "BUSY" /\ SecureAt(central.keys, 0)
    /\ Waiting /\ central.step = "INIT" => InitStep
    /\ Waiting /\ central.step = "FINISH_C" => FinishStep
    /\ Waiting /\ central.step = "FULL" => FullStep
    /\ Waiting /\ central.step = "APP" => AppStep
LinkInv == (link => owner = Self) /\ (owner = 0 => cp3 = "IDLE")

(* The counts of uses.  A root the Central knows was issued, or is one     *)
(* that only it knows; a confirmed FINISH_C was counted by the Peripheral. *)
KnownRoots == (0 .. issued) \cup {Orphan}
NotAhead(t, n) == t.root # 0 /\ t.root = ticket.root => t.uses + n <= ticket.successes
CountInv ==
    /\ store.root \in KnownRoots /\ central.tk.root \in KnownRoots
    /\ nq # <<>> /\ Head(nq).type = "FINISHED_P" => Head(nq).root \in KnownRoots
    /\ NotAhead(store, 0) /\ NotAhead(central.tk, 0)
    /\ Waiting /\ central.step = "FINISH_C" /\ nq # <<>> /\ Head(nq).type = "FINISH_P"
          /\ link /\ (central.pc = "read" \/ att = "ok") => NotAhead(central.tk, 1)

(* A clean run: its bond is on both sides, its link is up, nothing was     *)
(* denied, a bond callback comes only before the first request of a cold   *)
(* run is taken, and from the confirmation on the session stays open.      *)
Confirmed ==
    \/ central.pc = "save" \/ central.step = "APP"
    \/ central.step = "FULL" /\ nq # <<>>
    \/ central.step = "FINISH_C" /\ nq # <<>> /\ Head(nq).type = "FINISH_P" /\ pc = "free"
Undisturbed ==
    /\ paired => Self \in bonds
    /\ central.pc # "connect" => link
    /\ Waiting => att # "err"
    /\ link => cp3 # "FAILED"
    /\ bondNotice => central.cold /\ (central.pc = "load" \/ write.type = "FULL")
    /\ Confirmed => session.state = "SECURE"
CleanInv ==
    IF central.pc = "off" THEN CleanRunSucceeds ELSE central.clean => Undisturbed

CoreInv == SysTypeOK /\ RunInv /\ AnswerInv /\ LinkInv /\ StepInv
SysInv == TypeOK /\ KeyInv /\ CoreInv /\ CountInv /\ CleanInv

-----------------------------------------------------------------------------
(* The queue holds one notification at most. *)
LEMMA Singleton ==
  ASSUME NEW m
  PROVE  Append(<<>>, m) = <<m>> /\ <<m>> # <<>> /\ Head(<<m>>) = m /\ Tail(<<m>>) = <<>>
  OBVIOUS

LEMMA Queue ==
  ASSUME SysTypeOK, nq # <<>>
  PROVE  Head(nq) \in Notifications /\ Tail(nq) = <<>>
  BY Singleton DEF SysTypeOK

(* The Central's identity. *)
LEMMA SelfIsPeer == Self \in Peers /\ Self # 0
  BY SystemAssumption, ZeroAssumption DEF Self

-----------------------------------------------------------------------------
(* Every step of the system is a step of the resumption service, or leaves *)
(* it alone: an INIT for a root other than the ticket's counts as one for  *)
(* root 0, a FINISH_C under other keys than the session's as one under     *)
(* none.                                                                   *)
LEMMA TakenIsNext ==
  ASSUME SysTypeOK, PInitTaken PROVE Next
<1>1. write.sid \in Sids /\ write.nc \in Nonces
  BY DEF PInitTaken, Arrived, SysTypeOK, Writes, NoWrite
<1>2. PICK np \in PNonces : InitTaken(write, np, "none", TRUE)
  BY DEF PInitTaken
<1> DEFINE m == [rid |-> ticket.root, mac |-> ticket.root, sid |-> write.sid, nc |-> write.nc]
<1>3. m \in InitFrames
  BY <1>1 DEF InitFrames
<1>4. m.sid = write.sid /\ m.nc = write.nc /\ m.rid = ticket.root /\ m.mac = ticket.root
  OBVIOUS
<1> HIDE DEF m
<1>5. Genuine(m, "none")
  BY <1>2, <1>4 DEF InitTaken, Genuine, Unseen
<1>6. ResumeKeys(m, np) = ResumeKeys(write, np)
  BY <1>4 DEF ResumeKeys
<1>7. InitTaken(m, np, "none", TRUE)
  BY <1>2, <1>4, <1>5, <1>6 DEF InitTaken
<1> QED BY <1>3, <1>7 DEF Next, Control

LEMMA RejectedIsNext ==
  ASSUME SysTypeOK, KeyInv, PInitRejected PROVE Next
<1>1. write.sid \in Sids /\ write.nc \in Nonces
  BY DEF PInitRejected, Arrived, SysTypeOK, Writes, NoWrite
<1>2. InitRejected(write, "none")
  BY DEF PInitRejected
<1> DEFINE At(r) == IF r = ticket.root THEN ticket.root ELSE 0
           m == [rid |-> At(write.rid), mac |-> At(write.mac), sid |-> write.sid, nc |-> write.nc]
<1>3. m \in InitFrames
  BY <1>1 DEF InitFrames
<1>4. m.sid = write.sid /\ m.nc = write.nc /\ m.rid = At(write.rid) /\ m.mac = At(write.mac)
  OBVIOUS
<1>5. ticket.valid => ticket.root # 0
  BY DEF KeyInv, TicketShape
<1> HIDE DEF m
<1>6. ~Genuine(m, "none")
  <2> SUFFICES ASSUME Genuine(m, "none") PROVE Genuine(write, "none")
    BY <1>2 DEF InitRejected
  <2>1. ticket.valid /\ At(write.rid) = ticket.root /\ At(write.mac) = ticket.root
    BY <1>4 DEF Genuine, Eligible
  <2>2. write.rid = ticket.root /\ write.mac = ticket.root
    BY <1>5, <2>1
  <2> QED BY <1>4, <2>2 DEF Genuine, Unseen
<1>7. InitRejected(m, "none")
  BY <1>2, <1>6 DEF InitRejected
<1> QED BY <1>3, <1>7 DEF Next, Control

LEMMA FinishIsNext ==
  ASSUME KeyInv, PFinishAnswered \/ PFinishRejected PROVE Next
<1>1. CASE PFinishAnswered
  <2>1. FinishAnswered(session.keys)
    BY <1>1 DEF PFinishAnswered, FinishAnswered, FinishGenuine
  <2> QED BY <2>1 DEF Next, Control
<1>2. CASE PFinishRejected
  <2>1. FinishRejected(write.key, FALSE, TRUE)
    BY <1>2 DEF PFinishRejected
  <2>2. CASE write.key = session.keys
    BY <2>1, <2>2 DEF Next, Control
  <2>3. CASE write.key # session.keys
    <3>1. ~FinishGenuine(NoKeys, FALSE)
      <4> SUFFICES ASSUME FinishGenuine(NoKeys, FALSE) PROVE FALSE
        OBVIOUS
      <4>1. Pending(session) /\ session.keys = NoKeys
        BY DEF FinishGenuine, Pending
      <4> QED BY <4>1 DEF KeyInv, PendingHasTicket, TicketShape, NoKeys
    <3>2. FinishRejected(NoKeys, FALSE, TRUE)
      BY <2>1, <3>1 DEF FinishRejected
    <3> QED BY <3>2 DEF Next, Control
  <2> QED BY <2>2, <2>3
<1> QED BY <1>1, <1>2

LEMMA ServiceStep ==
  ASSUME TypeOK, KeyInv, SysTypeOK, [SysNext]_sysVars PROVE [Next]_vars
<1>1. CASE CStart \/ CentralStep
  <2>1. CASE CConnect
    BY <2>1, SelfIsPeer DEF CConnect, Next, Calls
  <2>2. CASE CEncrypt \/ CPaired
    BY <2>2 DEF CEncrypt, CPaired, Next, Environment
  <2>3. CASE ~(CConnect \/ CEncrypt \/ CPaired)
    BY <1>1, <2>3 DEF CStart, CentralStep, CStaleBond, CBegin, CWritten, CAccepted, CRejected,
       CFinished, CFullFinished, CUnexpected, CSave, CPong, CLinkGone, CLinkGoneEarly, CTimeout
  <2> QED BY <2>1, <2>2, <2>3
<1>2. CASE PeripheralStep
  <2>1. CASE PInitTaken \/ PInitRejected \/ PFinishAnswered \/ PFinishRejected
    BY <2>1, TakenIsNext, RejectedIsNext, FinishIsNext
  <2>2. CASE PApp
    <3>1. AppAnswered(session.keys, rx, TRUE) /\ rx \in 0 .. SEQ_MAX
      BY <2>2 DEF PApp, AppAnswered, AppGenuine, TypeOK
    <3> QED BY <3>1 DEF Next, Control
  <2>3. CASE PCommit \/ PAppDenied \/ PFullStart \/ PNotReady \/ PTerminate
    BY <2>3 DEF PCommit, PAppDenied, PFullStart, PNotReady, PTerminate, Next, Control, Calls
  <2>4. CASE PFullIssued \/ PDisconnected \/ PBondChanged \/ PExpire
    BY <2>4 DEF PFullIssued, PDisconnected, PBondChanged, PExpire, Next, Calls
  <2> QED BY <1>2, <2>1, <2>2, <2>3, <2>4 DEF PeripheralStep
<1>3. CASE SysTick
  BY <1>3 DEF SysTick, Next, Environment
<1>4. CASE Disturbance
  <2>1. CASE PFullRefused
    BY <2>1 DEF PFullRefused, Next, Calls
  <2>2. CASE PeripheralReboot \/ OperatorClearsBonds
    BY <2>2, SelfIsPeer DEF PeripheralReboot, OperatorClearsBonds, Next, Environment
  <2>3. CASE LinkLost \/ SlowPeer \/ CentralCrash \/ OperatorUnpairs
    BY <2>3 DEF LinkLost, SlowPeer, CentralCrash, OperatorUnpairs
  <2> QED BY <1>4, <2>1, <2>2, <2>3 DEF Disturbance
<1>5. CASE UNCHANGED sysVars
  BY <1>5 DEF sysVars
<1> QED BY <1>1, <1>2, <1>3, <1>4, <1>5 DEF SysNext

-----------------------------------------------------------------------------
(* The moves of the Central, field by field.  A run goes on ... *)
Kept == /\ central'.cold = central.cold /\ central'.force = central.force
        /\ central'.fell = central.fell /\ central'.clean = central.clean
        /\ central'.elapsed = central.elapsed
(* ... or sends its next request ... *)
Asks == /\ central' \in RunSet /\ Kept
        /\ write' \in Writes /\ write'.type # "NONE"
        /\ central'.pc = "write" /\ central'.step = write'.type
        /\ att' = "none" /\ nq' = <<>>
        /\ UNCHANGED <<vars, paired, runs, faults, link, cp3>>
(* ... or ends, or starts again, with nothing left in flight. *)
HungUp == /\ central' \in RunSet /\ central'.pc \in {"off", "connect"}
          /\ central'.step = "NONE" /\ central'.tk = NoStore
          /\ central'.fell = central'.force
          /\ link' = FALSE /\ write' = NoWrite /\ att' = "none" /\ nq' = <<>>
          /\ UNCHANGED <<vars, store, paired, runs, cp3>>

LEMMA Constants ==
  /\ TTL \in Nat \ {0} /\ MAX_USES \in Nat \ {0} /\ MaxFull \in Nat /\ SEQ_MAX \in Nat
  /\ Rounds \in 1 .. SEQ_MAX /\ RunTicks \in 0 .. TTL - 1 /\ Orphan \in Nat /\ Orphan = MaxFull + 1
  /\ MaxRuns \in Nat /\ V11 = TRUE /\ Sids = 1 .. MaxRuns /\ Nonces = Sids
  BY LimitAssumption, SystemAssumption DEF Orphan

LEMMA EmptyTyped == NoStore \in StoreSet /\ NoKeys \in CentralKeys /\ NoRun \in RunSet
  /\ NoWrite \in Writes /\ NoWrite.type = "NONE"
<1>1. NoStore \in StoreSet /\ NoKeys \in CentralKeys /\ NoWrite \in Writes /\ NoWrite.type = "NONE"
  BY Constants DEF NoStore, StoreSet, NoKeys, CentralKeys, NoWrite, Writes
<1> QED BY <1>1, Constants DEF NoRun, RunSet

(* FinishAs and FallbackAs. *)
LEMMA FinishFields ==
  ASSUME NEW res \in {"ok", "failed"}, NEW cl \in BOOLEAN, FinishAs(res, cl)
  PROVE  /\ central' \in RunSet /\ central'.pc = "off" /\ central'.step = "NONE"
         /\ central'.tk = NoStore /\ central'.result = res /\ central'.clean = cl
         /\ central'.fell = central'.force
         /\ link' = FALSE /\ write' = NoWrite /\ att' = "none" /\ nq' = <<>>
<1>1. central' = [NoRun EXCEPT !.result = res, !.clean = cl]
  BY DEF FinishAs
<1>2. central' \in RunSet
  BY <1>1, EmptyTyped DEF RunSet
<1> QED BY <1>1, <1>2 DEF FinishAs, HangUp, NoRun

LEMMA FallbackFields ==
  ASSUME SysTypeOK, NEW cl \in BOOLEAN, FallbackAs(cl)
  PROVE  /\ central' \in RunSet /\ central'.step = "NONE"
         /\ central'.tk = NoStore /\ central'.clean = cl /\ central'.fell = central'.force
         /\ IF central.fell THEN central'.pc = "off" /\ central'.result = "failed"
                            ELSE central'.pc = "connect"
         /\ link' = FALSE /\ write' = NoWrite /\ att' = "none" /\ nq' = <<>>
<1>1. CASE central.fell
  BY <1>1, FinishFields DEF FallbackAs
<1>2. CASE ~central.fell
  <2>1. central' = [NoRun EXCEPT !.pc = "connect", !.force = TRUE, !.fell = TRUE,
                                 !.clean = cl, !.elapsed = central.elapsed]
    BY <1>2 DEF FallbackAs
  <2>2. central.elapsed \in 0 .. RunTicks
    BY DEF SysTypeOK, RunSet
  <2>3. central' \in RunSet
    BY <2>1, <2>2, EmptyTyped DEF RunSet
  <2> QED BY <1>2, <2>1, <2>3 DEF FallbackAs, HangUp, NoRun
<1> QED BY <1>1, <1>2

(* The steps that end an attempt. *)
Quits ==
  \/ CStaleBond \/ CLinkGone \/ CLinkGoneEarly \/ CTimeout \/ CUnexpected
  \/ CWritten /\ att # "ok"
  \/ CSave /\ Expired(central.tk)
  \/ SlowPeer \/ CentralCrash
LEMMA QuitsHangUp ==
  ASSUME SysTypeOK, Quits PROVE HungUp /\ central.pc # "off"
<1>1. central.clean \in BOOLEAN
  BY DEF SysTypeOK, RunSet
<1>2. CASE CStaleBond \/ CLinkGone \/ CLinkGoneEarly \/ (CWritten /\ att # "ok")
  <2>1. FinishAs("failed", central.clean) /\ central.pc # "off"
        /\ UNCHANGED <<vars, store, paired, runs, cp3>>
    BY <1>2 DEF CStaleBond, CLinkGone, CLinkGoneEarly, CWritten, Finish
  <2> QED BY <1>1, <2>1, FinishFields DEF HungUp
<1>3. CASE CTimeout \/ CUnexpected \/ SlowPeer \/ (CSave /\ Expired(central.tk))
  <2>1. PICK cl \in BOOLEAN : FallbackAs(cl) /\ central.pc # "off"
                              /\ UNCHANGED <<vars, store, paired, runs, cp3>>
    BY <1>1, <1>3 DEF CTimeout, CUnexpected, SlowPeer, CSave, Fallback, Received
  <2> QED BY <2>1, FallbackFields DEF HungUp
<1>4. CASE CentralCrash
  BY <1>4, EmptyTyped DEF CentralCrash, HungUp, HangUp, NoRun
<1> QED BY <1>2, <1>3, <1>4 DEF Quits
(* The steps that send a request. *)
LEMMA BeginAsks ==
  ASSUME SysTypeOK, RunInv, CBegin
  PROVE  /\ Asks /\ central.pc = "load" /\ store' = Loaded /\ central'.tk = Loaded
         /\ Loaded \in {NoStore, store} /\ (central.cold => Loaded = NoStore)
         /\ central'.keys = central.keys
         /\ \/ write'.type = "FULL"
            \/ write'.type = "INIT" /\ ~central.force /\ ~central.cold
<1>1. Loaded \in StoreSet /\ Loaded \in {NoStore, store} /\ (central.cold => Loaded = NoStore)
  BY EmptyTyped DEF Loaded, SysTypeOK
<1>2. central.pc = "load" /\ nq = <<>> /\ runs \in Sids /\ central \in RunSet
  BY Constants DEF CBegin, RunInv, Starting, SysTypeOK
<1>3. NoStore.root = 0
  BY DEF NoStore
<1> HIDE DEF Loaded
<1> DEFINE f == [type |-> "INIT", rid |-> Loaded.root, mac |-> Loaded.root,
                 sid |-> runs, nc |-> runs]
<1>4. CASE Loaded.root # 0 /\ ~central.force
  <2>1. /\ central' = [central EXCEPT !.tk = Loaded, !.pc = "write", !.step = "INIT"]
        /\ write' = f /\ att' = "none"
    BY <1>2, <1>4 DEF CBegin, Send, RunSet
  <2>2. Loaded.root \in 1 .. Orphan
    BY <1>1, <1>4, Constants DEF StoreSet
  <2>3. f \in Writes /\ f.type = "INIT"
    BY <1>2, <2>2, Constants DEF Writes
  <2>4. /\ central' \in RunSet /\ Kept /\ central'.pc = "write" /\ central'.step = "INIT"
        /\ central'.tk = Loaded /\ central'.keys = central.keys
    BY <1>1, <1>2, <2>1 DEF RunSet, Kept
  <2> QED BY <1>1, <1>2, <1>3, <1>4, <2>1, <2>3, <2>4 DEF CBegin, Send, Asks
<1>5. CASE ~(Loaded.root # 0 /\ ~central.force)
  <2>1. /\ central' = [central EXCEPT !.tk = Loaded, !.pc = "write", !.step = "FULL"]
        /\ write' = [type |-> "FULL"] /\ att' = "none"
    BY <1>2, <1>5 DEF CBegin, Send, RunSet
  <2>3. write' \in Writes /\ write'.type = "FULL"
    BY <2>1 DEF Writes
  <2>4. /\ central' \in RunSet /\ Kept /\ central'.pc = "write" /\ central'.step = "FULL"
        /\ central'.tk = Loaded /\ central'.keys = central.keys
    BY <1>1, <1>2, <2>1 DEF RunSet, Kept
  <2> QED BY <1>1, <1>2, <1>5, <2>1, <2>3, <2>4 DEF CBegin, Send, Asks
<1> QED BY <1>4, <1>5

LEMMA AcceptedAsks ==
  ASSUME SysTypeOK, CAccepted
  PROVE  /\ Asks /\ central.pc = "read" /\ central.step = "INIT" /\ link
         /\ nq # <<>> /\ Head(nq).type = "ACCEPT"
         /\ write'.type = "FINISH_C" /\ write'.key = central'.keys
         /\ central'.keys = Head(nq).keys /\ central'.tk = central.tk /\ store' = store
<1>1. /\ central.pc = "read" /\ central.step = "INIT" /\ link /\ nq # <<>>
      /\ Head(nq).type = "ACCEPT" /\ central \in RunSet
  BY DEF CAccepted, Received, OwnAccept, SysTypeOK
<1>2. Head(nq).keys \in CentralKeys /\ nq' = <<>>
  BY <1>1, Queue DEF Notifications, CAccepted
<1>3. /\ central' = [central EXCEPT !.pc = "write", !.step = "FINISH_C", !.keys = Head(nq).keys]
      /\ write' = [type |-> "FINISH_C", key |-> Head(nq).keys]
      /\ att' = "none" /\ UNCHANGED <<vars, store, paired, runs, faults, link, cp3>>
  BY DEF CAccepted
<1>4. write' \in Writes /\ write'.type = "FINISH_C" /\ write'.key = Head(nq).keys
  BY <1>2, <1>3 DEF Writes
<1>5. /\ central' \in RunSet /\ Kept /\ central'.pc = "write" /\ central'.step = "FINISH_C"
      /\ central'.tk = central.tk /\ central'.keys = Head(nq).keys
  BY <1>1, <1>2, <1>3 DEF RunSet, Kept
<1> QED BY <1>1, <1>2, <1>3, <1>4, <1>5 DEF Asks

LEMMA RejectedAsks ==
  ASSUME SysTypeOK, CRejected
  PROVE  /\ Asks /\ central.pc = "read" /\ central.step = "INIT" /\ link
         /\ nq # <<>> /\ Head(nq).type = "REJECT"
         /\ write'.type = "FULL" /\ central'.tk = central.tk /\ store' = store
<1>1. /\ central.pc = "read" /\ central.step = "INIT" /\ link /\ nq # <<>>
      /\ Head(nq).type = "REJECT" /\ central \in RunSet
  BY DEF CRejected, Received, SysTypeOK
<1>2. nq' = <<>>
  BY <1>1, Queue DEF CRejected
<1>3. /\ central' = [central EXCEPT !.pc = "write", !.step = "FULL"]
      /\ write' = [type |-> "FULL"]
      /\ att' = "none" /\ UNCHANGED <<vars, store, paired, runs, faults, link, cp3>>
  BY DEF CRejected
<1>4. write' \in Writes /\ write'.type = "FULL"
  BY <1>3 DEF Writes
<1>5. /\ central' \in RunSet /\ Kept /\ central'.pc = "write" /\ central'.step = "FULL"
      /\ central'.tk = central.tk
  BY <1>1, <1>3 DEF RunSet, Kept
<1> QED BY <1>1, <1>2, <1>3, <1>4, <1>5 DEF Asks

LEMMA SaveAsks ==
  ASSUME SysTypeOK, RunInv, CSave, ~Expired(central.tk)
  PROVE  /\ Asks /\ central.pc = "save" /\ store' = central.tk
         /\ write'.type = "APP" /\ write'.key = central'.keys /\ write'.seq = central'.seq
         /\ central'.keys = central.keys /\ central'.seq = 0 /\ central'.tk = central.tk
<1> DEFINE f == [type |-> "APP", key |-> central.keys, seq |-> 0]
<1>1. central.pc = "save" /\ nq = <<>> /\ central \in RunSet /\ central.keys \in CentralKeys
  BY DEF CSave, RunInv, SysTypeOK, RunSet
<1>2. /\ central' = [central EXCEPT !.seq = 0, !.pc = "write", !.step = "APP"]
      /\ write' = f /\ att' = "none" /\ store' = central.tk
      /\ UNCHANGED <<vars, paired, runs, faults, link, nq, cp3>>
  BY <1>1 DEF CSave, Send, RunSet
<1>3. 0 \in 0 .. Rounds - 1
  BY Constants
<1>4. f \in Writes /\ f.type = "APP" /\ f.key = central.keys /\ f.seq = 0
  BY <1>1, <1>3 DEF Writes
<1>5. /\ central' \in RunSet /\ Kept /\ central'.pc = "write" /\ central'.step = "APP"
      /\ central'.tk = central.tk /\ central'.keys = central.keys /\ central'.seq = 0
  BY <1>1, <1>2, <1>3 DEF RunSet, Kept
<1> QED BY <1>1, <1>2, <1>4, <1>5 DEF Asks

(* The next PING, or the end of the run. *)
PongFits == Head(nq).type = "PONG" /\ Head(nq).key = central.keys /\ Head(nq).seq = central.seq
LEMMA PongMoves ==
  ASSUME SysTypeOK, CPong
  PROVE  /\ central.pc = "read" /\ central.step = "APP" /\ link /\ nq # <<>>
         /\ \/ /\ Asks /\ store' = store /\ PongFits
               /\ write'.type = "APP" /\ write'.key = central'.keys /\ write'.seq = central'.seq
               /\ central'.keys = central.keys /\ central'.seq = central.seq + 1
               /\ central'.tk = central.tk
            \/ HungUp /\ central'.pc = "off" /\ central'.clean = central.clean
               /\ (PongFits => central'.result = "ok")
<1>1. /\ central.pc = "read" /\ central.step = "APP" /\ link /\ nq # <<>> /\ central \in RunSet
      /\ UNCHANGED <<vars, store, paired, runs, faults, cp3>>
  BY DEF CPong, Received, SysTypeOK
<1>2. nq' = <<>>
  BY <1>1, Queue DEF CPong
<1>3. central.seq \in 0 .. Rounds - 1 /\ central.keys \in CentralKeys /\ central.clean \in BOOLEAN
  BY <1>1 DEF RunSet
<1>4. CASE PongFits /\ central.seq + 1 < Rounds
  <2>1. /\ central' = [central EXCEPT !.seq = @ + 1, !.pc = "write"]
        /\ write' = [type |-> "APP", key |-> central.keys, seq |-> central.seq + 1]
        /\ att' = "none" /\ UNCHANGED link
    BY <1>4 DEF CPong, PongFits
  <2>2. central.seq + 1 \in 0 .. Rounds - 1
    BY <1>3, <1>4, Constants
  <2>3. write' \in Writes /\ write'.type = "APP" /\ write'.key = central.keys
        /\ write'.seq = central.seq + 1
    BY <1>3, <2>1, <2>2 DEF Writes
  <2>4. /\ central' \in RunSet /\ Kept /\ central'.pc = "write" /\ central'.step = "APP"
        /\ central'.tk = central.tk /\ central'.keys = central.keys
        /\ central'.seq = central.seq + 1
    BY <1>1, <2>1, <2>2 DEF RunSet, Kept
  <2> QED BY <1>1, <1>2, <1>4, <2>1, <2>3, <2>4 DEF Asks
<1>5. CASE PongFits /\ ~(central.seq + 1 < Rounds)
  <2>1. FinishAs("ok", central.clean)
    BY <1>5 DEF CPong, PongFits, Finish
  <2> QED BY <1>1, <1>3, <2>1, FinishFields DEF HungUp
<1>6. CASE ~PongFits
  <2>1. FinishAs("failed", central.clean)
    BY <1>6 DEF CPong, PongFits, Finish
  <2> QED BY <1>1, <1>3, <1>6, <2>1, FinishFields DEF HungUp
<1> QED BY <1>4, <1>5, <1>6
(* The steps that go on without a request. *)
SameFrame == /\ central'.tk = central.tk /\ central'.keys = central.keys
             /\ central'.seq = central.seq
LEMMA WrittenReads ==
  ASSUME SysTypeOK, CWritten, att = "ok"
  PROVE  /\ central' \in RunSet /\ Kept /\ SameFrame /\ att' = "none"
         /\ central.pc = "write" /\ central'.pc = "read" /\ central'.step = central.step
         /\ UNCHANGED <<vars, store, paired, runs, faults, link, write, nq, cp3>>
<1>1. /\ central' = [central EXCEPT !.pc = "read"] /\ att' = "none" /\ central.pc = "write"
      /\ UNCHANGED <<vars, store, paired, runs, faults, link, write, nq, cp3>>
  BY DEF CWritten, Goto
<1>2. central \in RunSet
  BY DEF SysTypeOK
<1> QED BY <1>1, <1>2 DEF RunSet, Kept, SameFrame

LEMMA UsedTyped ==
  ASSUME NEW t \in StoreSet
  PROVE  /\ Used(t) \in StoreSet /\ Used(t).root \in {0, t.root}
         /\ (Used(t).root # 0 => Used(t).uses = t.uses + 1)
<1>1. CASE t.uses + 1 >= MAX_USES
  <2>1. Used(t) = NoStore /\ NoStore.root = 0
    BY <1>1 DEF Used, NoStore
  <2> QED BY <2>1, EmptyTyped
<1>2. CASE ~(t.uses + 1 >= MAX_USES)
  <2>1. Used(t) = [t EXCEPT !.uses = t.uses + 1]
    BY <1>2 DEF Used, StoreSet
  <2>2. t.uses + 1 \in 0 .. MAX_USES - 1
    BY <1>2, Constants DEF StoreSet
  <2> QED BY <2>1, <2>2 DEF StoreSet
<1> QED BY <1>1, <1>2

Saves == /\ central' \in RunSet /\ Kept /\ central.pc = "read" /\ central'.pc = "save"
         /\ central'.step = central.step /\ link /\ nq # <<>> /\ nq' = <<>>
         /\ UNCHANGED <<vars, store, paired, runs, faults, link, write, att, cp3>>
LEMMA FinishedSaves ==
  ASSUME SysTypeOK, CFinished
  PROVE  /\ Saves /\ central.step = "FINISH_C"
         /\ Head(nq).type = "FINISH_P" /\ central'.tk = Used(central.tk)
         /\ central'.keys = central.keys
<1>1. /\ central.pc = "read" /\ central.step = "FINISH_C" /\ link /\ nq # <<>>
      /\ Head(nq).type = "FINISH_P" /\ central \in RunSet
  BY DEF CFinished, Received, SysTypeOK
<1>2. nq' = <<>>
  BY <1>1, Queue DEF CFinished
<1>3. central' = [central EXCEPT !.pc = "save", !.tk = Used(central.tk)]
  BY <1>1 DEF CFinished, RunSet
<1>4. Used(central.tk) \in StoreSet
  BY <1>1, UsedTyped DEF RunSet
<1>5. /\ central' \in RunSet /\ Kept /\ central'.pc = "save" /\ central'.step = central.step
      /\ central'.tk = Used(central.tk) /\ central'.keys = central.keys
  BY <1>1, <1>3, <1>4 DEF RunSet, Kept
<1> QED BY <1>1, <1>2, <1>5 DEF CFinished, Saves

LEMMA FullSaves ==
  ASSUME SysTypeOK, CFullFinished
  PROVE  /\ Saves /\ central.step = "FULL" /\ Head(nq).type = "FINISHED_P"
         /\ central'.tk.root = Head(nq).root /\ central'.tk.uses = 0 /\ central'.tk.age = 0
         /\ central'.keys = FullKeys(Head(nq).root)
<1> DEFINE r == Head(nq).root
<1>1. /\ central.pc = "read" /\ central.step = "FULL" /\ link /\ nq # <<>>
      /\ Head(nq).type = "FINISHED_P" /\ central \in RunSet
  BY DEF CFullFinished, Received, SysTypeOK
<1>2. nq' = <<>> /\ r \in 1 .. Orphan
  BY <1>1, Queue DEF CFullFinished, Notifications
<1>3. central' = [central EXCEPT !.pc = "save", !.keys = FullKeys(r), !.tk = [NoStore EXCEPT !.root = r]]
  BY DEF CFullFinished
<1>4. /\ [NoStore EXCEPT !.root = r] = [root |-> r, uses |-> 0, age |-> 0]
      /\ [NoStore EXCEPT !.root = r] \in StoreSet /\ FullKeys(r) \in CentralKeys
  BY <1>2, Constants DEF NoStore, StoreSet, FullKeys, CentralKeys
<1>5. /\ central' \in RunSet /\ Kept /\ central'.pc = "save" /\ central'.step = central.step
      /\ central'.tk = [NoStore EXCEPT !.root = r] /\ central'.keys = FullKeys(r)
  BY <1>1, <1>3, <1>4 DEF RunSet, Kept
<1> QED BY <1>1, <1>2, <1>4, <1>5 DEF CFullFinished, Saves

(* A run starts. *)
LEMMA StartFields ==
  ASSUME TypeOK, SysTypeOK, CStart
  PROVE  /\ central' \in RunSet /\ central.pc = "off" /\ central'.pc = "connect"
         /\ central'.step = "NONE" /\ central'.tk = NoStore
         /\ ~central'.fell /\ ~central'.force
         /\ central'.clean = ((paired => Self \in bonds) /\ ~bondNotice)
         /\ runs' = runs + 1 /\ runs' \in 0 .. MaxRuns
         /\ UNCHANGED <<vars, store, paired, faults, bleVars, cp3>>
<1> DEFINE cl == (paired => Self \in bonds) /\ ~bondNotice
<1>1. cl \in BOOLEAN
  OBVIOUS
<1>2. central' = [NoRun EXCEPT !.pc = "connect", !.clean = cl]
  BY DEF CStart
<1>3. runs' = runs + 1 /\ runs' \in 0 .. MaxRuns
  BY Constants DEF CStart, SysTypeOK
<1> HIDE DEF cl
<1>4. central' \in RunSet
  BY <1>1, <1>2, EmptyTyped DEF RunSet
<1>5. /\ central'.pc = "connect" /\ central'.step = "NONE" /\ central'.tk = NoStore
      /\ ~central'.fell /\ ~central'.force /\ central'.clean = cl
  BY <1>2 DEF NoRun
<1> QED BY <1>3, <1>4, <1>5 DEF CStart, cl

(* A run gets its link, its encryption and its bond. *)
Secures == /\ central' \in RunSet /\ SameFrame
           /\ central'.force = central.force /\ central'.fell = central.fell
           /\ central'.clean = central.clean /\ central'.elapsed = central.elapsed
           /\ central'.step = central.step
           /\ UNCHANGED <<store, runs, faults, write, att, nq, cp3>>
LEMMA SecureFields ==
  ASSUME SysTypeOK, CConnect \/ CEncrypt \/ CPaired
  PROVE  /\ Secures /\ link' = TRUE
         /\ \/ CConnect /\ central.pc = "connect" /\ central'.pc = "secure"
            \/ CEncrypt /\ central.pc = "secure" /\ link
               /\ central'.pc \in {"load", "pair"} /\ central'.cold = ~paired
               /\ (central'.pc = "pair" => central'.cold)
            \/ CPaired /\ central.pc = "pair" /\ central'.pc = "load" /\ link
               /\ central'.cold = central.cold
<1>1. central \in RunSet /\ paired \in BOOLEAN /\ link \in BOOLEAN
  BY DEF SysTypeOK
<1>2. CASE CConnect
  <2>1. central' = [central EXCEPT !.pc = "secure"]
    BY <1>2 DEF CConnect, Goto
  <2> QED BY <1>1, <1>2, <2>1 DEF CConnect, RunSet, Secures, SameFrame
<1>3. CASE CEncrypt
  <2> DEFINE p == IF paired THEN "load" ELSE "pair"
             co == ~paired
  <2>1. central' = [central EXCEPT !.cold = co, !.pc = p]
    BY <1>3 DEF CEncrypt
  <2>2. p \in {"load", "pair"} /\ co \in BOOLEAN /\ (p = "pair" => co)
    BY <1>1
  <2> HIDE DEF p
  <2>3. /\ central' \in RunSet /\ SameFrame
        /\ central'.force = central.force /\ central'.fell = central.fell
        /\ central'.clean = central.clean /\ central'.elapsed = central.elapsed
        /\ central'.step = central.step /\ central'.pc = p /\ central'.cold = co
    BY <1>1, <2>1, <2>2 DEF RunSet, SameFrame
  <2> QED BY <1>1, <1>3, <2>2, <2>3 DEF CEncrypt, Secures, bleVars
<1>4. CASE CPaired
  <2>1. central' = [central EXCEPT !.pc = "load"]
    BY <1>4 DEF CPaired, Goto
  <2> QED BY <1>1, <1>4, <2>1 DEF CPaired, RunSet, Secures, SameFrame, bleVars
<1> QED BY <1>2, <1>3, <1>4
-----------------------------------------------------------------------------
(* The core of the invariant, kind of step by kind of step.  The bound on  *)
(* disturbances is kept by all.                                            *)
LEMMA FaultsTyped == ASSUME SysTypeOK, [SysNext]_sysVars PROVE faults' \in 0 .. MaxFaults
<1>1. faults \in 0 .. MaxFaults /\ MaxFaults \in Nat
  BY SystemAssumption DEF SysTypeOK
<1>2. faults' = faults \/ Disturb
  BY DEF SysNext, sysVars, CStart, CentralStep, PeripheralStep, Disturbance, SysTick,
     CConnect, CEncrypt, CPaired, CStaleBond, CBegin, CWritten, CAccepted, CRejected, CFinished,
     CFullFinished, CUnexpected, CSave, CPong, CLinkGone, CLinkGoneEarly, CTimeout,
     PInitTaken, PInitRejected, PFinishAnswered, PFinishRejected, PCommit, PApp, PAppDenied,
     PNotReady, PFullStart, PFullIssued, PDisconnected, PTerminate, PBondChanged, PExpire,
     LinkLost, SlowPeer, CentralCrash, PeripheralReboot, PFullRefused, OperatorClearsBonds,
     OperatorUnpairs
<1> QED BY <1>1, <1>2 DEF Disturb

LEMMA CoreHungUp ==
  ASSUME CoreInv, HungUp, central.pc # "off", faults' \in 0 .. MaxFaults
  PROVE  CoreInv'
<1> USE DEF vars, coreVars
<1>0. write'.type = "NONE" /\ write' \in Writes
  BY EmptyTyped DEF HungUp
<1>1. SysTypeOK'
  BY <1>0 DEF CoreInv, SysTypeOK, HungUp
<1>2. RunInv'
  BY <1>0 DEF CoreInv, RunInv, HungUp, Starting, Waiting
<1>3. AnswerInv' /\ StepInv'
  BY DEF HungUp, AnswerInv, StepInv
<1>4. LinkInv'
  BY DEF CoreInv, LinkInv, HungUp
<1> QED BY <1>1, <1>2, <1>3, <1>4 DEF CoreInv

(* A request finds no other one and no handler at work. *)
Finds(s) ==
  IF s \in {"INIT", "FULL"} THEN cp3 = "IDLE" /\ Closed
  ELSE IF s = "FINISH_C" THEN cp3 = "IDLE" /\ OpenAs("WAIT_C", central'.keys)
  ELSE cp3 # "BUSY" /\ SecureAt(central'.keys, central'.seq)
LEMMA CoreAsks ==
  ASSUME TypeOK, CoreInv, Asks, faults' \in 0 .. MaxFaults, store' \in StoreSet,
         central.pc \in {"load", "read", "save"},
         write'.type \in {"INIT", "FINISH_C"} => ~central.force,
         write'.type = "FINISH_C" => write'.key = central'.keys,
         write'.type = "APP" => write'.key = central'.keys /\ write'.seq = central'.seq,
         link => Finds(write'.type)
  PROVE  CoreInv'
<1> USE DEF vars, coreVars
<1>0. write'.type \in {"INIT", "FINISH_C", "FULL", "APP"}
  BY DEF Asks, RunSet
<1>1. SysTypeOK'
  BY DEF CoreInv, SysTypeOK, Asks
<1>2. RunInv'
  <2>2. pc = "free" /\ runs # 0
    BY DEF TypeOK, CoreInv, RunInv
  <2> QED BY <1>0, <2>2 DEF CoreInv, RunInv, Asks, Kept, Starting, Waiting
<1>3. AnswerInv' /\ LinkInv'
  BY DEF CoreInv, AnswerInv, LinkInv, Asks
<1>4. StepInv'
  BY <1>0 DEF Asks, StepInv, Finds, InitStep, FinishStep, FullStep, AppStep, Closed, OpenAs,
              SecureAt, Starting, Waiting
<1> QED BY <1>1, <1>2, <1>3, <1>4 DEF CoreInv
(* The requests of the Central, one by one. *)
LEMMA CoreCentralAsks ==
  ASSUME TypeOK, CoreInv, faults' \in 0 .. MaxFaults,
         \/ CBegin \/ CAccepted \/ CRejected \/ (CSave /\ ~Expired(central.tk))
         \/ CPong /\ Asks
  PROVE  CoreInv'
<1>0. SysTypeOK /\ RunInv /\ StepInv /\ store \in StoreSet /\ central.tk \in StoreSet
  BY DEF CoreInv, SysTypeOK, RunSet
<1>1. CASE CBegin
  <2>1. /\ Asks /\ central.pc = "load" /\ store' \in StoreSet
        /\ (write'.type = "FULL" \/ (write'.type = "INIT" /\ ~central.force))
    BY <1>0, <1>1, BeginAsks, EmptyTyped
  <2>2. link => cp3 = "IDLE" /\ Closed
    BY <1>0, <2>1 DEF StepInv, Starting
  <2> QED BY <2>1, <2>2, CoreAsks DEF Finds
<1>2. CASE CAccepted
  <2>1. /\ Asks /\ central.pc = "read" /\ central.step = "INIT" /\ link /\ store' = store
        /\ nq # <<>> /\ Head(nq).type = "ACCEPT" /\ central'.keys = Head(nq).keys
        /\ write'.type = "FINISH_C" /\ write'.key = central'.keys
    BY <1>0, <1>2, AcceptedAsks
  <2>2. ~central.force /\ write.type = "NONE"
    BY <1>0, <2>1 DEF RunInv
  <2>3. cp3 = "IDLE" /\ OpenAs("WAIT_C", central'.keys)
    BY <1>0, <2>1, <2>2 DEF StepInv, InitStep, Waiting, OpenAs
  <2> QED BY <1>0, <2>1, <2>2, <2>3, CoreAsks DEF Finds
<1>3. CASE CRejected
  <2>1. /\ Asks /\ central.pc = "read" /\ central.step = "INIT" /\ link /\ store' = store
        /\ nq # <<>> /\ Head(nq).type = "REJECT" /\ write'.type = "FULL"
    BY <1>0, <1>3, RejectedAsks
  <2>2. write.type = "NONE"
    BY <1>0, <2>1 DEF RunInv
  <2>3. cp3 = "IDLE" /\ Closed
    BY <1>0, <2>1, <2>2 DEF StepInv, InitStep, Waiting
  <2> QED BY <1>0, <2>1, <2>3, CoreAsks DEF Finds
<1>4. CASE CSave /\ ~Expired(central.tk)
  <2>1. /\ Asks /\ central.pc = "save" /\ store' = central.tk
        /\ write'.type = "APP" /\ write'.key = central'.keys /\ write'.seq = central'.seq
        /\ central'.keys = central.keys /\ central'.seq = 0
    BY <1>0, <1>4, SaveAsks
  <2>2. link => cp3 # "BUSY" /\ SecureAt(central'.keys, central'.seq)
    BY <1>0, <2>1 DEF StepInv, SecureAt
  <2> QED BY <1>0, <2>1, <2>2, CoreAsks DEF Finds
<1>5. CASE CPong /\ Asks
  <2>1. /\ central.pc = "read" /\ central.step = "APP" /\ link /\ nq # <<>> /\ store' = store
        /\ write'.type = "APP" /\ write'.key = central'.keys /\ write'.seq = central'.seq
        /\ central'.keys = central.keys /\ central'.seq = central.seq + 1
    BY <1>0, <1>5, PongMoves DEF Asks, HungUp
  <2>2. write.type = "NONE"
    BY <1>0, <2>1 DEF RunInv
  <2>3. cp3 # "BUSY" /\ SecureAt(central'.keys, central'.seq)
    BY <1>0, <2>1, <2>2 DEF StepInv, AppStep, Waiting, SecureAt
  <2> QED BY <1>0, <1>5, <2>1, <2>3, CoreAsks DEF Finds
<1> QED BY <1>1, <1>2, <1>3, <1>4, <1>5

LEMMA CoreWritten ==
  ASSUME TypeOK, CoreInv, faults' \in 0 .. MaxFaults, CWritten, att = "ok"
  PROVE  CoreInv'
<1> USE DEF vars, coreVars
<1>0. SysTypeOK
  BY DEF CoreInv
<1>1. /\ central' \in RunSet /\ Kept /\ SameFrame /\ att' = "none"
      /\ central.pc = "write" /\ central'.pc = "read" /\ central'.step = central.step
      /\ UNCHANGED <<vars, store, paired, runs, faults, link, write, nq, cp3>>
  BY <1>0, WrittenReads
<1>2. SysTypeOK'
  BY <1>0, <1>1 DEF SysTypeOK
<1>3. RunInv'
  BY <1>1 DEF CoreInv, RunInv, Kept, SameFrame, Starting, Waiting
<1>4. AnswerInv' /\ LinkInv'
  BY <1>1 DEF CoreInv, AnswerInv, LinkInv
<1>5. StepInv'
  BY <1>1 DEF CoreInv, RunInv, StepInv, InitStep, FinishStep, FullStep, AppStep, Closed, OpenAs,
              SecureAt, Starting, Waiting, SameFrame
<1> QED BY <1>2, <1>3, <1>4, <1>5 DEF CoreInv

LEMMA CoreSaves ==
  ASSUME TypeOK, CoreInv, faults' \in 0 .. MaxFaults, CFinished \/ CFullFinished
  PROVE  CoreInv'
<1> USE DEF vars, coreVars
<1>0. SysTypeOK /\ RunInv /\ StepInv
  BY DEF CoreInv
<1>1. /\ Saves
      /\ \/ central.step = "FINISH_C" /\ Head(nq).type = "FINISH_P" /\ central'.keys = central.keys
         \/ /\ central.step = "FULL" /\ central'.keys = FullKeys(Head(nq).root)
            /\ central'.tk.age = 0
  BY <1>0, FinishedSaves, FullSaves
<1>2. SysTypeOK'
  BY <1>0, <1>1 DEF SysTypeOK, Saves
<1>3. write.type = "NONE" /\ pc = "free" /\ runs # 0
  BY <1>0, <1>1 DEF RunInv, Saves, TypeOK
<1>4. RunInv'
  <2>1. central.elapsed >= 0
    BY <1>0, Constants DEF SysTypeOK, RunSet
  <2> QED BY <1>0, <1>1, <1>3, <2>1 DEF RunInv, Saves, Kept, Starting, Waiting
<1>5. AnswerInv' /\ LinkInv'
  BY <1>1 DEF CoreInv, AnswerInv, LinkInv, Saves
<1>6. cp3 # "BUSY" /\ SecureAt(central'.keys, 0)
  <2>1. CASE central.step = "FINISH_C"
    BY <1>0, <1>1, <1>3, <2>1 DEF StepInv, FinishStep, Saves, Waiting, SecureAt
  <2>2. CASE central.step = "FULL"
    BY <1>0, <1>1, <1>3, <2>2 DEF StepInv, FullStep, Saves, Waiting, SecureAt
  <2> QED BY <1>1, <2>1, <2>2
<1>7. StepInv'
  BY <1>1, <1>6 DEF Saves, StepInv, SecureAt, Closed, Starting, Waiting
<1> QED BY <1>2, <1>4, <1>5, <1>7 DEF CoreInv

LEMMA CoreStarts ==
  ASSUME TypeOK, CoreInv, faults' \in 0 .. MaxFaults, CStart \/ CConnect \/ CEncrypt \/ CPaired
  PROVE  CoreInv'
<1> USE DEF vars, coreVars
<1>0. SysTypeOK /\ RunInv /\ AnswerInv /\ LinkInv /\ StepInv
  BY DEF CoreInv
<1>1. CASE CStart
  <2>1. /\ central' \in RunSet /\ central.pc = "off" /\ central'.pc = "connect"
        /\ central'.step = "NONE" /\ ~central'.fell /\ ~central'.force
        /\ runs' = runs + 1 /\ runs' \in 0 .. MaxRuns
        /\ UNCHANGED <<vars, store, paired, faults, bleVars, cp3>>
    BY <1>0, <1>1, StartFields
  <2>2. runs' # 0
    BY <1>0, <2>1, Constants DEF SysTypeOK
  <2>3. SysTypeOK'
    BY <1>0, <2>1 DEF SysTypeOK, bleVars
  <2>4. RunInv'
    BY <1>0, <2>1, <2>2 DEF RunInv, Starting, Waiting, bleVars
  <2>5. AnswerInv' /\ LinkInv' /\ StepInv'
    BY <1>0, <2>1 DEF RunInv, AnswerInv, LinkInv, StepInv, Starting, bleVars
  <2> QED BY <2>3, <2>4, <2>5 DEF CoreInv
<1>2. CASE CConnect \/ CEncrypt \/ CPaired
  <2>1. /\ Secures /\ link' = TRUE
        /\ \/ CConnect /\ central.pc = "connect" /\ central'.pc = "secure"
           \/ CEncrypt /\ central.pc = "secure" /\ link /\ central'.pc \in {"load", "pair"}
              /\ (central'.pc = "pair" => central'.cold)
           \/ CPaired /\ central.pc = "pair" /\ central'.pc = "load" /\ link
    BY <1>0, <1>2, SecureFields
  <2>2. paired' \in BOOLEAN
    BY <1>0, <1>2 DEF CConnect, CEncrypt, CPaired, SysTypeOK
  <2>3. SysTypeOK'
    BY <1>0, <2>1, <2>2 DEF SysTypeOK, Secures
  <2>4. pc' = pc /\ (CConnect => pc = "free")
    BY <1>2 DEF CConnect, CEncrypt, CPaired, Connected, SecurityChanged, BondStored, Unlocked
  <2>5. RunInv'
    BY <1>0, <2>1, <2>4 DEF RunInv, Secures, SameFrame, Starting, Waiting
  <2>6. AnswerInv'
    BY <1>0, <2>1 DEF AnswerInv, Secures
  <2>7. owner' = Self /\ cp3' = "IDLE" /\ session'.state = "IDLE"
    <3>1. CASE CConnect
      BY <1>0, <2>1, <3>1 DEF CConnect, Connected, ClearSession, NoSession, LinkInv, Secures
    <3>2. CASE CEncrypt \/ CPaired
      BY <1>0, <2>1, <3>2 DEF CEncrypt, CPaired, SecurityChanged, BondStored, LinkInv, StepInv,
                              Closed, Secures, Starting, CConnect, Connected
    <3> QED BY <1>2, <3>1, <3>2
  <2>8. LinkInv' /\ StepInv'
    BY <2>1, <2>7 DEF LinkInv, StepInv, Closed, Secures, Starting, Waiting
  <2> QED BY <2>3, <2>5, <2>6, <2>8 DEF CoreInv
<1> QED BY <1>1, <1>2
(* A handled write is answered; nothing else of the run moves. *)
Answers(m) == /\ m \in Notifications /\ nq' = <<m>> /\ write' = NoWrite
              /\ write.type # "NONE" /\ link /\ central.pc = "write" /\ write.type = central.step
              /\ UNCHANGED <<store, paired, central, runs, faults, link, cp3>>
              /\ UNCHANGED <<owner, bonds, bondNotice, issued>>
LEMMA KeysTyped == ASSUME NEW k \in KeySet PROVE k \in CentralKeys
<1>1. \A r \in 0 .. MaxFull : r \in 0 .. Orphan
  BY Constants
<1> QED BY <1>1 DEF KeySet, CentralKeys

LEMMA InitAnswers ==
  ASSUME TypeOK, SysTypeOK, RunInv, PInitTaken \/ PInitRejected
  PROVE  \E m : /\ Answers(m) /\ write.type = "INIT" /\ att' = "ok" /\ pc' = "free"
                /\ \/ m.type = "REJECT" /\ session'.state = "IDLE"
                   \/ /\ m.type = "ACCEPT" /\ session'.state = "WAIT_C"
                      /\ session'.keys = m.keys
<1>1. /\ write.type = "INIT" /\ link /\ nq = <<>> /\ central.pc = "write" /\ central.step = "INIT"
      /\ pc = "free" /\ write' = NoWrite /\ att' = "ok"
      /\ UNCHANGED <<store, paired, central, runs, faults, link, cp3>>
  BY DEF PInitTaken, PInitRejected, Arrived, Respond, RunInv
<1>2. write.sid \in Sids /\ write.nc \in Nonces
  BY <1>1 DEF SysTypeOK, Writes, NoWrite
<1>3. CASE PInitTaken
  <2>1. PICK np \in PNonces : /\ InitTaken(write, np, "none", TRUE)
                              /\ nq' = Append(nq, [type |-> "ACCEPT", keys |-> ResumeKeys(write, np)])
    BY <1>3 DEF PInitTaken, Notify
  <2> DEFINE k == ResumeKeys(write, np)
             m == [type |-> "ACCEPT", keys |-> k]
  <2>2. k \in KeySet
    BY <1>2 DEF ResumeKeys, KeySet, TypeOK, TicketSet
  <2>3. m \in Notifications /\ m.type = "ACCEPT" /\ m.keys = k
    BY <2>2, KeysTyped DEF Notifications
  <2> HIDE DEF k
  <2>4. session' = [state |-> "WAIT_C", left |-> PENDING, keys |-> k]
        /\ UNCHANGED <<owner, bonds, bondNotice, issued, pc>>
    BY <2>1 DEF InitTaken, linkVars, k
  <2>5. nq' = <<m>>
    BY <1>1, <2>1, Singleton DEF k
  <2> QED BY <1>1, <2>3, <2>4, <2>5 DEF Answers
<1>4. CASE PInitRejected
  <2> DEFINE m == [type |-> "REJECT"]
  <2>1. m \in Notifications /\ m.type = "REJECT"
    BY DEF Notifications
  <2>2. nq' = <<m>>
    BY <1>1, <1>4, Singleton DEF PInitRejected, Notify
  <2>3. session'.state = "IDLE" /\ UNCHANGED <<owner, bonds, bondNotice, issued, pc>>
    BY <1>4 DEF PInitRejected, InitRejected, ClearSession, NoSession, linkVars, historyVars
  <2> QED BY <1>1, <2>1, <2>2, <2>3 DEF Answers
<1> QED BY <1>3, <1>4

LEMMA FinishAnswers ==
  ASSUME TypeOK, SysTypeOK, RunInv, PFinishAnswered \/ PFinishRejected
  PROVE  \E m : /\ Answers(m) /\ write.type = "FINISH_C"
                /\ \/ /\ PFinishRejected /\ m.type = "REJECT" /\ session'.state = "IDLE"
                      /\ att' = "ok" /\ pc' = "free"
                   \/ /\ PFinishAnswered /\ m.type = "FINISH_P" /\ att' = "none" /\ pc' = "commit"
                      /\ session'.keys = central.keys
<1>1. /\ write.type = "FINISH_C" /\ link /\ nq = <<>> /\ central.pc = "write" /\ att = "none"
      /\ central.step = "FINISH_C" /\ pc = "free" /\ write' = NoWrite /\ write.key = central.keys
      /\ UNCHANGED <<store, paired, central, runs, faults, link, cp3>>
  BY DEF PFinishAnswered, PFinishRejected, Arrived, Respond, RunInv
<1>2. CASE PFinishAnswered
  <2> DEFINE m == [type |-> "FINISH_P", key |-> write.key]
  <2>1. m \in Notifications /\ m.type = "FINISH_P"
    BY <1>1 DEF Notifications, SysTypeOK, RunSet
  <2>2. nq' = <<m>> /\ att' = "none"
    BY <1>1, <1>2, Singleton DEF PFinishAnswered, Notify
  <2>3. session'.keys = write.key /\ pc' = "commit" /\ UNCHANGED <<owner, bonds, bondNotice, issued>>
    BY <1>2 DEF PFinishAnswered, FinishAnswered, FinishGenuine, linkVars, historyVars, TypeOK, SessionSet
  <2> QED BY <1>1, <1>2, <2>1, <2>2, <2>3 DEF Answers
<1>3. CASE PFinishRejected
  <2> DEFINE m == [type |-> "REJECT"]
  <2>1. m \in Notifications /\ m.type = "REJECT"
    BY DEF Notifications
  <2>2. nq' = <<m>> /\ att' = "ok"
    BY <1>1, <1>3, Singleton DEF PFinishRejected, Notify, Respond
  <2>3. session'.state = "IDLE" /\ UNCHANGED <<owner, bonds, bondNotice, issued, pc>>
    BY <1>3 DEF PFinishRejected, FinishRejected, ClearSession, NoSession, linkVars, historyVars
  <2> QED BY <1>1, <1>3, <2>1, <2>2, <2>3 DEF Answers
<1> QED BY <1>2, <1>3

LEMMA AppAnswers ==
  ASSUME TypeOK, SysTypeOK, RunInv, LinkInv, StepInv, PApp
  PROVE  \E m : /\ Answers(m) /\ write.type = "APP" /\ att' = "ok" /\ pc' = "free"
                /\ m.type = "PONG" /\ m.key = central.keys /\ m.seq = central.seq
                /\ session' = session /\ session.state = "SECURE" /\ session.keys = central.keys
                /\ rx' = central.seq + 1 /\ tx' = central.seq + 1
<1>1. /\ write.type = "APP" /\ link /\ nq = <<>> /\ central.pc = "write" /\ central.step = "APP"
      /\ pc = "free" /\ write' = NoWrite /\ att' = "ok"
      /\ UNCHANGED <<store, paired, central, runs, faults, link, cp3>>
  BY DEF PApp, Arrived, Respond, RunInv
<1>2. /\ session.state = "SECURE" /\ session' = session /\ rx' = rx + 1 /\ tx' = tx + 1
      /\ UNCHANGED <<owner, bonds, bondNotice, issued, pc>>
  BY DEF PApp, AppAnswered, AppGenuine, linkVars
<1>3. session.keys = central.keys /\ rx = central.seq /\ tx = central.seq
  BY <1>1, <1>2 DEF StepInv, AppStep, SecureAt, Closed, Waiting
<1> DEFINE m == [type |-> "PONG", key |-> session.keys, seq |-> tx]
<1>4. session.keys \in KeySet /\ tx \in 0 .. SEQ_MAX
  BY DEF TypeOK, SessionSet
<1>5. m \in Notifications /\ m.type = "PONG" /\ m.key = session.keys /\ m.seq = tx
  BY <1>4, KeysTyped DEF Notifications
<1>6. nq' = <<m>>
  BY <1>1, Singleton DEF PApp, Notify
<1> HIDE DEF m
<1> QED BY <1>1, <1>2, <1>3, <1>5, <1>6 DEF Answers

LEMMA CoreAnswers ==
  ASSUME TypeOK, CoreInv, faults' \in 0 .. MaxFaults,
         PInitTaken \/ PInitRejected \/ PFinishAnswered \/ PFinishRejected \/ PApp
  PROVE  CoreInv'
<1>0. SysTypeOK /\ RunInv /\ AnswerInv /\ LinkInv /\ StepInv
  BY DEF CoreInv
<1>1. PICK m :
      /\ Answers(m) /\ att' \in {"none", "ok"}
      /\ pc' = "free" \/ (pc' = "commit" /\ central.step = "FINISH_C" /\ att' = "none")
      /\ \/ /\ write.type = "INIT" /\ m.type = "REJECT" /\ session'.state = "IDLE"
         \/ /\ write.type = "INIT" /\ m.type = "ACCEPT" /\ session'.state = "WAIT_C"
            /\ session'.keys = m.keys
         \/ /\ write.type = "FINISH_C" /\ m.type = "REJECT" /\ session'.state = "IDLE" /\ pc' = "free"
         \/ /\ write.type = "FINISH_C" /\ m.type = "FINISH_P" /\ pc' = "commit"
            /\ session'.keys = central.keys
         \/ /\ write.type = "APP" /\ m.type = "PONG" /\ m.key = central.keys /\ m.seq = central.seq
            /\ session'.state = "SECURE" /\ session'.keys = central.keys
            /\ rx' = central.seq + 1 /\ tx' = central.seq + 1
  <2>1. CASE PInitTaken \/ PInitRejected
    BY <1>0, <2>1, InitAnswers
  <2>2. CASE PFinishAnswered \/ PFinishRejected
    BY <1>0, <2>2, FinishAnswers DEF Answers
  <2>3. CASE PApp
    BY <1>0, <2>3, AppAnswers
  <2> QED BY <2>1, <2>2, <2>3
<1>2. nq' # <<>> /\ Head(nq') = m /\ write'.type = "NONE" /\ write' \in Writes
  BY <1>1, Singleton, EmptyTyped DEF Answers
<1>3. SysTypeOK'
  BY <1>0, <1>1, <1>2 DEF SysTypeOK, Answers
<1>4. RunInv'
  BY <1>0, <1>1, <1>2 DEF RunInv, Answers, Starting, Waiting
<1>5. AnswerInv' /\ LinkInv'
  BY <1>0, <1>1, <1>2 DEF AnswerInv, LinkInv, Answers
<1>6. StepInv'
  <2>1. CASE central.step = "INIT"
    BY <1>0, <1>1, <1>2, <2>1 DEF StepInv, InitStep, OpenAs, Closed, Starting, Waiting, Answers
  <2>2. CASE central.step = "FINISH_C"
    BY <1>0, <1>1, <1>2, <2>2 DEF StepInv, FinishStep, OpenAs, Closed, Starting, Waiting, Answers
  <2>3. CASE central.step = "APP"
    BY <1>0, <1>1, <1>2, <2>3 DEF StepInv, AppStep, SecureAt, Closed, Starting, Waiting, Answers
  <2> QED BY <1>1, <2>1, <2>2, <2>3 DEF Answers
<1> QED BY <1>3, <1>4, <1>5, <1>6 DEF CoreInv
(* Steps of the Peripheral and of the environment leave the run as it is,  *)
(* but for its age and its claim to be clean.                              *)
SameRun == /\ central' \in RunSet /\ central'.pc = central.pc /\ central'.step = central.step
           /\ central'.keys = central.keys /\ central'.seq = central.seq
           /\ central'.cold = central.cold /\ central'.force = central.force
           /\ central'.fell = central.fell /\ central'.result = central.result
           /\ central'.tk.root = central.tk.root /\ central'.tk.uses = central.tk.uses
           /\ (central.tk.age <= central.elapsed => central'.tk.age <= central'.elapsed)
           /\ (central'.clean => central.clean)
LEMMA Unclean ==
  ASSUME SysTypeOK, NEW b \in BOOLEAN, b => central.clean, central' = [central EXCEPT !.clean = b]
  PROVE  SameRun /\ central'.clean = b
<1>1. central \in RunSet
  BY DEF SysTypeOK
<1>2. /\ central' \in RunSet /\ central'.pc = central.pc /\ central'.step = central.step
      /\ central'.keys = central.keys /\ central'.seq = central.seq
      /\ central'.cold = central.cold /\ central'.force = central.force
      /\ central'.fell = central.fell /\ central'.result = central.result
      /\ central'.tk = central.tk /\ central'.elapsed = central.elapsed /\ central'.clean = b
  BY <1>1 DEF RunSet
<1> QED BY <1>2 DEF SameRun
LEMMA Untouched == ASSUME SysTypeOK, central' = central PROVE SameRun
  BY DEF SysTypeOK, SameRun

LEMMA OlderTyped ==
  ASSUME NEW t \in StoreSet
  PROVE  /\ Older(t) \in StoreSet /\ Older(t).root = t.root /\ Older(t).uses = t.uses
         /\ Older(t).age <= t.age + 1
<1> DEFINE a == IF t.root # 0 /\ t.age < TTL THEN t.age + 1 ELSE t.age
<1>1. Older(t) = [t EXCEPT !.age = a]
  BY DEF Older, StoreSet
<1>2. a \in 0 .. TTL /\ a <= t.age + 1
  BY Constants DEF StoreSet
<1> HIDE DEF a
<1> QED BY <1>1, <1>2 DEF StoreSet

LEMMA TickFields ==
  ASSUME SysTypeOK, SysTick
  PROVE  /\ SameRun /\ central'.clean = central.clean
         /\ store' \in StoreSet /\ store'.root = store.root /\ store'.uses = store.uses
<1>1. store' = Older(store) /\ store \in StoreSet /\ central \in RunSet /\ central.tk \in StoreSet
  BY DEF SysTick, SysTypeOK, RunSet
<1>2. SameRun /\ central'.clean = central.clean
  <2>1. CASE UNCHANGED central
    BY <2>1, Untouched
  <2>2. CASE ~UNCHANGED central
    <3>1. /\ central.elapsed < RunTicks
          /\ central' = [central EXCEPT !.tk = Older(central.tk), !.elapsed = central.elapsed + 1]
      <4>1. /\ central.elapsed < RunTicks
            /\ central' = [central EXCEPT !.tk = Older(@), !.elapsed = @ + 1]
        BY <2>2 DEF SysTick
      <4> QED BY <1>1, <4>1 DEF RunSet
    <3>0. central.elapsed \in 0 .. RunTicks /\ central.tk.age \in 0 .. TTL
      BY <1>1 DEF RunSet, StoreSet
    <3>2. central.elapsed + 1 \in 0 .. RunTicks /\ central.tk.age \in Nat
      <4>1. central.elapsed < RunTicks
        BY <3>1
      <4> QED BY <3>0, <4>1, Constants
    <3>3. Older(central.tk) \in StoreSet
      BY <1>1, OlderTyped
    <3>4. /\ central' \in RunSet /\ central'.pc = central.pc /\ central'.step = central.step
          /\ central'.keys = central.keys /\ central'.seq = central.seq
          /\ central'.cold = central.cold /\ central'.force = central.force
          /\ central'.fell = central.fell /\ central'.result = central.result
          /\ central'.tk = Older(central.tk) /\ central'.elapsed = central.elapsed + 1
          /\ central'.clean = central.clean
      BY <1>1, <3>1, <3>2, <3>3 DEF RunSet
    <3>5. /\ Older(central.tk).root = central.tk.root /\ Older(central.tk).uses = central.tk.uses
          /\ Older(central.tk).age <= central.tk.age + 1 /\ Older(central.tk).age \in Nat
      BY <1>1, <3>3, OlderTyped DEF StoreSet
    <3>6. central.elapsed \in Nat
      BY <1>1 DEF RunSet
    <3>7. central.tk.age <= central.elapsed => Older(central.tk).age <= central.elapsed + 1
      BY <3>2, <3>5, <3>6
    <3> QED BY <3>4, <3>5, <3>7 DEF SameRun
  <2> QED BY <2>1, <2>2
<1> QED BY <1>1, <1>2, OlderTyped

(* Nothing in flight moves, and the session stays or is closed. *)
Calm == /\ SameRun /\ store' \in StoreSet /\ paired' \in BOOLEAN
        /\ UNCHANGED <<runs, link, write, att, nq, cp3, owner, pc>>
        /\ \/ session'.state = "IDLE" /\ pc = "free"
           \/ /\ session'.state = session.state /\ session'.keys = session.keys
              /\ rx' = rx /\ tx' = tx
LEMMA CoreCalm == ASSUME CoreInv, Calm, faults' \in 0 .. MaxFaults PROVE CoreInv'
<1>0. SysTypeOK /\ RunInv /\ AnswerInv /\ LinkInv /\ StepInv
  BY DEF CoreInv
<1>1. SysTypeOK'
  BY <1>0 DEF SysTypeOK, Calm, SameRun
<1>2. RunInv'
  BY <1>0 DEF RunInv, Calm, SameRun, Starting, Waiting
<1>3. AnswerInv' /\ LinkInv'
  BY <1>0 DEF AnswerInv, LinkInv, Calm, SameRun
<1>4. StepInv'
  <2>1. CASE session'.state = "IDLE" /\ pc = "free"
    BY <1>0, <2>1 DEF StepInv, InitStep, FinishStep, FullStep, AppStep, OpenAs, SecureAt, Closed,
                      Starting, Waiting, Calm, SameRun
  <2>2. CASE /\ session'.state = session.state /\ session'.keys = session.keys
             /\ rx' = rx /\ tx' = tx
    BY <1>0, <2>2 DEF StepInv, InitStep, FinishStep, FullStep, AppStep, OpenAs, SecureAt, Closed,
                      Starting, Waiting, Calm, SameRun
  <2> QED BY <2>1, <2>2 DEF Calm
<1> QED BY <1>1, <1>2, <1>3, <1>4 DEF CoreInv

LEMMA CalmSteps ==
  ASSUME TypeOK, SysTypeOK,
         PBondChanged \/ PExpire \/ SysTick \/ OperatorClearsBonds \/ OperatorUnpairs
         \/ UNCHANGED sysVars
  PROVE  Calm
<1>0. store \in StoreSet /\ paired \in BOOLEAN
  BY DEF SysTypeOK
<1>1. CASE PBondChanged
  BY <1>0, <1>1, Untouched DEF PBondChanged, BondChanged, ClearSession, NoSession, Unlocked, Calm, bleVars
<1>2. CASE PExpire
  BY <1>0, <1>2, Untouched DEF PExpire, Expire, ClearSession, KeepSession, NoSession, Unlocked,
                               Calm, bleVars, linkVars
<1>3. CASE SysTick
  <2>1. /\ session'.state = session.state /\ session'.keys = session.keys /\ rx' = rx /\ tx' = tx
        /\ UNCHANGED <<owner, pc>>
    BY <1>3 DEF SysTick, Tick, TypeOK, SessionSet, linkVars
  <2> QED BY <1>0, <1>3, <2>1, TickFields DEF SysTick, Calm, bleVars
<1>4. CASE OperatorClearsBonds
  <2>1. SameRun
    BY <1>4, Unclean DEF OperatorClearsBonds
  <2> QED BY <1>0, <1>4, <2>1 DEF OperatorClearsBonds, BondErased, Calm, bleVars
<1>5. CASE OperatorUnpairs
  BY <1>0, <1>5, Untouched DEF OperatorUnpairs, vars, coreVars, Calm, bleVars
<1>6. CASE UNCHANGED sysVars
  BY <1>0, <1>6, Untouched DEF sysVars, vars, coreVars, Calm
<1> QED BY <1>1, <1>2, <1>3, <1>4, <1>5, <1>6

(* The link goes down under the Central. *)
Drops == /\ SameRun /\ link' = FALSE /\ write' = NoWrite /\ att' = "none" /\ nq' \in {nq, <<>>}
         /\ pc' \in {pc, "free"} /\ UNCHANGED <<store, paired, runs>>
         /\ cp3' = "IDLE" \/ (cp3' = cp3 /\ owner' = owner)
LEMMA CoreDrops == ASSUME CoreInv, Drops, faults' \in 0 .. MaxFaults PROVE CoreInv'
<1>0. SysTypeOK /\ RunInv /\ AnswerInv /\ LinkInv
  BY DEF CoreInv
<1>a. write' \in Writes /\ write'.type = "NONE"
  BY EmptyTyped DEF Drops
<1>1. SysTypeOK'
  BY <1>0, <1>a DEF SysTypeOK, Drops, SameRun
<1>2. RunInv'
  BY <1>0, <1>a DEF RunInv, Drops, SameRun, Starting, Waiting
<1>3. AnswerInv' /\ LinkInv' /\ StepInv'
  BY <1>0 DEF AnswerInv, LinkInv, StepInv, Drops, SameRun
<1> QED BY <1>1, <1>2, <1>3 DEF CoreInv
LEMMA DropSteps ==
  ASSUME SysTypeOK, LinkLost \/ PTerminate \/ PeripheralReboot PROVE Drops
<1>1. CASE LinkLost
  BY <1>1, Unclean DEF LinkLost, Drops, vars, coreVars
<1>2. CASE PTerminate
  BY <1>2, Untouched DEF PTerminate, Drops, vars, coreVars
<1>3. CASE PeripheralReboot
  BY <1>3, Unclean DEF PeripheralReboot, Reboot, Drops
<1> QED BY <1>1, <1>2, <1>3

LEMMA CoreDisconnected ==
  ASSUME CoreInv, PDisconnected, faults' \in 0 .. MaxFaults PROVE CoreInv'
<1>0. SysTypeOK /\ RunInv /\ AnswerInv
  BY DEF CoreInv
<1>1. /\ ~link /\ link' = link /\ cp3' = "IDLE" /\ pc' = pc
      /\ UNCHANGED <<store, paired, central, runs, write, att, nq>>
  BY DEF PDisconnected, Disconnected, bleVars
<1>2. SysTypeOK'
  BY <1>0, <1>1 DEF SysTypeOK
<1>3. RunInv' /\ AnswerInv' /\ LinkInv' /\ StepInv'
  BY <1>0, <1>1 DEF RunInv, AnswerInv, LinkInv, StepInv, Starting, Waiting
<1> QED BY <1>2, <1>3 DEF CoreInv
(* The commit of a confirmation, on the link that sent it or after it.     *)
LEMMA CommitFields ==
  ASSUME TypeOK, SysTypeOK, PCommit
  PROVE  /\ SameRun /\ pc = "commit" /\ pc' = "free" /\ att' \in {"ok", "err"}
         /\ (att' = "ok" => CommitAllowed) /\ (central'.clean => CommitAllowed)
         /\ UNCHANGED <<store, paired, runs, faults, link, write, nq, cp3>>
         /\ UNCHANGED <<owner, bonds, bondNotice, issued>>
         /\ \/ session'.state = "IDLE" /\ ~CommitAllowed
            \/ /\ CommitAllowed /\ session'.state = "SECURE" /\ session'.keys = session.keys
               /\ rx' = 0 /\ tx' = 0
<1> DEFINE b == central.clean /\ CommitAllowed
<1>1. b \in BOOLEAN /\ (b => central.clean)
  OBVIOUS
<1>2. central' = [central EXCEPT !.clean = b]
  BY DEF PCommit, SysTypeOK, RunSet
<1>3. SameRun /\ central'.clean = b
  BY <1>1, <1>2, Unclean
<1>4. /\ pc = "commit" /\ pc' = "free" /\ UNCHANGED <<owner, bonds, bondNotice, issued>>
  BY DEF PCommit, Commit, linkVars, historyVars
<1>5. CASE CommitAllowed
  BY <1>3, <1>4, <1>5 DEF PCommit, Commit, TypeOK, SessionSet
<1>6. CASE ~CommitAllowed
  <2>1. session'.state = "IDLE"
    BY <1>6 DEF PCommit, Commit, ClearSession, NoSession
  <2>2. att' = "err" /\ UNCHANGED <<store, paired, runs, faults, link, write, nq, cp3>>
    BY <1>6 DEF PCommit
  <2> QED BY <1>3, <1>4, <1>6, <2>1, <2>2
<1> QED BY <1>5, <1>6

LEMMA CoreCommit ==
  ASSUME TypeOK, KeyInv, CoreInv, PCommit, faults' \in 0 .. MaxFaults PROVE CoreInv'
<1>0. SysTypeOK /\ RunInv /\ AnswerInv /\ LinkInv /\ StepInv
  BY DEF CoreInv
<1>1. /\ SameRun /\ pc = "commit" /\ pc' = "free" /\ att' \in {"ok", "err"}
      /\ UNCHANGED <<store, paired, runs, faults, link, write, nq, cp3, owner>>
      /\ \/ session'.state = "IDLE"
         \/ /\ session'.state = "SECURE" /\ session'.keys = session.keys
            /\ rx' = 0 /\ tx' = 0
  BY <1>0, CommitFields
<1>2. write.type = "NONE" /\ session.state = "PENDING_P"
  BY <1>0, <1>1 DEF RunInv, KeyInv, CommitOwned
<1>3. SysTypeOK'
  BY <1>0, <1>1 DEF SysTypeOK, SameRun
<1>4. RunInv'
  BY <1>0, <1>1, <1>2 DEF RunInv, SameRun, Starting, Waiting
<1>5. AnswerInv' /\ LinkInv'
  BY <1>0, <1>1 DEF AnswerInv, LinkInv, SameRun
<1>6. StepInv'
  <2> SUFFICES ASSUME link' PROVE StepInv'
    BY DEF StepInv
  <2>1. central.pc = "write" /\ central.step = "FINISH_C" /\ FinishStep
    BY <1>0, <1>1 DEF RunInv, StepInv, Waiting
  <2>2. nq # <<>> /\ Head(nq).type = "FINISH_P" /\ session.keys = central.keys /\ cp3 = "IDLE"
    BY <1>1, <1>2, <2>1 DEF FinishStep, OpenAs, Closed
  <2>3. FinishStep'
    BY <1>1, <1>2, <2>2 DEF FinishStep, SecureAt, Closed, SameRun
  <2> QED BY <1>1, <2>1, <2>3 DEF StepInv, SameRun, Starting, Waiting
<1> QED BY <1>3, <1>4, <1>5, <1>6 DEF CoreInv

(* A write is refused: only a PING can be. *)
LEMMA CoreDenied ==
  ASSUME TypeOK, CoreInv, PAppDenied \/ PNotReady, faults' \in 0 .. MaxFaults PROVE CoreInv'
<1> USE DEF vars, coreVars
<1>0. SysTypeOK /\ RunInv /\ AnswerInv /\ LinkInv /\ StepInv
  BY DEF CoreInv
<1>1. /\ write.type \in {"INIT", "FINISH_C", "APP"} /\ link /\ (PAppDenied => write.type = "APP")
      /\ write' = NoWrite /\ att' = "err"
      /\ UNCHANGED <<store, paired, central, runs, link, nq, cp3>>
  BY DEF PAppDenied, PNotReady, Arrived, Respond
<1>2. /\ pc' = pc /\ owner' = owner
      /\ \/ session'.state = "IDLE"
         \/ /\ UNCHANGED <<session, rx, tx>> /\ cp3 # "IDLE"
  BY DEF PAppDenied, PNotReady, ControlDenied, ClearSession, NoSession, linkVars, Ready
<1>3. write.type = "APP" /\ central.pc = "write" /\ central.step = "APP" /\ nq = <<>> /\ pc = "free"
  <2>1. central.pc = "write" /\ central.step = write.type /\ nq = <<>> /\ pc = "free"
    BY <1>0, <1>1 DEF RunInv
  <2>2. CASE PNotReady
    <3>1. cp3 # "IDLE"
      BY <2>2 DEF PNotReady, Ready
    <3> QED BY <1>0, <1>1, <2>1, <3>1 DEF StepInv, InitStep, FinishStep, Waiting
  <2> QED BY <1>1, <2>1, <2>2
<1>4. write' \in Writes /\ write'.type = "NONE"
  BY <1>1, EmptyTyped
<1>5. SysTypeOK'
  BY <1>0, <1>1, <1>4 DEF SysTypeOK
<1>6. RunInv' /\ AnswerInv' /\ LinkInv'
  BY <1>0, <1>1, <1>2, <1>3, <1>4 DEF RunInv, AnswerInv, LinkInv, Starting, Waiting
<1>7. StepInv'
  BY <1>0, <1>1, <1>2, <1>3, <1>4 DEF StepInv, AppStep, SecureAt, Closed, Starting, Waiting
<1> QED BY <1>5, <1>6, <1>7 DEF CoreInv

(* The full handshake is taken up, and is answered. *)
LEMMA FullTaken ==
  ASSUME CoreInv, PFullStart
  PROVE  /\ cp3 = "IDLE" /\ cp3' = "BUSY" /\ att' = "ok" /\ write' = NoWrite /\ write.type = "FULL"
         /\ central.pc = "write" /\ central.step = "FULL" /\ nq = <<>> /\ link
         /\ session.state = "IDLE"
         /\ UNCHANGED <<vars, store, paired, central, runs, faults, link, nq>>
<1>1. write.type = "FULL" /\ link /\ central.pc = "write" /\ central.step = "FULL" /\ nq = <<>>
  BY DEF PFullStart, Arrived, CoreInv, RunInv
<1>2. session.state = "IDLE" /\ cp3 = "IDLE"
  BY <1>1 DEF CoreInv, StepInv, FullStep, Waiting, Closed
<1> QED BY <1>1, <1>2 DEF PFullStart, Respond

LEMMA CoreFullStart ==
  ASSUME TypeOK, CoreInv, PFullStart, faults' \in 0 .. MaxFaults PROVE CoreInv'
<1> USE DEF vars, coreVars
<1>0. SysTypeOK /\ RunInv /\ AnswerInv /\ LinkInv
  BY DEF CoreInv
<1>1. /\ cp3' = "BUSY" /\ att' = "ok" /\ write' = NoWrite
      /\ central.pc = "write" /\ central.step = "FULL" /\ nq = <<>> /\ link
      /\ session.state = "IDLE"
      /\ UNCHANGED <<vars, store, paired, central, runs, faults, link, nq>>
  BY FullTaken
<1>2. write' \in Writes /\ write'.type = "NONE"
  BY <1>1, EmptyTyped
<1>3. SysTypeOK'
  BY <1>0, <1>1, <1>2 DEF SysTypeOK
<1>4. owner # 0
  BY DEF PFullStart, Arrived
<1>5. RunInv' /\ AnswerInv' /\ LinkInv'
  BY <1>0, <1>1, <1>2, <1>4 DEF RunInv, AnswerInv, LinkInv, Starting, Waiting
<1>6. StepInv'
  BY <1>1, <1>2 DEF StepInv, FullStep, Closed, Starting, Waiting
<1> QED BY <1>3, <1>5, <1>6 DEF CoreInv

LEMMA FullAnswers ==
  ASSUME TypeOK, CoreInv, PFullIssued \/ PFullRefused
  PROVE  \E m : /\ m \in Notifications /\ m.type = "FINISHED_P" /\ nq' = <<m>> /\ SameRun
                /\ Waiting /\ central.step = "FULL" /\ nq = <<>> /\ link /\ cp3 = "BUSY"
                /\ write.type = "NONE" /\ att # "err" /\ pc = "free"
                /\ UNCHANGED <<store, paired, runs, link, write, att, owner, bonds, bondNotice, pc>>
                /\ \/ /\ PFullIssued /\ m.root = issued' /\ issued' = issued + 1
                      /\ cp3' = "APP_SECURE" /\ session'.state = "SECURE" /\ rx' = 0 /\ tx' = 0
                      /\ session'.keys = FullKeys(m.root)
                   \/ /\ PFullRefused /\ m.root = Orphan /\ issued' = issued
                      /\ cp3' = "FAILED" /\ session'.state = "IDLE" /\ ~central'.clean
<1>0. SysTypeOK /\ RunInv /\ StepInv /\ LinkInv
  BY DEF CoreInv
<1>1. cp3 = "BUSY" /\ link /\ pc = "free"
  BY DEF PFullIssued, PFullRefused, FullIssued, FullRefused, Unlocked
<1>2. Waiting /\ central.step = "FULL"
  <2>1. central.pc \notin Starting /\ central.pc # "save"
    BY <1>0, <1>1 DEF StepInv
  <2>2. Waiting
    BY <1>0, <2>1 DEF SysTypeOK, RunSet, Starting, Waiting
  <2>3. central.step \in {"INIT", "FINISH_C", "FULL", "APP"}
    BY <1>0, <2>2 DEF SysTypeOK, RunSet, RunInv
  <2> QED BY <1>0, <1>1, <2>2, <2>3 DEF StepInv, InitStep, FinishStep, AppStep
<1>3. nq = <<>> /\ write.type = "NONE" /\ att # "err"
  BY <1>0, <1>1, <1>2 DEF StepInv, FullStep
<1>4. CASE PFullIssued
  <2> DEFINE m == [type |-> "FINISHED_P", root |-> issued + 1]
  <2>1. issued + 1 \in 1 .. Orphan
    BY <1>4, Constants DEF PFullIssued, FullIssued, TypeOK
  <2>2. m \in Notifications /\ m.type = "FINISHED_P" /\ m.root = issued + 1
    BY <2>1 DEF Notifications
  <2>3. nq' = <<m>>
    BY <1>3, <1>4, Singleton DEF PFullIssued, Notify
  <2>4. /\ session' = FullSession(issued + 1) /\ rx' = 0 /\ tx' = 0 /\ issued' = issued + 1
        /\ UNCHANGED <<owner, bonds, bondNotice, pc>>
    BY <1>4 DEF PFullIssued, FullIssued, linkVars
  <2>5. session'.state = "SECURE" /\ session'.keys = FullKeys(issued + 1)
    BY <2>4, Constants DEF FullSession
  <2>6. SameRun /\ cp3' = "APP_SECURE" /\ UNCHANGED <<store, paired, runs, link, write, att>>
    BY <1>0, <1>4, Untouched DEF PFullIssued
  <2> QED BY <1>1, <1>2, <1>3, <1>4, <2>2, <2>3, <2>4, <2>5, <2>6
<1>5. CASE PFullRefused
  <2> DEFINE m == [type |-> "FINISHED_P", root |-> Orphan]
  <2>1. m \in Notifications /\ m.type = "FINISHED_P" /\ m.root = Orphan
    BY Constants DEF Notifications
  <2>2. nq' = <<m>>
    BY <1>3, <1>5, Singleton DEF PFullRefused, Notify
  <2>3. session'.state = "IDLE" /\ UNCHANGED <<owner, bonds, bondNotice, pc, issued>>
    BY <1>5 DEF PFullRefused, FullRefused, ClearSession, NoSession, linkVars, historyVars
  <2>4. SameRun /\ ~central'.clean
    BY <1>0, <1>5, Unclean DEF PFullRefused
  <2> QED BY <1>1, <1>2, <1>3, <1>5, <2>1, <2>2, <2>3, <2>4 DEF PFullRefused
<1> QED BY <1>4, <1>5

LEMMA CoreFullAnswers ==
  ASSUME TypeOK, CoreInv, PFullIssued \/ PFullRefused, faults' \in 0 .. MaxFaults PROVE CoreInv'
<1>0. SysTypeOK /\ RunInv /\ AnswerInv /\ LinkInv
  BY DEF CoreInv
<1>1. PICK m :
      /\ m \in Notifications /\ m.type = "FINISHED_P" /\ nq' = <<m>> /\ SameRun
      /\ Waiting /\ central.step = "FULL" /\ nq = <<>> /\ link /\ cp3 = "BUSY"
      /\ write.type = "NONE" /\ att # "err" /\ pc = "free"
      /\ UNCHANGED <<store, paired, runs, link, write, att, owner, pc>>
      /\ cp3' \in {"APP_SECURE", "FAILED"}
      /\ \/ session'.state = "IDLE"
         \/ /\ session'.state = "SECURE" /\ rx' = 0 /\ tx' = 0
            /\ session'.keys = FullKeys(m.root)
  BY FullAnswers
<1>2. nq' # <<>> /\ Head(nq') = m
  BY <1>1, Singleton
<1>3. SysTypeOK'
  BY <1>0, <1>1 DEF SysTypeOK, SameRun
<1>4. RunInv'
  BY <1>0, <1>1 DEF RunInv, SameRun, Starting, Waiting
<1>5. AnswerInv' /\ LinkInv'
  BY <1>0, <1>1, <1>2 DEF AnswerInv, LinkInv, SameRun
<1>6. StepInv'
  BY <1>1, <1>2 DEF StepInv, FullStep, SecureAt, Closed, SameRun, Starting, Waiting
<1> QED BY <1>3, <1>4, <1>5, <1>6 DEF CoreInv

(* The core holds after every step. *)
LEMMA CoreStep ==
  ASSUME TypeOK, KeyInv, CoreInv, [SysNext]_sysVars PROVE CoreInv'
<1>0. SysTypeOK /\ faults' \in 0 .. MaxFaults
  BY FaultsTyped DEF CoreInv
<1>1. CASE Quits \/ (CPong /\ ~Asks)
  BY <1>0, <1>1, QuitsHangUp, PongMoves, CoreHungUp
<1>2. CASE CBegin \/ CAccepted \/ CRejected \/ (CSave /\ ~Expired(central.tk)) \/ (CPong /\ Asks)
  BY <1>0, <1>2, CoreCentralAsks
<1>3. CASE (CWritten /\ att = "ok") \/ CFinished \/ CFullFinished
  BY <1>0, <1>3, CoreWritten, CoreSaves
<1>4. CASE CStart \/ CConnect \/ CEncrypt \/ CPaired
  BY <1>0, <1>4, CoreStarts
<1>5. CASE PInitTaken \/ PInitRejected \/ PFinishAnswered \/ PFinishRejected \/ PApp
  BY <1>0, <1>5, CoreAnswers
<1>6. CASE PCommit \/ PAppDenied \/ PNotReady
  BY <1>0, <1>6, CoreCommit, CoreDenied
<1>7. CASE PFullStart \/ PFullIssued \/ PFullRefused
  BY <1>0, <1>7, CoreFullStart, CoreFullAnswers
<1>8. CASE PDisconnected \/ LinkLost \/ PTerminate \/ PeripheralReboot
  BY <1>0, <1>8, CoreDisconnected, DropSteps, CoreDrops
<1>9. CASE PBondChanged \/ PExpire \/ SysTick \/ OperatorClearsBonds \/ OperatorUnpairs
           \/ UNCHANGED sysVars
  BY <1>0, <1>9, CalmSteps, CoreCalm
<1> QED BY <1>1, <1>2, <1>3, <1>4, <1>5, <1>6, <1>7, <1>8, <1>9
        DEF SysNext, CentralStep, PeripheralStep, Disturbance, Quits
-----------------------------------------------------------------------------
(* The counts of uses.  What a step does to the Peripheral's ticket: it    *)
(* may count a use, erase the ticket, or issue one under a new root.       *)
LEMMA TicketMoves ==
  ASSUME TypeOK, [Next]_vars
  PROVE  \/ /\ ticket'.root = ticket.root /\ ticket'.successes >= ticket.successes
            /\ issued' = issued
         \/ ticket'.root = 0 /\ issued' = issued
         \/ ticket'.root = issued + 1 /\ issued' = issued + 1 /\ issued < MaxFull
<1>0. ticket \in TicketSet /\ ticket.successes \in Nat
  BY DEF TypeOK, TicketSet
<1>1. CASE Taken
  <2>1. PICK m, np, fault, sent : InitTaken(m, np, fault, sent)
    BY <1>1 DEF Taken
  <2>2. /\ ticket' = [ticket EXCEPT !.replay = Append(@, [nc |-> m.nc, sid |-> m.sid])]
        /\ issued' = issued
    BY <2>1 DEF InitTaken
  <2>3. ticket'.root = ticket.root /\ ticket'.successes = ticket.successes
    BY <1>0, <2>2 DEF TicketSet
  <2> QED BY <1>0, <2>2, <2>3
<1>2. CASE Commit /\ CommitAllowed
  <2>1. ticket' = Counted(ticket) /\ issued' = issued
    BY <1>2 DEF Commit, historyVars
  <2>2. CASE ticket.successes + 1 >= MAX_USES
    BY <2>1, <2>2 DEF Counted, NoTicket
  <2>3. CASE ~(ticket.successes + 1 >= MAX_USES)
    <3>1. ticket' = [ticket EXCEPT !.successes = ticket.successes + 1]
      BY <1>0, <2>1, <2>3 DEF Counted, TicketSet
    <3>2. ticket'.root = ticket.root /\ ticket'.successes = ticket.successes + 1
      BY <1>0, <3>1 DEF TicketSet
    <3> QED BY <1>0, <2>1, <3>2
  <2> QED BY <2>2, <2>3
<1>3. CASE FullIssued
  BY <1>3 DEF FullIssued, FullTicket
<1>4. CASE Cleared \/ Erased
  BY <1>0, <1>4 DEF Cleared, Erased, NoTicket
<1>5. CASE Quiet
  <2>1. ticket' = [ticket EXCEPT !.age = ticket'.age] /\ issued' = issued
    BY <1>5 DEF Quiet
  <2>2. ticket'.root = ticket.root /\ ticket'.successes = ticket.successes
    BY <1>0, <2>1 DEF TicketSet
  <2> QED BY <1>0, <2>1, <2>2
<1> QED BY <1>1, <1>2, <1>3, <1>4, <1>5, StepKinds

(* A count that is not ahead stays so: a new root is none the Central knew. *)
Fits(r, u, tr, ts) == r # 0 /\ r = tr => u <= ts
LEMMA CountKept ==
  ASSUME TypeOK, TypeOK', [Next]_vars, NEW r \in KnownRoots, NEW u \in Nat,
         Fits(r, u, ticket.root, ticket.successes)
  PROVE  r \in KnownRoots' /\ Fits(r, u, ticket'.root, ticket'.successes)
<1>0. /\ ticket.successes \in Nat /\ ticket'.successes \in Nat /\ issued \in 0 .. MaxFull
      /\ issued' \in 0 .. MaxFull
  BY DEF TypeOK, TicketSet
<1>1. issued' = issued \/ issued' = issued + 1
  BY TicketMoves
<1>2. r \in KnownRoots'
  BY <1>0, <1>1, Constants DEF KnownRoots
<1>3. r # issued + 1 \/ ~(issued < MaxFull)
  BY <1>0, Constants DEF KnownRoots
<1>4. Fits(r, u, ticket'.root, ticket'.successes)
  BY <1>0, <1>3, TicketMoves DEF Fits
<1> QED BY <1>2, <1>4

(* The counts of the file and of the ticket in memory. *)
CountOf(t) == t.root \in KnownRoots /\ NotAhead(t, 0)
LEMMA EmptyCounts ==
  ASSUME TypeOK PROVE NoStore.root = 0 /\ NoStore.uses = 0 /\ CountOf(NoStore)
<1>1. NoStore.root = 0 /\ NoStore.uses = 0
  BY DEF NoStore
<1>2. 0 \in KnownRoots
  BY Constants DEF TypeOK, KnownRoots
<1> QED BY <1>1, <1>2 DEF CountOf, NotAhead

LEMMA CountsCarry ==
  ASSUME TypeOK, TypeOK', [Next]_vars, NEW t \in StoreSet, CountOf(t), NEW n \in {0, 1},
         NotAhead(t, n)
  PROVE  /\ t.root \in KnownRoots' /\ (t.root # 0 /\ t.root = ticket'.root => t.uses <= ticket'.successes)
         /\ (t.root # 0 /\ t.root = ticket'.root => t.uses + n <= ticket'.successes)
<1>1. t.root \in KnownRoots /\ t.uses \in Nat /\ t.uses + n \in Nat /\ t.uses + 0 = t.uses
  BY Constants DEF CountOf, StoreSet
<1>2. Fits(t.root, t.uses, ticket.root, ticket.successes)
  BY <1>1 DEF CountOf, NotAhead, Fits
<1>3. Fits(t.root, t.uses + n, ticket.root, ticket.successes)
  BY DEF NotAhead, Fits
<1>4. t.root \in KnownRoots' /\ Fits(t.root, t.uses, ticket'.root, ticket'.successes)
  BY <1>1, <1>2, CountKept
<1>5. Fits(t.root, t.uses + n, ticket'.root, ticket'.successes)
  BY <1>1, <1>3, CountKept
<1> QED BY <1>4, <1>5 DEF Fits
(* The file and the ticket in memory are copied, emptied or aged; only the *)
(* end of a handshake does more.                                           *)
Copies(s) == \E t \in {NoStore, store, central.tk} : s.root = t.root /\ s.uses = t.uses
LEMMA CopyCounts ==
  ASSUME TypeOK, TypeOK', SysTypeOK, [Next]_vars, CountInv, NEW s, Copies(s)
  PROVE  s.root \in KnownRoots' /\ (s.root # 0 /\ s.root = ticket'.root => s.uses + 0 <= ticket'.successes)
<1>1. PICK t \in {NoStore, store, central.tk} : s.root = t.root /\ s.uses = t.uses
  BY DEF Copies
<1>2. t \in StoreSet
  BY EmptyTyped DEF SysTypeOK, RunSet
<1>3. CountOf(t)
  BY EmptyCounts DEF CountInv, CountOf
<1>4. s.uses + 0 = s.uses
  BY <1>1, <1>2, Constants DEF StoreSet
<1> QED BY <1>1, <1>2, <1>3, <1>4, CountsCarry DEF CountOf

LEMMA StoreMoves ==
  ASSUME TypeOK, KeyInv, CoreInv, [SysNext]_sysVars
  PROVE  /\ Copies(store')
         /\ CFinished \/ CFullFinished \/ Copies(central'.tk)
<1>0. SysTypeOK /\ RunInv
  BY DEF CoreInv
<1>a. Copies(store) /\ Copies(central.tk) /\ Copies(NoStore)
  BY DEF Copies
<1>b. ASSUME SameRun PROVE Copies(central'.tk)
  BY <1>b DEF Copies, SameRun
<1>1. CASE Quits \/ (CPong /\ ~Asks)
  <2>1. HungUp
    BY <1>0, <1>1, QuitsHangUp, PongMoves
  <2> QED BY <1>a, <2>1 DEF HungUp
<1>2. CASE CBegin \/ CAccepted \/ CRejected \/ (CSave /\ ~Expired(central.tk)) \/ (CPong /\ Asks)
  <2>1. CASE CBegin
    BY <1>0, <1>a, <2>1, BeginAsks
  <2>2. CASE CAccepted \/ CRejected
    BY <1>0, <1>a, <2>2, AcceptedAsks, RejectedAsks
  <2>3. CASE CSave /\ ~Expired(central.tk)
    BY <1>0, <1>a, <2>3, SaveAsks
  <2>4. CASE CPong /\ Asks
    BY <1>0, <1>a, <2>4, PongMoves DEF HungUp
  <2> QED BY <1>2, <2>1, <2>2, <2>3, <2>4
<1>3. CASE (CWritten /\ att = "ok") \/ CFinished \/ CFullFinished
  <2>1. CASE CWritten /\ att = "ok"
    BY <1>0, <1>a, <2>1, WrittenReads DEF SameFrame
  <2>2. CASE CFinished \/ CFullFinished
    BY <1>0, <1>a, <2>2, FinishedSaves, FullSaves DEF Saves
  <2> QED BY <1>3, <2>1, <2>2
<1>4. CASE CStart \/ CConnect \/ CEncrypt \/ CPaired
  <2>1. CASE CStart
    BY <1>0, <1>a, <2>1, StartFields
  <2>2. CASE CConnect \/ CEncrypt \/ CPaired
    BY <1>0, <1>a, <2>2, SecureFields DEF Secures, SameFrame
  <2> QED BY <1>4, <2>1, <2>2
<1>5. CASE PInitTaken \/ PInitRejected \/ PFinishAnswered \/ PFinishRejected \/ PApp
  BY <1>a, <1>5 DEF PInitTaken, PInitRejected, PFinishAnswered, PFinishRejected, PApp
<1>6. CASE PCommit \/ PAppDenied \/ PNotReady
  <2>1. CASE PCommit
    BY <1>0, <1>a, <1>b, <2>1, CommitFields
  <2>2. CASE PAppDenied \/ PNotReady
    BY <1>a, <2>2 DEF PAppDenied, PNotReady
  <2> QED BY <1>6, <2>1, <2>2
<1>7. CASE PFullStart \/ PFullIssued \/ PFullRefused
  BY <1>a, <1>b, <1>7, FullAnswers DEF PFullStart
<1>8. CASE PDisconnected \/ LinkLost \/ PTerminate \/ PeripheralReboot
  BY <1>0, <1>a, <1>b, <1>8, DropSteps DEF PDisconnected, Drops
<1>9. CASE PBondChanged \/ PExpire \/ SysTick \/ OperatorClearsBonds \/ OperatorUnpairs
           \/ UNCHANGED sysVars
  <2>1. Copies(central'.tk)
    BY <1>0, <1>b, <1>9, CalmSteps DEF Calm
  <2>2. CASE SysTick
    BY <1>0, <2>1, <2>2, TickFields DEF Copies
  <2>3. CASE ~SysTick
    BY <1>a, <1>9, <2>1, <2>3 DEF PBondChanged, PExpire, OperatorClearsBonds, OperatorUnpairs, sysVars
  <2> QED BY <2>2, <2>3
<1> QED BY <1>1, <1>2, <1>3, <1>4, <1>5, <1>6, <1>7, <1>8, <1>9
        DEF SysNext, CentralStep, PeripheralStep, Disturbance, Quits

(* A FINISHED_P carries a root that was issued, or the orphan. *)
RootKnown == nq # <<>> /\ Head(nq).type = "FINISHED_P" => Head(nq).root \in KnownRoots
LEMMA RootStep ==
  ASSUME TypeOK, TypeOK', KeyInv, CoreInv, CountInv, [Next]_vars, [SysNext]_sysVars
  PROVE  RootKnown'
<1>0. SysTypeOK /\ RunInv /\ RootKnown
  BY DEF CoreInv, CountInv, RootKnown
<1>1. KnownRoots \subseteq KnownRoots' /\ Orphan \in KnownRoots' /\ issued' \in KnownRoots'
  <2>1. issued \in Nat /\ issued' \in Nat /\ (issued' = issued \/ issued' = issued + 1)
    BY TicketMoves, Constants DEF TypeOK
  <2> QED BY <2>1 DEF KnownRoots
<1>2. ASSUME nq' \in {nq, <<>>} PROVE RootKnown'
  BY <1>0, <1>1, <1>2 DEF RootKnown
<1>3. CASE PFullIssued \/ PFullRefused
  <2>1. PICK m : nq' = <<m>> /\ m.root \in {issued', Orphan}
    BY <1>3, FullAnswers
  <2> QED BY <1>1, <2>1, Singleton DEF RootKnown
<1>4. CASE PInitTaken \/ PInitRejected \/ PFinishAnswered \/ PFinishRejected \/ PApp
  <2>1. PICK m : nq' = <<m>> /\ m.type # "FINISHED_P"
    <3>1. CASE PInitTaken \/ PInitRejected
      BY <1>0, <3>1, InitAnswers DEF Answers
    <3>2. CASE PFinishAnswered \/ PFinishRejected
      BY <1>0, <3>2, FinishAnswers DEF Answers
    <3>3. CASE PApp
      BY <1>0, <3>3, AppAnswers DEF Answers, CoreInv
    <3> QED BY <1>4, <3>1, <3>2, <3>3
  <2> QED BY <2>1, Singleton DEF RootKnown
<1>5. CASE ~(\/ PFullIssued \/ PFullRefused \/ PInitTaken \/ PInitRejected
             \/ PFinishAnswered \/ PFinishRejected \/ PApp)
  <2>1. CASE Quits \/ (CPong /\ ~Asks)
    BY <1>0, <1>2, <2>1, QuitsHangUp, PongMoves DEF HungUp
  <2>2. CASE CBegin \/ CAccepted \/ CRejected \/ (CSave /\ ~Expired(central.tk)) \/ (CPong /\ Asks)
    BY <1>0, <1>2, <2>2, BeginAsks, AcceptedAsks, RejectedAsks, SaveAsks DEF Asks
  <2>3. CASE (CWritten /\ att = "ok") \/ CFinished \/ CFullFinished
    BY <1>0, <1>2, <2>3, WrittenReads, FinishedSaves, FullSaves DEF Saves
  <2>4. CASE CStart \/ CConnect \/ CEncrypt \/ CPaired
    BY <1>0, <1>2, <2>4, SecureFields DEF Secures, CStart, bleVars
  <2>6. CASE PCommit \/ PAppDenied \/ PNotReady \/ PFullStart
    BY <1>2, <2>6 DEF PCommit, PAppDenied, PNotReady, PFullStart
  <2>8. CASE PDisconnected \/ LinkLost \/ PTerminate \/ PeripheralReboot
    BY <1>0, <1>2, <2>8, DropSteps DEF PDisconnected, Drops, bleVars
  <2>9. CASE PBondChanged \/ PExpire \/ SysTick \/ OperatorClearsBonds \/ OperatorUnpairs
             \/ UNCHANGED sysVars
    BY <1>0, <1>2, <2>9, CalmSteps DEF Calm
  <2> QED BY <1>5, <2>1, <2>2, <2>3, <2>4, <2>6, <2>8, <2>9
          DEF SysNext, CentralStep, PeripheralStep, Disturbance, Quits
<1> QED BY <1>3, <1>4, <1>5
(* A confirmed FINISH_C was counted.  The response that confirms it is the *)
(* commit's; every other step keeps it confirmed or leaves the state.      *)
Counts == /\ Waiting /\ central.step = "FINISH_C" /\ nq # <<>> /\ Head(nq).type = "FINISH_P"
          /\ link /\ (central.pc = "read" \/ att = "ok")
LEMMA CountedOnce ==
  ASSUME TypeOK, CommitAllowed, Commit, NEW t \in StoreSet, NotAhead(t, 0)
  PROVE  t.root # 0 /\ t.root = ticket'.root => t.uses + 1 <= ticket'.successes
<1>1. ticket' = Counted(ticket) /\ ticket \in TicketSet /\ ticket.successes \in Nat /\ t.uses \in Nat
  BY Constants DEF Commit, TypeOK, TicketSet, StoreSet
<1>2. CASE ticket.successes + 1 >= MAX_USES
  BY <1>1, <1>2 DEF Counted, NoTicket
<1>3. CASE ~(ticket.successes + 1 >= MAX_USES)
  <2>1. ticket' = [ticket EXCEPT !.successes = ticket.successes + 1]
    BY <1>1, <1>3 DEF Counted, TicketSet
  <2>2. ticket'.root = ticket.root /\ ticket'.successes = ticket.successes + 1
    BY <1>1, <2>1 DEF TicketSet
  <2> QED BY <1>1, <2>2 DEF NotAhead
<1> QED BY <1>2, <1>3

LEMMA UseMoves ==
  ASSUME TypeOK, KeyInv, CoreInv, [SysNext]_sysVars, Counts', ~PCommit
  PROVE  Counts /\ central'.tk.root = central.tk.root /\ central'.tk.uses = central.tk.uses
<1>0. SysTypeOK /\ RunInv /\ AnswerInv /\ StepInv /\ att \in {"none", "ok", "err"}
  BY DEF CoreInv, SysTypeOK
<1>p. /\ central'.pc \in {"write", "read"} /\ central'.step = "FINISH_C" /\ nq' # <<>>
      /\ Head(nq').type = "FINISH_P" /\ link' /\ (central'.pc = "read" \/ att' = "ok")
  BY DEF Counts, Waiting
<1>1. CASE Quits \/ (CPong /\ ~Asks)
  BY <1>0, <1>p, <1>1, QuitsHangUp, PongMoves DEF HungUp
<1>2. CASE CBegin \/ CAccepted \/ CRejected \/ (CSave /\ ~Expired(central.tk)) \/ (CPong /\ Asks)
  BY <1>0, <1>p, <1>2, BeginAsks, AcceptedAsks, RejectedAsks, SaveAsks DEF Asks
<1>3. CASE (CWritten /\ att = "ok") \/ CFinished \/ CFullFinished
  <2>1. CASE CWritten /\ att = "ok"
    BY <1>0, <1>p, <2>1, WrittenReads DEF SameFrame, Counts, Waiting
  <2>2. CASE CFinished \/ CFullFinished
    BY <1>0, <1>p, <2>2, FinishedSaves, FullSaves DEF Saves
  <2> QED BY <1>3, <2>1, <2>2
<1>4. CASE CStart \/ CConnect \/ CEncrypt \/ CPaired
  BY <1>0, <1>p, <1>4, StartFields, SecureFields
<1>5. CASE PInitTaken \/ PInitRejected \/ PFinishAnswered \/ PFinishRejected \/ PApp
  <2>1. CASE PInitTaken \/ PInitRejected
    <3>1. central.step = "INIT" /\ central' = central
      BY <1>0, <2>1, InitAnswers DEF Answers
    <3> QED BY <1>p, <3>1
  <2>2. CASE PFinishAnswered \/ PFinishRejected
    <3>1. PICK m : Answers(m) /\ (m.type = "REJECT" \/ att' = "none")
      BY <1>0, <2>2, FinishAnswers
    <3>2. Head(nq') = m /\ central'.pc = "write"
      BY <3>1, Singleton DEF Answers
    <3> QED BY <1>p, <3>1, <3>2
  <2>3. CASE PApp
    <3>1. central.step = "APP" /\ central' = central
      BY <1>0, <2>3, AppAnswers DEF Answers, CoreInv
    <3> QED BY <1>p, <3>1
  <2> QED BY <1>5, <2>1, <2>2, <2>3
<1>6. CASE PAppDenied \/ PNotReady
  <2>1. write.type # "NONE" /\ att' = "err" /\ UNCHANGED <<central, nq, link>>
    BY <1>6 DEF PAppDenied, PNotReady, Arrived, Respond
  <2> QED BY <1>0, <1>p, <2>1 DEF RunInv
<1>7. CASE PFullStart \/ PFullIssued \/ PFullRefused
  <2>1. CASE PFullStart
    BY <1>p, <2>1, FullTaken
  <2>2. CASE PFullIssued \/ PFullRefused
    BY <1>p, <2>2, FullAnswers DEF SameRun
  <2> QED BY <1>7, <2>1, <2>2
<1>8. CASE PDisconnected \/ LinkLost \/ PTerminate \/ PeripheralReboot
  BY <1>0, <1>p, <1>8, DropSteps DEF PDisconnected, Drops, bleVars
<1>9. CASE PBondChanged \/ PExpire \/ SysTick \/ OperatorClearsBonds \/ OperatorUnpairs
           \/ UNCHANGED sysVars
  BY <1>0, <1>p, <1>9, CalmSteps DEF Calm, SameRun, Counts, Waiting
<1> QED BY <1>1, <1>2, <1>3, <1>4, <1>5, <1>6, <1>7, <1>8, <1>9
        DEF SysNext, CentralStep, PeripheralStep, Disturbance, Quits

LEMMA CountStep ==
  ASSUME TypeOK, TypeOK', KeyInv, CoreInv, CoreInv', CountInv, [Next]_vars, [SysNext]_sysVars
  PROVE  CountInv'
<1>0. SysTypeOK /\ RunInv /\ StepInv /\ central.tk \in StoreSet /\ central'.tk \in StoreSet
  BY DEF CoreInv, SysTypeOK, RunSet
<1>1. store'.root \in KnownRoots' /\ NotAhead(store, 0)'
  BY <1>0, StoreMoves, CopyCounts DEF NotAhead
<1>2. central'.tk.root \in KnownRoots' /\ NotAhead(central.tk, 0)'
  <2>1. CASE Copies(central'.tk)
    BY <1>0, <2>1, CopyCounts DEF NotAhead
  <2>2. CASE CFinished
    <3>1. /\ central'.tk = Used(central.tk) /\ ticket' = ticket /\ issued' = issued
          /\ Waiting /\ central.pc = "read" /\ central.step = "FINISH_C" /\ nq # <<>>
          /\ Head(nq).type = "FINISH_P" /\ link
      BY <1>0, <2>2, FinishedSaves DEF Saves, vars, coreVars, Waiting
    <3>2. NotAhead(central.tk, 1) /\ central.tk.root \in KnownRoots
      BY <3>1 DEF CountInv
    <3>3. /\ central'.tk.root \in {0, central.tk.root} /\ central'.tk.uses \in Nat
          /\ (central'.tk.root # 0 => central'.tk.uses = central.tk.uses + 1)
      <4>1. central'.tk.uses \in Nat
        BY <1>0, Constants DEF StoreSet
      <4> QED BY <1>0, <3>1, <4>1, UsedTyped
    <3>4. 0 \in KnownRoots /\ KnownRoots' = KnownRoots
      BY <3>1, EmptyCounts DEF CountOf, KnownRoots
    <3>5. NotAhead(central.tk, 0)'
      BY <3>1, <3>2, <3>3 DEF NotAhead
    <3> QED BY <3>2, <3>3, <3>4, <3>5
  <2>3. CASE CFullFinished
    <3>1. /\ central'.tk.root = Head(nq).root /\ central'.tk.uses = 0 /\ nq # <<>>
          /\ Head(nq).type = "FINISHED_P" /\ issued' = issued
      BY <1>0, <2>3, FullSaves DEF Saves, vars, coreVars
    <3>2. central'.tk.root \in KnownRoots'
      BY <3>1 DEF CountInv, KnownRoots
    <3>3. ticket'.successes \in Nat
      BY DEF TypeOK, TicketSet
    <3> QED BY <3>1, <3>2, <3>3 DEF NotAhead
  <2> QED BY <2>1, <2>2, <2>3, StoreMoves
<1>3. RootKnown'
  BY RootStep
<1>4. ASSUME Counts' PROVE NotAhead(central.tk, 1)'
  <2>1. CASE PCommit
    <3>1. /\ SameRun /\ pc = "commit" /\ att' \in {"ok", "err"} /\ (att' = "ok" => CommitAllowed)
      BY <1>0, <2>1, CommitFields
    <3>2. CommitAllowed
      BY <1>0, <1>4, <3>1 DEF Counts, RunInv, SameRun
    <3>3. NotAhead(central.tk, 0)
      BY DEF CountInv
    <3> QED BY <1>0, <2>1, <3>1, <3>2, <3>3, CountedOnce DEF PCommit, NotAhead, SameRun
  <2>2. CASE ~PCommit
    <3>1. Counts /\ central'.tk.root = central.tk.root /\ central'.tk.uses = central.tk.uses
      BY <1>4, <2>2, UseMoves
    <3>2. NotAhead(central.tk, 1) /\ CountOf(central.tk)
      BY <3>1 DEF CountInv, Counts, CountOf
    <3> QED BY <1>0, <3>1, <3>2, CountsCarry DEF NotAhead
  <2> QED BY <2>1, <2>2
<1> QED BY <1>1, <1>2, <1>3, <1>4 DEF CountInv, RootKnown, Counts
-----------------------------------------------------------------------------
(* Clean runs.  Once the first request is taken, no bond callback is due.  *)
LEMMA CleanSettled ==
  ASSUME RunInv, CleanInv, central.clean, central.pc \notin {"off", "load"},
         central.pc # "write" \/ write.type = "NONE"
  PROVE  Undisturbed /\ ~bondNotice
  BY DEF RunInv, CleanInv, Undisturbed

(* An attempt that ends before its time is not clean any more, or is the   *)
(* first one of a run that falls back.                                     *)
LEMMA QuitsUnclean ==
  ASSUME TypeOK, CoreInv, CleanInv, Quits, central'.clean
  PROVE  central'.pc = "connect" /\ central.clean /\ Undisturbed /\ ~bondNotice
<1>0. SysTypeOK /\ RunInv /\ AnswerInv /\ LinkInv /\ StepInv /\ central.clean \in BOOLEAN
  BY DEF CoreInv, SysTypeOK, RunSet
<1>a. central.pc # "off"
  BY <1>0, QuitsHangUp
<1>1. CASE CStaleBond \/ CLinkGone \/ CLinkGoneEarly \/ (CWritten /\ att # "ok")
  <2>1. FinishAs("failed", central.clean)
    BY <1>1 DEF CStaleBond, CLinkGone, CLinkGoneEarly, CWritten, Finish
  <2>2. central.clean
    BY <1>0, <2>1, FinishFields
  <2>3. Undisturbed
    BY <1>a, <2>2 DEF CleanInv
  <2>4. CASE CStaleBond
    BY <1>0, <2>3, <2>4 DEF CStaleBond, HasBond, LinkInv, Undisturbed
  <2>5. CASE CLinkGone \/ CLinkGoneEarly
    BY <2>3, <2>5 DEF CLinkGone, CLinkGoneEarly, Undisturbed
  <2>6. CASE CWritten /\ att # "ok"
    <3>1. central.pc = "write" /\ (att # "none" \/ ~link)
      BY <2>6 DEF CWritten
    <3>2. link /\ att # "err"
      BY <2>3, <3>1 DEF Undisturbed, Waiting
    <3> QED BY <1>0, <2>6, <3>1, <3>2 DEF SysTypeOK
  <2> QED BY <1>1, <2>4, <2>5, <2>6
<1>2. CASE CTimeout \/ CUnexpected \/ (CSave /\ Expired(central.tk))
  <2>1. FallbackAs(central.clean) /\ central.pc \in {"read", "save"}
    BY <1>2 DEF CTimeout, CUnexpected, CSave, Fallback, Received
  <2>2. central.clean /\ (~central.fell => central'.pc = "connect")
    BY <1>0, <2>1, FallbackFields
  <2>3. Undisturbed /\ ~bondNotice /\ link
    <3>1. Undisturbed /\ ~bondNotice
      BY <1>0, <2>1, <2>2, CleanSettled
    <3> QED BY <2>1, <3>1 DEF Undisturbed
  <2>4. write.type = "NONE"
    BY <1>0, <2>1 DEF RunInv
  <2>5. central.step \in {"INIT", "FINISH_C"}
    <3>1. CASE CTimeout
      <4>1. central.pc = "read" /\ nq = <<>> /\ cp3 # "BUSY" /\ Waiting
        BY <2>3, <3>1 DEF CTimeout, Silent, Waiting
      <4>2. central.step \in {"INIT", "FINISH_C", "FULL", "APP"}
        BY <1>0, <4>1 DEF RunInv, SysTypeOK, RunSet
      <4>3. att # "err"
        BY <2>3, <4>1 DEF Undisturbed
      <4>4. central.step # "FULL"
        BY <1>0, <2>3, <2>4, <4>1 DEF StepInv, FullStep
      <4>5. central.step # "APP"
        BY <1>0, <2>3, <2>4, <4>1, <4>3 DEF StepInv, AppStep
      <4> QED BY <4>2, <4>4, <4>5
    <3>2. CASE CUnexpected
      BY <3>2 DEF CUnexpected, Received
    <3>3. CASE CSave /\ Expired(central.tk)
      <4>1. central.pc = "save" /\ central.tk.age >= TTL
        BY <3>3 DEF CSave, Expired
      <4>2. central.elapsed \in 0 .. RunTicks /\ central.tk.age \in 0 .. TTL
        BY <1>0 DEF SysTypeOK, RunSet, StoreSet
      <4>3. ~(central.tk.age <= central.elapsed)
        BY <4>1, <4>2, Constants
      <4> QED BY <1>0, <4>1, <4>3 DEF RunInv
    <3> QED BY <1>2, <3>1, <3>2, <3>3
  <2>6. ~central.fell
    BY <1>0, <2>5 DEF RunInv
  <2> QED BY <2>2, <2>3, <2>6
<1>3. CASE SlowPeer
  <2>1. FallbackAs(FALSE)
    BY <1>3 DEF SlowPeer
  <2> QED BY <1>0, <2>1, FallbackFields
<1>4. CASE CentralCrash
  BY <1>4 DEF CentralCrash, NoRun
<1> QED BY <1>1, <1>2, <1>3, <1>4 DEF Quits

LEMMA CleanQuits ==
  ASSUME TypeOK, CoreInv, CleanInv, Quits PROVE CleanInv'
<1>1. HungUp
  BY QuitsHangUp DEF CoreInv
<1>2. CASE ~central'.clean
  BY <1>2 DEF CleanInv, CleanRunSucceeds
<1>3. CASE central'.clean
  <2>1. central'.pc = "connect" /\ Undisturbed /\ ~bondNotice
    BY <1>3, QuitsUnclean
  <2>2. Undisturbed'
    BY <1>1, <2>1 DEF Undisturbed, HungUp, Confirmed, Waiting, vars, coreVars
  <2> QED BY <2>1, <2>2 DEF CleanInv
<1> QED BY <1>2, <1>3

(* A clean run sends its requests ... *)
LEMMA CleanAsks ==
  ASSUME CoreInv, CleanInv, Asks, central.pc \in {"load", "read", "save"},
         bondNotice /\ central.clean => central.cold /\ write'.type = "FULL",
         write'.type = "APP" => Confirmed
  PROVE  CleanInv'
<1>1. CASE ~central.clean
  BY <1>1 DEF CleanInv, Asks, Kept
<1>2. CASE central.clean
  <2>1. Undisturbed
    BY <1>2 DEF CleanInv
  <2>2. link
    BY <2>1 DEF Undisturbed
  <2>3. Undisturbed'
    BY <1>2, <2>1, <2>2 DEF Undisturbed, Asks, Kept, Confirmed, Waiting, vars, coreVars
  <2> QED BY <2>3 DEF CleanInv, Asks
<1> QED BY <1>1, <1>2
LEMMA CleanCentralAsks ==
  ASSUME TypeOK, CoreInv, CleanInv,
         \/ CBegin \/ CAccepted \/ CRejected \/ (CSave /\ ~Expired(central.tk))
         \/ CPong /\ Asks
  PROVE  CleanInv'
<1>0. SysTypeOK /\ RunInv
  BY DEF CoreInv
<1>a. central.pc \in {"read", "save"} /\ central.clean => ~bondNotice
  BY <1>0, CleanSettled
<1>1. CASE CBegin
  <2>1. /\ Asks /\ central.pc = "load"
        /\ (write'.type = "FULL" \/ (write'.type = "INIT" /\ ~central.cold))
    BY <1>0, <1>1, BeginAsks
  <2>2. bondNotice /\ central.clean => central.cold /\ write'.type = "FULL"
    BY <2>1 DEF CleanInv, Undisturbed
  <2> QED BY <2>1, <2>2, CleanAsks
<1>2. CASE CAccepted \/ CRejected
  BY <1>0, <1>a, <1>2, AcceptedAsks, RejectedAsks, CleanAsks
<1>3. CASE CSave /\ ~Expired(central.tk)
  <2>1. Asks /\ central.pc = "save"
    BY <1>0, <1>3, SaveAsks
  <2> QED BY <1>a, <2>1, CleanAsks DEF Confirmed
<1>4. CASE CPong /\ Asks
  <2>1. Asks /\ central.pc = "read" /\ central.step = "APP"
    BY <1>0, <1>4, PongMoves
  <2> QED BY <1>a, <2>1, CleanAsks DEF Confirmed
<1> QED BY <1>1, <1>2, <1>3, <1>4

(* ... receives the answer to its last PING ... *)
LEMMA CleanEnds ==
  ASSUME TypeOK, CoreInv, CPong, ~Asks PROVE CleanInv'
<1>0. SysTypeOK /\ RunInv /\ AnswerInv /\ StepInv
  BY DEF CoreInv
<1>1. /\ central.pc = "read" /\ central.step = "APP" /\ link /\ nq # <<>>
      /\ central'.pc = "off" /\ (PongFits => central'.result = "ok")
  BY <1>0, PongMoves
<1>2. write.type = "NONE"
  BY <1>0, <1>1 DEF RunInv
<1>3. PongFits
  BY <1>0, <1>1, <1>2 DEF StepInv, AppStep, AnswerInv, PongFits, Waiting
<1> QED BY <1>1, <1>3 DEF CleanInv, CleanRunSucceeds

(* ... reads, and keeps what it read ... *)
LEMMA CleanReads ==
  ASSUME TypeOK, CoreInv, CleanInv, (CWritten /\ att = "ok") \/ CFinished \/ CFullFinished
  PROVE  CleanInv'
<1>0. SysTypeOK /\ RunInv
  BY DEF CoreInv
<1>1. CASE CWritten /\ att = "ok"
  <2>1. /\ Kept /\ att' = "none" /\ central.pc = "write" /\ central'.pc = "read"
        /\ central'.step = central.step
        /\ UNCHANGED <<vars, paired, link, write, nq, cp3>>
    BY <1>0, <1>1, WrittenReads
  <2>2. CASE ~central.clean
    BY <2>1, <2>2 DEF CleanInv, Kept
  <2>3. CASE central.clean
    <3>1. write.type = "NONE"
      BY <1>0, <1>1 DEF RunInv
    <3>2. Undisturbed /\ ~bondNotice
      BY <1>0, <2>1, <2>3, <3>1, CleanSettled
    <3>3. Undisturbed'
      BY <2>1, <3>2 DEF Undisturbed, Confirmed, Waiting, vars, coreVars
    <3> QED BY <2>1, <3>3 DEF CleanInv
  <2> QED BY <2>2, <2>3
<1>2. CASE CFinished \/ CFullFinished
  <2>1. /\ Saves
        /\ \/ central.step = "FINISH_C" /\ Head(nq).type = "FINISH_P"
           \/ central.step = "FULL"
    BY <1>0, <1>2, FinishedSaves, FullSaves
  <2>2. CASE ~central.clean
    BY <2>1, <2>2 DEF CleanInv, Kept, Saves
  <2>3. CASE central.clean
    <3>1. Undisturbed /\ ~bondNotice
      BY <1>0, <2>1, <2>3, CleanSettled DEF Saves
    <3>2. pc = "free"
      BY <1>0, <2>1 DEF RunInv, Saves, TypeOK
    <3>3. session.state = "SECURE" /\ link
      BY <2>1, <3>1, <3>2 DEF Undisturbed, Confirmed, Saves
    <3>4. Undisturbed'
      BY <2>1, <3>1, <3>3 DEF Undisturbed, Waiting, Saves, vars, coreVars
    <3> QED BY <2>1, <3>4 DEF CleanInv, Saves
  <2> QED BY <2>2, <2>3
<1> QED BY <1>1, <1>2

(* ... and starts. *)
LEMMA CleanStarts ==
  ASSUME TypeOK, CoreInv, CoreInv', CleanInv, CStart \/ CConnect \/ CEncrypt \/ CPaired
  PROVE  CleanInv'
<1>0. SysTypeOK /\ RunInv /\ LinkInv /\ RunInv' /\ StepInv'
  BY DEF CoreInv
<1>1. CASE CStart
  <2>1. /\ central.pc = "off" /\ central'.pc = "connect" /\ central'.step = "NONE"
        /\ central'.clean = ((paired => Self \in bonds) /\ ~bondNotice)
        /\ UNCHANGED <<vars, paired, bleVars>>
    BY <1>0, <1>1, StartFields
  <2>2. ~link
    BY <1>0, <2>1 DEF RunInv
  <2>3. central'.clean => Undisturbed'
    BY <2>1, <2>2 DEF Undisturbed, Confirmed, Waiting, vars, coreVars, bleVars
  <2> QED BY <2>1, <2>3 DEF CleanInv
<1>2. CASE CConnect \/ CEncrypt \/ CPaired
  <2>1. /\ Secures /\ link' = TRUE /\ central.pc \in {"connect", "secure", "pair"}
        /\ central'.pc \in {"secure", "pair", "load"}
    BY <1>0, <1>2, SecureFields
  <2>2. CASE ~central.clean
    BY <2>1, <2>2 DEF CleanInv, Secures
  <2>3. CASE central.clean
    <3>1. Undisturbed /\ ~bondNotice
      BY <1>0, <2>1, <2>3, CleanSettled
    <3>2. central'.step = "NONE" /\ cp3' = "IDLE" /\ ~Waiting'
      BY <1>0, <2>1 DEF RunInv, StepInv, Starting, Waiting
    <3>3. ~Confirmed'
      BY <2>1, <3>2 DEF Confirmed
    <3>4. paired' => Self \in bonds'
      <4>1. CASE CConnect \/ CEncrypt
        BY <3>1, <4>1 DEF CConnect, CEncrypt, Connected, SecurityChanged, Undisturbed
      <4>2. CASE CPaired
        BY <1>0, <4>2 DEF CPaired, BondStored, LinkInv
      <4> QED BY <1>2, <4>1, <4>2
    <3>5. bondNotice' => central'.cold /\ central'.pc = "load"
      <4>1. CASE CConnect \/ CEncrypt
        BY <3>1, <4>1 DEF CConnect, CEncrypt, Connected, SecurityChanged
      <4>2. CASE CPaired
        <5>1. central.pc = "pair" /\ central' = [central EXCEPT !.pc = "load"]
          BY <4>2 DEF CPaired, Goto
        <5> QED BY <1>0, <5>1 DEF RunInv, SysTypeOK, RunSet
      <4> QED BY <1>2, <4>1, <4>2
    <3>6. Undisturbed'
      BY <2>1, <3>2, <3>3, <3>4, <3>5 DEF Undisturbed
    <3> QED BY <2>1, <3>6 DEF CleanInv
  <2> QED BY <2>2, <2>3
<1> QED BY <1>1, <1>2
(* The Peripheral answers a clean run ... *)
LEMMA CleanAnswers ==
  ASSUME TypeOK, CoreInv, CleanInv,
         PInitTaken \/ PInitRejected \/ PFinishAnswered \/ PFinishRejected \/ PApp
  PROVE  CleanInv'
<1>0. SysTypeOK /\ RunInv /\ LinkInv /\ StepInv
  BY DEF CoreInv
<1>1. PICK m :
      /\ Answers(m) /\ att' \in {"none", "ok"} /\ central.step \in {"INIT", "FINISH_C", "APP"}
      /\ central.step = "FINISH_C" => m.type = "REJECT" \/ pc' = "commit"
      /\ central.step = "APP" => session'.state = "SECURE"
  <2>1. CASE PInitTaken \/ PInitRejected
    BY <1>0, <2>1, InitAnswers DEF Answers
  <2>2. CASE PFinishAnswered \/ PFinishRejected
    BY <1>0, <2>2, FinishAnswers DEF Answers
  <2>3. CASE PApp
    BY <1>0, <2>3, AppAnswers DEF Answers
  <2> QED BY <2>1, <2>2, <2>3
<1>2. /\ Head(nq') = m /\ central.pc = "write" /\ link
      /\ UNCHANGED <<paired, central, link, cp3, bonds, bondNotice>>
  BY <1>1, Singleton DEF Answers
<1>3. ~(bondNotice /\ central.cold)
  BY DEF PInitTaken, PInitRejected, PFinishAnswered, PFinishRejected, PApp, Arrived
<1>4. central.clean => Undisturbed
  BY <1>2 DEF CleanInv
<1>5. Confirmed' => session'.state = "SECURE"
  BY <1>1, <1>2 DEF Confirmed
<1>6. central.clean => Undisturbed'
  BY <1>1, <1>2, <1>3, <1>4, <1>5 DEF Undisturbed
<1> QED BY <1>2, <1>6 DEF CleanInv

(* ... commits, and has no reason to deny a request ... *)
LEMMA CleanCommit ==
  ASSUME TypeOK, CoreInv, CleanInv, PCommit PROVE CleanInv'
<1>0. SysTypeOK /\ RunInv
  BY DEF CoreInv
<1>1. /\ SameRun /\ pc = "commit" /\ att' \in {"ok", "err"} /\ (central'.clean => CommitAllowed)
      /\ UNCHANGED <<paired, link, write, nq, cp3, bonds, bondNotice>>
      /\ (CommitAllowed => session'.state = "SECURE")
  BY <1>0, CommitFields
<1>2. CASE central.pc = "off"
  BY <1>1, <1>2 DEF CleanInv, CleanRunSucceeds, SameRun
<1>3. CASE central.pc # "off" /\ central'.clean
  <2>1. central.clean /\ CommitAllowed /\ att' = "ok"
    BY <1>1, <1>3 DEF SameRun, PCommit
  <2>2. write.type = "NONE" /\ central.pc # "load"
    BY <1>0, <1>1 DEF RunInv
  <2>3. Undisturbed /\ ~bondNotice
    BY <1>0, <1>3, <2>1, <2>2, CleanSettled
  <2>4. Undisturbed'
    BY <1>1, <2>1, <2>3 DEF Undisturbed, SameRun
  <2> QED BY <1>1, <1>3, <2>4 DEF CleanInv, SameRun
<1>4. CASE central.pc # "off" /\ ~central'.clean
  BY <1>1, <1>4 DEF CleanInv, SameRun
<1> QED BY <1>2, <1>3, <1>4

LEMMA CleanDenied ==
  ASSUME TypeOK, CoreInv, CleanInv, PAppDenied \/ PNotReady PROVE CleanInv'
<1>0. SysTypeOK /\ RunInv /\ StepInv
  BY DEF CoreInv
<1>1. write.type \in {"INIT", "FINISH_C", "APP"} /\ link /\ central' = central
  BY DEF PAppDenied, PNotReady, Arrived
<1>2. central.pc = "write" /\ central.step = write.type
  BY <1>0, <1>1 DEF RunInv
<1>3. ASSUME central.clean PROVE FALSE
  <2>1. Undisturbed
    BY <1>2, <1>3 DEF CleanInv
  <2>2. CASE PAppDenied
    <3>1. write.type = "APP" /\ ~AppGenuine(write.key, write.seq)
      BY <2>2 DEF PAppDenied, Arrived
    <3>2. session.state = "SECURE"
      BY <1>2, <2>1, <3>1 DEF Undisturbed, Confirmed
    <3>3. session.keys = central.keys /\ rx = central.seq /\ tx = central.seq
      BY <1>0, <1>1, <1>2, <3>1, <3>2 DEF StepInv, AppStep, SecureAt, Closed, Waiting
    <3>4. write.key = central.keys /\ write.seq = central.seq
      BY <1>0, <3>1 DEF RunInv
    <3>5. central.seq < SEQ_MAX
      <4>1. central.seq \in 0 .. Rounds - 1
        BY <1>0 DEF SysTypeOK, RunSet
      <4> QED BY <4>1, Constants
    <3> QED BY <3>1, <3>2, <3>3, <3>4, <3>5, Constants DEF AppGenuine
  <2>3. CASE PNotReady
    <3>1. cp3 = "BUSY"
      BY <1>0, <1>1, <2>1, <2>3 DEF PNotReady, Ready, Undisturbed, SysTypeOK
    <3> QED BY <1>0, <1>1, <1>2, <3>1 DEF StepInv, InitStep, FinishStep, AppStep, Waiting
  <2> QED BY <2>2, <2>3
<1> QED BY <1>1, <1>2, <1>3 DEF CleanInv

(* ... and takes up and answers the full handshake. *)
LEMMA CleanFull ==
  ASSUME TypeOK, CoreInv, CleanInv, PFullStart \/ PFullIssued \/ PFullRefused PROVE CleanInv'
<1>0. SysTypeOK /\ RunInv
  BY DEF CoreInv
<1>1. CASE PFullStart
  <2>1. /\ cp3' = "BUSY" /\ att' = "ok" /\ central.pc = "write" /\ central.step = "FULL"
        /\ nq = <<>> /\ UNCHANGED <<vars, paired, central, link, nq>>
    BY <1>1, FullTaken
  <2>2. ~(bondNotice /\ central.cold)
    BY <1>1 DEF PFullStart, Arrived
  <2>3. central.clean => Undisturbed
    BY <2>1 DEF CleanInv
  <2>4. central.clean => Undisturbed'
    BY <2>1, <2>2, <2>3 DEF Undisturbed, Confirmed, vars, coreVars
  <2> QED BY <2>1, <2>4 DEF CleanInv
<1>2. CASE PFullIssued \/ PFullRefused
  <2>1. PICK m :
        /\ SameRun /\ Waiting /\ central.step = "FULL" /\ write.type = "NONE" /\ att # "err"
        /\ UNCHANGED <<paired, link, write, att, bonds, bondNotice>>
        /\ \/ ~central'.clean
           \/ cp3' = "APP_SECURE" /\ session'.state = "SECURE"
    BY <1>2, FullAnswers
  <2>2. CASE ~central'.clean
    BY <2>1, <2>2 DEF CleanInv, Waiting, SameRun
  <2>3. CASE central'.clean
    <3>1. central.clean
      BY <2>1, <2>3 DEF SameRun
    <3>2. Undisturbed /\ ~bondNotice
      BY <1>0, <2>1, <3>1, CleanSettled DEF Waiting
    <3>3. Undisturbed'
      BY <2>1, <2>3, <3>2 DEF Undisturbed, SameRun
    <3> QED BY <2>1, <3>3 DEF CleanInv, SameRun, Waiting
  <2> QED BY <2>2, <2>3
<1> QED BY <1>1, <1>2

(* The link of a clean run does not drop ... *)
LEMMA CleanDrops ==
  ASSUME TypeOK, CoreInv, CleanInv, PDisconnected \/ LinkLost \/ PTerminate \/ PeripheralReboot
  PROVE  CleanInv'
<1>0. SysTypeOK /\ RunInv /\ LinkInv
  BY DEF CoreInv
<1>1. CASE LinkLost \/ PeripheralReboot
  <2>1. ~central'.clean
    BY <1>0, <1>1, Unclean DEF LinkLost, PeripheralReboot
  <2> QED BY <2>1 DEF CleanInv, CleanRunSucceeds
<1>2. CASE PTerminate
  <2>1. link /\ paired /\ owner \notin bonds /\ central' = central
    BY <1>2 DEF PTerminate, HasBond
  <2>2. central.pc # "off" /\ ~central.clean
    BY <1>0, <2>1 DEF RunInv, LinkInv, CleanInv, Undisturbed
  <2> QED BY <2>1, <2>2 DEF CleanInv
<1>3. CASE PDisconnected
  <2>1. ~link /\ UNCHANGED <<paired, central, link, write, att, nq, bonds, bondNotice, pc>>
    BY <1>3 DEF PDisconnected, Disconnected, bleVars
  <2>2. CASE central.pc = "off" \/ ~central.clean
    BY <2>1, <2>2 DEF CleanInv, CleanRunSucceeds
  <2>3. CASE central.pc # "off" /\ central.clean
    <3>1. Undisturbed /\ central.pc = "connect" /\ central.step = "NONE"
      BY <1>0, <2>1, <2>3 DEF CleanInv, Undisturbed, RunInv, Starting
    <3>2. Undisturbed'
      BY <2>1, <3>1 DEF Undisturbed, Confirmed, Waiting
    <3> QED BY <2>1, <3>1, <3>2 DEF CleanInv
  <2> QED BY <2>2, <2>3
<1> QED BY <1>1, <1>2, <1>3

(* ... and neither time nor a callback closes its session. *)
LEMMA CleanCalm ==
  ASSUME TypeOK, CoreInv, CleanInv,
         PBondChanged \/ PExpire \/ SysTick \/ OperatorClearsBonds \/ OperatorUnpairs
         \/ UNCHANGED sysVars
  PROVE  CleanInv'
<1>0. SysTypeOK /\ RunInv
  BY DEF CoreInv
<1>1. Calm
  BY <1>0, CalmSteps
<1>2. CASE ~central'.clean
  BY <1>2 DEF CleanInv, CleanRunSucceeds
<1>3. CASE central.pc = "off"
  BY <1>1, <1>3 DEF CleanInv, CleanRunSucceeds, Calm, SameRun
<1>4. CASE central'.clean /\ central.pc # "off"
  <2>1. Undisturbed /\ central'.pc # "off"
    BY <1>1, <1>4 DEF CleanInv, Calm, SameRun
  <2>2. ~OperatorClearsBonds /\ ~OperatorUnpairs
    BY <1>0, <1>4, Unclean DEF OperatorClearsBonds, OperatorUnpairs
  <2>3. bonds' = bonds /\ paired' = paired /\ (bondNotice' => bondNotice)
    <3>1. CASE PBondChanged
      BY <3>1 DEF PBondChanged, BondChanged
    <3>2. CASE PExpire
      BY <3>2 DEF PExpire, Expire, linkVars
    <3>3. CASE SysTick
      BY <3>3 DEF SysTick, Tick, linkVars
    <3>4. CASE UNCHANGED sysVars
      BY <3>4 DEF sysVars, vars, coreVars
    <3> QED BY <2>2, <3>1, <3>2, <3>3, <3>4
  <2>4. Confirmed => session'.state = "SECURE"
    <3>1. CASE PBondChanged
      <4>1. bondNotice
        BY <3>1 DEF PBondChanged, BondChanged
      <4>2. central.pc = "load" \/ write.type = "FULL"
        BY <2>1, <4>1 DEF Undisturbed
      <4> QED BY <1>0, <4>2 DEF RunInv, Confirmed, Starting
    <3>2. CASE PExpire
      BY <2>1, <3>2 DEF PExpire, Expire, Pending, KeepSession, Undisturbed
    <3>3. CASE SysTick \/ UNCHANGED sysVars
      <4>1. session'.state = session.state
        BY <3>3 DEF SysTick, Tick, TypeOK, SessionSet, sysVars, vars, coreVars
      <4> QED BY <2>1, <4>1 DEF Undisturbed
    <3> QED BY <2>2, <3>1, <3>2, <3>3
  <2>5. Confirmed' => Confirmed
    BY <1>1 DEF Confirmed, Calm, SameRun
  <2>6. Undisturbed'
    BY <1>1, <2>1, <2>3, <2>4, <2>5 DEF Undisturbed, Waiting, Calm, SameRun
  <2> QED BY <2>1, <2>6 DEF CleanInv
<1> QED BY <1>2, <1>3, <1>4

LEMMA CleanStep ==
  ASSUME TypeOK, KeyInv, CoreInv, CoreInv', CleanInv, [SysNext]_sysVars PROVE CleanInv'
<1>1. CASE Quits \/ (CPong /\ ~Asks)
  BY <1>1, CleanQuits, CleanEnds
<1>2. CASE CBegin \/ CAccepted \/ CRejected \/ (CSave /\ ~Expired(central.tk)) \/ (CPong /\ Asks)
  BY <1>2, CleanCentralAsks
<1>3. CASE (CWritten /\ att = "ok") \/ CFinished \/ CFullFinished
  BY <1>3, CleanReads
<1>4. CASE CStart \/ CConnect \/ CEncrypt \/ CPaired
  BY <1>4, CleanStarts
<1>5. CASE PInitTaken \/ PInitRejected \/ PFinishAnswered \/ PFinishRejected \/ PApp
  BY <1>5, CleanAnswers
<1>6. CASE PCommit \/ PAppDenied \/ PNotReady
  BY <1>6, CleanCommit, CleanDenied
<1>7. CASE PFullStart \/ PFullIssued \/ PFullRefused
  BY <1>7, CleanFull
<1>8. CASE PDisconnected \/ LinkLost \/ PTerminate \/ PeripheralReboot
  BY <1>8, CleanDrops
<1>9. CASE PBondChanged \/ PExpire \/ SysTick \/ OperatorClearsBonds \/ OperatorUnpairs
           \/ UNCHANGED sysVars
  BY <1>9, CleanCalm
<1> QED BY <1>1, <1>2, <1>3, <1>4, <1>5, <1>6, <1>7, <1>8, <1>9
        DEF SysNext, CentralStep, PeripheralStep, Disturbance, Quits
-----------------------------------------------------------------------------
(* The system starts in the invariant, and every step keeps it. *)
LEMMA SysInvInit == SysInit => SysInv
<1> SUFFICES ASSUME SysInit PROVE SysInv
  OBVIOUS
<1>1. TypeOK /\ KeyInv
  BY TypeInit, KeyInit DEF SysInit
<1>2. /\ central = NoRun /\ store = NoStore /\ runs = 0 /\ faults = 0 /\ nq = <<>> /\ att = "none"
      /\ write = NoWrite /\ cp3 = "IDLE" /\ link = FALSE /\ owner = 0 /\ pc = "free"
      /\ paired \in BOOLEAN
  BY DEF SysInit, Init
<1>3. /\ NoRun.pc = "off" /\ NoRun.step = "NONE" /\ NoRun.tk = NoStore
      /\ NoRun.clean = FALSE /\ NoRun.fell = FALSE /\ NoRun.force = FALSE
  BY DEF NoRun
<1>4. SysTypeOK
  <2>1. 0 \in 0 .. MaxRuns /\ 0 \in 0 .. MaxFaults
    BY SystemAssumption
  <2> QED BY <1>2, <2>1, EmptyTyped DEF SysTypeOK
<1>5. CoreInv
  <2>1. RunInv
    BY <1>2, <1>3, EmptyTyped DEF RunInv, Starting, Waiting
  <2>2. AnswerInv /\ LinkInv /\ StepInv
    BY <1>2 DEF AnswerInv, LinkInv, StepInv
  <2> QED BY <1>4, <2>1, <2>2 DEF CoreInv
<1>6. CountInv
  BY <1>1, <1>2, <1>3, EmptyCounts DEF CountInv, CountOf
<1>7. CleanInv
  BY <1>2, <1>3 DEF CleanInv, CleanRunSucceeds
<1> QED BY <1>1, <1>5, <1>6, <1>7 DEF SysInv

LEMMA SysInvStep == SysInv /\ [SysNext]_sysVars => SysInv'
<1> SUFFICES ASSUME SysInv, [SysNext]_sysVars PROVE SysInv'
  OBVIOUS
<1>1. TypeOK /\ KeyInv /\ CoreInv /\ CountInv /\ CleanInv /\ SysTypeOK
  BY DEF SysInv, CoreInv
<1>2. [Next]_vars
  BY <1>1, ServiceStep
<1>3. TypeOK' /\ KeyInv'
  BY <1>1, <1>2, TypeStep, KeyStep
<1>4. CoreInv'
  BY <1>1, CoreStep
<1>5. CountInv'
  BY <1>1, <1>2, <1>3, <1>4, CountStep
<1>6. CleanInv'
  BY <1>1, <1>4, CleanStep
<1> QED BY <1>3, <1>4, <1>5, <1>6 DEF SysInv

(* The inductive invariant of the composed system: a run of the Central,   *)
(* the link, write_control and the resumption service stay in step through *)
(* every loss, crash, reboot, expiry and bond change.                      *)
THEOREM SystemInvariant == SysSpec => []SysInv
  BY SysInvInit, SysInvStep, PTL DEF SysSpec

(* The Peripheral of the composed system is the resumption service that    *)
(* ResumePeripheral models against an open environment: main.c calls it    *)
(* only in ways its own module allows.                                     *)
THEOREM ServiceEmbedded == SysSpec => Spec
<1>1. SysInit => Init
  BY DEF SysInit
<1>2. SysInv /\ [SysNext]_sysVars => [Next]_vars
  <2> SUFFICES ASSUME SysInv, [SysNext]_sysVars PROVE [Next]_vars
    OBVIOUS
  <2> QED BY ServiceStep DEF SysInv, CoreInv
<1> QED BY <1>1, <1>2, SystemInvariant, PTL DEF SysSpec, Spec

(* The Central's ticket file never counts more uses of a root than the     *)
(* Peripheral's ticket under it does, over any number of runs, crashes     *)
(* between FINISH_P, the commit and TicketStore.save, and lost responses.  *)
THEOREM SystemSafe == SysSpec => []SystemInv
<1>1. SysInv => SystemInv
  <2> SUFFICES ASSUME SysInv PROVE SystemInv
    OBVIOUS
  <2>1. SysTypeOK /\ NotAhead(store, 0) /\ store.uses + 0 = store.uses
    <3>1. SysTypeOK /\ NotAhead(store, 0)
      BY DEF SysInv, CoreInv, CountInv
    <3> QED BY <3>1, Constants DEF SysTypeOK, StoreSet
  <2> QED BY <2>1 DEF SystemInv, CountNeverAhead, NotAhead
<1> QED BY <1>1, SystemInvariant, PTL

(* On a live link two ends that are both APP_SECURE hold the same traffic  *)
(* keys, and the Peripheral's counters are those of the PING in flight.    *)
THEOREM AgreementSafe == SysSpec => []BothSecureAgree
<1>1. SysInv => BothSecureAgree
  <2> SUFFICES ASSUME SysInv, link, central.step = "APP", session.state = "SECURE"
               PROVE  /\ central.keys = session.keys
                      /\ rx = tx /\ rx \in {central.seq, central.seq + 1}
    BY DEF BothSecureAgree
  <2>1. SysTypeOK /\ RunInv /\ StepInv
    BY DEF SysInv, CoreInv
  <2>2. Waiting
    BY <2>1 DEF SysTypeOK, RunSet, RunInv, Starting, Waiting
  <2>3. AppStep
    BY <2>1, <2>2 DEF StepInv
  <2> QED BY <2>3 DEF AppStep, SecureAt, Closed
<1> QED BY <1>1, SystemInvariant, PTL

(* A run that nothing disturbs ends with all its round trips, whatever     *)
(* tickets, counts and expiry times earlier runs left on the two sides:    *)
(* the refused or lost resumption of its first attempt always leaves the   *)
(* full handshake a link on which it succeeds.                             *)
THEOREM CleanRunsSafe == SysSpec => []CleanRunSucceeds
<1>1. SysInv => CleanRunSucceeds
  BY DEF SysInv, CleanInv, CleanRunSucceeds
<1> QED BY <1>1, SystemInvariant, PTL
=============================================================================
