-------------------------- MODULE V1HandshakeProofs --------------------------
(***************************************************************************)
(* The ML-KEM handshake of the Peripheral and its crypto worker, for every  *)
(* timeout, every width of the counters and every number of connections.    *)
(***************************************************************************)
EXTENDS V1Handshake, TLAPS

USE DEF Never

-----------------------------------------------------------------------------
(* Types of what HandshakeTypeOK leaves open, and the name of the link. *)
Modes == Cp3Modes \cup {"none", "cp2"}
Computing == {"run", "store", "open", "opened", "seal", "done"}
Delivering == {"notify", "finish"}
Pcs == Computing \cup Delivering \cup {"idle", "result", "release"}
Workers == [pc : Pcs, mode : Modes, from : Conns, good : BOOLEAN, fresh : BOOLEAN, ok : BOOLEAN,
            hs : Conns, app : Conns, tx : 0 .. SEQ_MAX, conn : Conns, sent : BOOLEAN]
WorkerTyped == w \in Workers /\ sealed \subseteq (Conns \X (0 .. SEQ_MAX))
LinkNamed == cur # 0 => cur = gen /\ gen < MAX_GEN
Typed == HandshakeTypeOK /\ WorkerTyped /\ LinkNamed

(* The slot and the flags that follow the job: while a job of the handshake *)
(* is queued or computed v1_cp3_worker_active is set, while it is delivered *)
(* v1_cp3_delivery_active is; and the slot is free once job_done ran.       *)
Busy == Computing \cup {"result"}
HasJob(mode) == slot.pending /\ slot.mode = mode
Works(mode) == w.pc \in Busy /\ w.mode = mode
SlotTaken ==
    /\ slot.active <=> w.pc \in Computing \/ (w.mode = "cp2" /\ w.pc # "idle")
    /\ slot.pending => ~slot.active /\ w.pc # "result" /\ slot.mode # "none"
    /\ w.mode = "none" => w.pc = "idle"
    /\ w.pc = "release" => w.mode = "cp2"
WorkerFlag == \A mode \in Cp3Modes : HasJob(mode) \/ Works(mode) => cp3.worker
DeliveryFlag == w.pc \in Delivering /\ w.mode \in Cp3Modes => cp3.delivery
SlotInv == SlotTaken /\ WorkerFlag /\ DeliveryFlag

(* A transfer is open only before the link's one handshake. *)
TransferInv ==
    /\ cp3.state # "IDLE" \/ Draining => ct \in {"BUSY", "EMPTY"}
    /\ cp2.active => ct = "BUSY"
    /\ ctFrom \in {0, cur} /\ (ct \in {"READY", "RECEIVING"} => ctFrom = cur)

(* A job of the current epoch is the one the state of the handshake waits   *)
(* for, and a state that waits has its job.                                 *)
StateOf(mode) == IF mode = "cp3" THEN "CRYPTO_BUSY"
                 ELSE IF mode = "finished" THEN "FINISHED_P_BUSY" ELSE "APP_SECURE"
FreshJob ==
    \A mode \in Cp3Modes :
        (HasJob(mode) /\ slot.fresh) \/ (Works(mode) /\ w.fresh) => cp3.state = StateOf(mode)
WaitsForJob ==
    \A mode \in {"cp3", "finished"} : cp3.state = StateOf(mode) =>
        (HasJob(mode) /\ slot.fresh) \/ (w.pc # "idle" /\ w.mode = mode /\ w.fresh)
ResultKept ==
    w.pc \in Delivering => /\ w.mode = "cp3" /\ w.ok /\ w.conn # 0 => cp3.state # "CRYPTO_BUSY"
                           /\ w.mode = "finished" => ~w.ok
JobInv == FreshJob /\ WaitsForJob /\ ResultKept

(* Secrets come from the current link and live with its handshake.          *)
JobOfLink ==
    /\ HasJob("cp3") /\ slot.fresh => slot.from = cur
    /\ Works("cp3") /\ w.fresh => w.from = cur
    /\ w.pc = "store" => w.mode = "finished"
    /\ w.pc = "store" /\ w.fresh => w.hs = cur
    /\ w.pc \in {"open", "opened", "seal"} => w.mode = "cp4"
SecretInv == NoOrphanKeys /\ KeysOfThisLink /\ JobOfLink

(* What was sealed for this link was sealed by its one session, below its   *)
(* counter, or at it while the PONG is on its way.                          *)
Ended == {"APP_SECURE", "FAILED"}
SealedNamed ==
    \A e \in sealed : e[1] \in 1 .. gen /\ (e[1] = cur => cp3.state \in Ended)
SealedBelow ==
    keys.secure => \A e \in sealed : e[1] = keys.app =>
                       e[2] < keys.tx \/ (e[2] = keys.tx /\ keys.pend)
Sealing ==
    w.pc \in {"opened", "seal"} =>
        /\ w.app \in 1 .. gen /\ (w.app = cur => cp3.state \in Ended)
        /\ keys.app = w.app /\ keys.secure => keys.pend /\ keys.tx = w.tx
SecureKeyed == keys.secure => keys.app # 0
SealInv == SealedNamed /\ SealedBelow /\ Sealing /\ SecureKeyed

-----------------------------------------------------------------------------
(* The records, named. *)
Cp2Recs == [active : BOOLEAN, valid : BOOLEAN, conn : Conns, gen : Conns]
Cp3Recs == [state : Cp3States, conn : Conns, gen : Conns, worker : BOOLEAN,
            delivery : BOOLEAN, left : 0 .. TIMEOUT]
TimerRecs == [due : {Never} \cup (1 .. TIMEOUT), queued : BOOLEAN, running : BOOLEAN]
KeyRecs == [hs : Conns, app : Conns, secure : BOOLEAN, pend : BOOLEAN, ready : BOOLEAN,
            rx : 0 .. SEQ_MAX, tx : 0 .. SEQ_MAX]

(* What an erased session looks like. *)
LEMMA NoKeysTyped == NoKeys \in KeyRecs
  BY HandshakeAssumption DEF NoKeys, KeyRecs, Conns

(* The worker asleep. *)
LEMMA SleepingTyped == Sleeping \in Workers
  BY HandshakeAssumption DEF Sleeping, Workers, Conns, Pcs, Computing, Delivering, Modes, Cp3Modes

(* A failed handshake keeps its flags and its deadline. *)
LEMMA FailedTyped ==
    ASSUME NEW c \in Cp3Recs
    PROVE  /\ Failed(c) \in Cp3Recs /\ [Failed(c) EXCEPT !.state = "IDLE"] \in Cp3Recs
           /\ Failed(c).state = (IF c.state = "IDLE" THEN "IDLE" ELSE "FAILED")
           /\ Failed(c).conn = 0 /\ Failed(c).worker = c.worker
           /\ Failed(c).delivery = c.delivery /\ Failed(c).left = c.left
<1>1. 0 \in Conns BY HandshakeAssumption DEF Conns
<1>2. PICK s \in {"IDLE", "FAILED"} : s = IF c.state = "IDLE" THEN "IDLE" ELSE "FAILED"
  OBVIOUS
<1>3. Failed(c) = [c EXCEPT !.state = s, !.conn = 0]
  BY <1>2 DEF Failed, Cp3Recs
<1> QED BY <1>1, <1>2, <1>3 DEF Cp3Recs, Cp3States

(* A retired job is the same job, no longer fresh. *)
LEMMA RetiredWorker ==
    ASSUME NEW x \in Workers, NEW modes
    PROVE  LET r == Retired(x, modes)
           IN  /\ r \in Workers /\ r.pc = x.pc /\ r.mode = x.mode /\ r.from = x.from
               /\ r.ok = x.ok /\ r.hs = x.hs /\ r.app = x.app /\ r.tx = x.tx /\ r.conn = x.conn
               /\ r.sent = x.sent /\ (r.fresh <=> x.fresh /\ x.mode \notin modes)
  BY DEF Retired, Workers

(* And so is a retired job in the slot. *)
LEMMA RetiredSlot ==
    ASSUME NEW x \in Jobs, NEW modes
    PROVE  LET r == Retired(x, modes)
           IN  /\ r \in Jobs /\ r.pending = x.pending /\ r.active = x.active /\ r.mode = x.mode
               /\ r.from = x.from /\ (r.fresh <=> x.fresh /\ x.mode \notin modes)
  BY DEF Retired, Jobs

(* invalidate_v1_cp3_locked leaves no key, no deadline to come and no job   *)
(* of the handshake fresh, whatever else the action did.                    *)
LEMMA Invalidated ==
    ASSUME Typed, NEW c \in Cp3Recs, NEW x \in Workers, InvalidateCp3(c, x)
    PROVE  /\ cp3' \in Cp3Recs /\ cp3'.state = (IF c.state = "IDLE" THEN "IDLE" ELSE "FAILED")
           /\ cp3'.conn = 0 /\ cp3'.worker = c.worker /\ cp3'.delivery = c.delivery
           /\ timer' \in TimerRecs /\ keys' = NoKeys /\ keys' \in KeyRecs
           /\ slot' \in Jobs /\ slot'.pending = slot.pending /\ slot'.active = slot.active
           /\ slot'.mode = slot.mode /\ slot'.from = slot.from
           /\ (slot'.fresh => slot.fresh /\ slot.mode \notin Cp3Modes)
           /\ w' \in Workers /\ w'.pc = x.pc /\ w'.mode = x.mode /\ w'.from = x.from
           /\ w'.ok = x.ok /\ w'.hs = x.hs /\ w'.app = x.app /\ w'.tx = x.tx /\ w'.conn = x.conn
           /\ (w'.fresh => x.fresh /\ x.mode \notin Cp3Modes)
<1>1. slot \in Jobs /\ timer \in TimerRecs
  BY DEF Typed, HandshakeTypeOK, TimerRecs
<1>2. timer' \in TimerRecs
  BY <1>1 DEF InvalidateCp3, CancelTimer, TimerRecs
<1>3. cp3' = Failed(c) /\ keys' = NoKeys
      /\ slot' = Retired(slot, Cp3Modes) /\ w' = Retired(x, Cp3Modes)
  BY DEF InvalidateCp3
<1>4. /\ cp3' \in Cp3Recs /\ cp3'.state = (IF c.state = "IDLE" THEN "IDLE" ELSE "FAILED")
      /\ cp3'.conn = 0 /\ cp3'.worker = c.worker /\ cp3'.delivery = c.delivery
  BY <1>3, FailedTyped
<1>5. /\ slot' \in Jobs /\ slot'.pending = slot.pending /\ slot'.active = slot.active
      /\ slot'.mode = slot.mode /\ slot'.from = slot.from
      /\ (slot'.fresh => slot.fresh /\ slot.mode \notin Cp3Modes)
  BY <1>1, <1>3, RetiredSlot
<1>6. /\ w' \in Workers /\ w'.pc = x.pc /\ w'.mode = x.mode /\ w'.from = x.from
      /\ w'.ok = x.ok /\ w'.hs = x.hs /\ w'.app = x.app /\ w'.tx = x.tx /\ w'.conn = x.conn
      /\ (w'.fresh => x.fresh /\ x.mode \notin Cp3Modes)
  BY <1>3, RetiredWorker
<1> QED BY <1>2, <1>3, <1>4, <1>5, <1>6, NoKeysTyped

(* Every step keeps the types, and a connection its name. *)
LEMMA TypedStep == Typed /\ [Next]_vars => Typed'
<1> SUFFICES ASSUME Typed, [Next]_vars PROVE Typed'
  OBVIOUS
<1>0. /\ cp2 \in Cp2Recs /\ cp3 \in Cp3Recs /\ timer \in TimerRecs /\ keys \in KeyRecs
      /\ slot \in Jobs /\ w \in Workers /\ 0 \in Conns /\ cur \in Conns /\ gen \in Conns
      /\ (cur # 0 => gen + 1 \in Conns) /\ 0 \in 0 .. SEQ_MAX
  BY HandshakeAssumption
     DEF Typed, HandshakeTypeOK, WorkerTyped, LinkNamed, Cp2Recs, Cp3Recs, TimerRecs, KeyRecs, Conns
<1> DEFINE Rest == cp2' \in Cp2Recs /\ cp3' \in Cp3Recs /\ timer' \in TimerRecs
                   /\ keys' \in KeyRecs /\ slot' \in Jobs /\ w' \in Workers
           Plain == UNCHANGED <<cur, gen, notify, l4, notice, ct, ctFrom, sealed>>
<1>a. Rest /\ Plain => Typed'
  BY DEF Typed, HandshakeTypeOK, WorkerTyped, LinkNamed, Cp2Recs, Cp3Recs, TimerRecs, KeyRecs
<1>1. CASE Connected
  <2>1. Rest
    BY <1>0, <1>1, NoKeysTyped, FailedTyped
       DEF Connected, ForgetLink, CancelTimer, Cp2Recs, Jobs, Workers, TimerRecs
  <2>2. ct' \in {"EMPTY", "RECEIVING", "READY", "BUSY"} /\ ctFrom' \in Conns
    BY <1>0, <1>1 DEF Connected, Typed, HandshakeTypeOK, transfer
  <2>3. cur' \in Conns /\ gen' \in Conns /\ cur' = gen' /\ gen' < MAX_GEN
    BY <1>0, <1>1, HandshakeAssumption DEF Connected, Conns
  <2> QED BY <1>1, <2>1, <2>2, <2>3
          DEF Connected, Typed, HandshakeTypeOK, WorkerTyped, LinkNamed, Cp2Recs, Cp3Recs,
              TimerRecs, KeyRecs
<1>2. CASE Disconnected
  <2>1. Rest
    BY <1>0, <1>2, NoKeysTyped, FailedTyped
       DEF Disconnected, CancelTimer, Cp2Recs, Jobs, Workers, TimerRecs
  <2> QED BY <1>0, <1>2, <2>1
          DEF Disconnected, Typed, HandshakeTypeOK, WorkerTyped, LinkNamed, Cp2Recs, Cp3Recs,
              TimerRecs, KeyRecs, Conns
<1>3. CASE SecurityUp \/ SecurityLost \/ Subscribe
  BY <1>3 DEF SecurityUp, SecurityLost, Subscribe, Typed, HandshakeTypeOK, WorkerTyped, LinkNamed,
              transfer
<1>4. CASE SecurityChanged
  <2>1. Rest
    BY <1>0, <1>4, NoKeysTyped, FailedTyped
       DEF SecurityChanged, CancelTimer, Cp2Recs, Jobs, Workers, TimerRecs
  <2> QED BY <1>0, <1>4, <2>1
          DEF SecurityChanged, Typed, HandshakeTypeOK, WorkerTyped, LinkNamed, Cp2Recs, Cp3Recs,
              TimerRecs, KeyRecs
<1>5. CASE Unsubscribe
  <2>1. Rest
    BY <1>0, <1>5, NoKeysTyped, FailedTyped
       DEF Unsubscribe, CancelTimer, Cp2Recs, Jobs, Workers, TimerRecs
  <2> QED BY <1>0, <1>5, <2>1
          DEF Unsubscribe, Typed, HandshakeTypeOK, WorkerTyped, LinkNamed, Cp2Recs, Cp3Recs,
              TimerRecs, KeyRecs, transfer
<1>6. ASSUME NEW next \in {"EMPTY", "RECEIVING", "READY"}, WriteCiphertext(next) PROVE Typed'
  BY <1>0, <1>6 DEF WriteCiphertext, Typed, HandshakeTypeOK, WorkerTyped, LinkNamed, link
<1>b. ASSUME NEW mode \in Modes, NEW from \in Conns, NEW good \in BOOLEAN
      PROVE  Job(mode, from, good) \in Jobs
  BY DEF Job, Jobs, Modes
<1>7. ASSUME NEW good \in BOOLEAN, Cp2Start(good) PROVE Typed'
  <2>1. Rest
    BY <1>0, <1>7, <1>b
       DEF Cp2Start, Cp2Recs, Modes, Typed, HandshakeTypeOK
  <2> QED BY <1>0, <1>7, <2>1
          DEF Cp2Start, Typed, HandshakeTypeOK, WorkerTyped, LinkNamed, Cp2Recs, Cp3Recs,
              TimerRecs, KeyRecs, link
<1>8. ASSUME NEW good \in BOOLEAN, Cp3Start(good) PROVE Typed'
  <2>1. Rest
    BY <1>0, <1>8, <1>b, HandshakeAssumption
       DEF Cp3Start, Cp3Recs, TimerRecs, Cp3States, Modes, Cp3Modes, Typed, HandshakeTypeOK
  <2> QED BY <1>0, <1>8, <2>1
          DEF Cp3Start, Typed, HandshakeTypeOK, WorkerTyped, LinkNamed, Cp2Recs, Cp3Recs,
              TimerRecs, KeyRecs, link
<1> USE DEF link, transfer
<1>9. ASSUME NEW good \in BOOLEAN, FinishedC(good) PROVE Typed'
  <2>1. CASE Live3 /\ SlotFree /\ keys.hs # 0
    <3>1. slot' \in Jobs
      BY <1>0, <1>9, <1>b, <2>1 DEF FinishedC, Modes, Cp3Modes
    <3>2. cp3' \in Cp3Recs
      BY <1>0, <1>9, <2>1 DEF FinishedC, Cp3Recs, Cp3States
    <3> QED BY <1>0, <1>9, <1>a, <2>1, <3>1, <3>2 DEF FinishedC
  <2>2. CASE ~(Live3 /\ SlotFree /\ keys.hs # 0)
    <3>1. InvalidateCp3(cp3, w) BY <1>9, <2>2 DEF FinishedC
    <3> QED BY <1>0, <1>9, <1>a, <3>1, Invalidated DEF FinishedC
  <2> QED BY <2>1, <2>2
<1>10. ASSUME NEW seq, NEW good \in BOOLEAN, Cp4Ping(seq, good) PROVE Typed'
  <2>1. Rest
    BY <1>0, <1>10, <1>b DEF Cp4Ping, Cp3Recs, KeyRecs, Modes, Cp3Modes
  <2> QED BY <1>10, <1>a, <2>1 DEF Cp4Ping
<1>11. CASE Cp4Denied
  BY <1>0, <1>11, <1>a, Invalidated DEF Cp4Denied
<1> USE DEF Modes, Pcs, Computing, Delivering
<1>12. CASE TakeJob
  <2>1. Rest
    BY ZenonT(40), <1>0, <1>12, SleepingTyped DEF TakeJob, Jobs, Workers
  <2> QED BY <1>12, <1>a, <2>1 DEF TakeJob
<1>13. CASE Cp2Compute
  <2>1. Rest
    BY <1>0, <1>13 DEF Cp2Compute, Workers
  <2> QED BY <1>13, <1>a, <2>1 DEF Cp2Compute
<1>14. CASE Cp3Compute
  <2>1. Rest
    BY <1>0, <1>14 DEF Cp3Compute, Workers, KeyRecs
  <2> QED BY <1>14, <1>a, <2>1 DEF Cp3Compute
<1>15. CASE FinishedTake
  <2>1. w' \in Workers
    BY ZenonT(40), <1>0, <1>15 DEF FinishedTake, Workers, KeyRecs
  <2>2. keys' \in KeyRecs
    BY <1>0, <1>15 DEF FinishedTake, KeyRecs
  <2>3. Rest
    BY <1>0, <1>15, <2>1, <2>2 DEF FinishedTake
  <2> QED BY <1>15, <1>a, <2>3 DEF FinishedTake
<1>16. CASE FinishedStore
  <2>1. Rest
    BY <1>0, <1>16 DEF FinishedStore, Workers, KeyRecs
  <2> QED BY <1>16, <1>a, <2>1 DEF FinishedStore
<1>17. ASSUME NEW from, NEW to \in Pcs, Cp4Check(from, to) PROVE Typed'
  <2>1. [w EXCEPT !.pc = "done", !.app = 0] \in Workers /\ [w EXCEPT !.pc = to] \in Workers
    BY <1>0 DEF Workers
  <2>2. Rest
    BY <1>0, <1>17, <2>1, Invalidated DEF Cp4Check
  <2> QED BY <1>17, <1>a, <2>2 DEF Cp4Check
<1>18. CASE Cp4Open
  <2>1. Rest
    BY <1>0, <1>18 DEF Cp4Open, Workers, KeyRecs
  <2> QED BY <1>18, <1>a, <2>1 DEF Cp4Open
<1>19. CASE JobDone
  <2>1. Rest
    BY <1>0, <1>19 DEF JobDone, Workers, Jobs
  <2> QED BY <1>19, <1>a, <2>1 DEF JobDone
<1>20. CASE Cp4Seal
  <2>3. PICK kept \in BOOLEAN : kept = (w.fresh /\ keys.secure /\ keys.pend)
    OBVIOUS
  <2>4. /\ keys' = IF kept THEN [keys EXCEPT !.ready = TRUE] ELSE keys
        /\ w' = [w EXCEPT !.pc = "done", !.ok = kept, !.app = 0, !.tx = 0]
    BY <1>20, <2>3 DEF Cp4Seal
  <2>5. keys' \in KeyRecs
    BY <1>0, <2>4 DEF KeyRecs
  <2>6. w' \in Workers
    BY <1>0, <2>4 DEF Workers
  <2>1. Rest
    BY <1>0, <1>20, <2>5, <2>6 DEF Cp4Seal
  <2>2. sealed' \subseteq (Conns \X (0 .. SEQ_MAX))
    BY <1>0, <1>20 DEF Cp4Seal, Typed, WorkerTyped, Workers
  <2> QED BY <1>20, <2>1, <2>2
          DEF Cp4Seal, Typed, HandshakeTypeOK, WorkerTyped, LinkNamed, Cp2Recs, Cp3Recs,
              TimerRecs, KeyRecs
<1>21. CASE Cp2Result
  <2>1. Rest
    BY <1>0, <1>21 DEF Cp2Result, Workers, Cp2Recs
  <2> QED BY <1>21, <1>a, <2>1 DEF Cp2Result
<1>22. ASSUME NEW sent \in BOOLEAN, Cp2Notify(sent) \/ Cp3Notify(sent) \/ Cp4Notify(sent)
       PROVE  Typed'
  <2>1. Rest
    BY <1>0, <1>22 DEF Cp2Notify, Cp3Notify, Cp4Notify, Workers
  <2> QED BY <1>22, <1>a, <2>1 DEF Cp2Notify, Cp3Notify, Cp4Notify
<1>c. Rest /\ UNCHANGED <<link, sealed>> /\ ct' \in {ct, "EMPTY"} /\ ctFrom' \in {ctFrom,
    0} => Typed'
  BY <1>0 DEF Typed, HandshakeTypeOK, WorkerTyped, LinkNamed, Cp2Recs, Cp3Recs, TimerRecs, KeyRecs
<1>23. CASE Cp2Finish
  <2>1. Rest
    BY <1>0, <1>23 DEF Cp2Finish, Workers, Cp2Recs
  <2> QED BY <1>23, <1>c, <2>1 DEF Cp2Finish
<1>24. CASE Cp2Release
  <2>1. Rest
    BY <1>0, <1>24, SleepingTyped DEF Cp2Release, Jobs
  <2> QED BY <1>24, <1>a, <2>1 DEF Cp2Release
<1>25. CASE Cp3Result
  <2>1. Rest
    BY <1>0, <1>25 DEF Cp3Result, Workers, Cp3Recs, Cp3States
  <2> QED BY <1>25, <1>a, <2>1 DEF Cp3Result
<1>d. ASSUME NEW c, Drain(c) PROVE ct' \in {ct, "EMPTY"} /\ ctFrom' \in {ctFrom, 0}
  BY <1>d DEF Drain
<1>26. CASE Cp3Finish
  <2>1. [cp3 EXCEPT !.delivery = FALSE] \in Cp3Recs
    BY <1>0 DEF Cp3Recs
  <2>2. Rest
    BY <1>0, <1>26, <2>1, SleepingTyped, Invalidated DEF Cp3Finish
  <2> QED BY <1>26, <1>c, <1>d, <2>2 DEF Cp3Finish
<1>27. ASSUME NEW sent, NEW late, FinishedP(sent, late) PROVE Typed'
  <2>1. Delivered(cp3) \in Cp3Recs /\ [Delivered(cp3) EXCEPT !.state = "APP_SECURE"] \in Cp3Recs
    BY <1>0 DEF Delivered, Cp3Recs, Cp3States
  <2>2. CASE InvalidateCp3(Delivered(cp3), Sleeping)
    BY <1>0, <1>27, <1>c, <1>d, <2>1, <2>2, SleepingTyped, Invalidated DEF FinishedP
  <2>3. CASE sent /\ ~late /\ keys.app # 0 /\ ~keys.secure
    <3>a. /\ keys' = [keys EXCEPT !.secure = TRUE, !.rx = 0, !.tx = 0]
          /\ timer' = [timer EXCEPT !.due = Never, !.queued = FALSE]
      BY <1>27, <2>3 DEF FinishedP, CancelTimer
    <3>b. keys' \in KeyRecs
      BY <1>0, <3>a DEF KeyRecs
    <3>1. keys' \in KeyRecs /\ timer' \in TimerRecs
      BY <1>0, <3>a, <3>b DEF TimerRecs
    <3>2. Rest
      BY <1>0, <1>27, <2>1, <2>3, <3>1, SleepingTyped DEF FinishedP
    <3> QED BY <1>27, <1>c, <1>d, <3>2 DEF FinishedP
  <2> QED BY <1>27, <2>2, <2>3 DEF FinishedP
<1>28. CASE Cp4Result
  <2> DEFINE c == [cp3 EXCEPT !.worker = FALSE, !.delivery = TRUE]
             x == [w EXCEPT !.pc = "notify"]
  <2>1. c \in Cp3Recs /\ x \in Workers /\ [x EXCEPT !.conn = cp3.conn] \in Workers
    BY <1>0 DEF Cp3Recs, Workers
  <2>2. \/ cp3' = c /\ w' = [x EXCEPT !.conn = cp3.conn] /\ UNCHANGED <<timer, keys, slot>>
        \/ InvalidateCp3(c, x)
    BY <1>28 DEF Cp4Result
  <2> HIDE DEF c, x
  <2>3. Rest
    BY <1>0, <1>28, <2>1, <2>2, Invalidated DEF Cp4Result
  <2> QED BY <1>28, <1>a, <2>3 DEF Cp4Result
<1>29. CASE Cp4Finish
  <2>1. [cp3 EXCEPT !.delivery = FALSE] \in Cp3Recs
    BY <1>0 DEF Cp3Recs
  <2>2. CASE Commits4
    <3>1. Counted(keys) \in KeyRecs
      <4>1. keys.rx + 1 \in 0 .. SEQ_MAX /\ keys.tx + 1 \in 0 .. SEQ_MAX
        BY <1>0, <2>2, HandshakeAssumption DEF Commits4, KeyRecs
      <4> QED BY <1>0, <4>1 DEF Counted, KeyRecs
    <3>2. Rest
      BY <1>0, <1>29, <2>1, <2>2, <3>1, SleepingTyped DEF Cp4Finish
    <3> QED BY <1>29, <1>c, <1>d, <3>2 DEF Cp4Finish
  <2>3. CASE ~Commits4
    BY <1>0, <1>29, <1>c, <1>d, <2>1, <2>3, SleepingTyped, Invalidated DEF Cp4Finish
  <2> QED BY <2>2, <2>3
<1>30. CASE TimeoutRuns
  <2>1. Rest
    BY <1>0, <1>30 DEF TimeoutRuns, TimerRecs
  <2> QED BY <1>30, <1>a, <2>1 DEF TimeoutRuns
<1>31. CASE Timeout
  <2>1. CASE TimesOut /\ cp3.left = 0
    <3>1. /\ cp3' = Failed(cp3) /\ keys' = NoKeys
          /\ timer' = [due |-> Never, queued |-> FALSE, running |-> FALSE]
          /\ slot' = Retired(slot, Cp3Modes) /\ w' = Retired(w, Cp3Modes) /\ UNCHANGED cp2
      BY <1>31, <2>1 DEF Timeout
    <3>a. timer' \in TimerRecs
      BY <3>1 DEF TimerRecs
    <3>2. Rest
      BY <1>0, <3>1, <3>a, NoKeysTyped, FailedTyped, RetiredSlot, RetiredWorker
    <3> QED BY <1>31, <1>a, <3>2 DEF Timeout
  <2>2. CASE ~(TimesOut /\ cp3.left = 0)
    <3>1. PICK d : d = IF TimesOut THEN cp3.left ELSE timer.due
      OBVIOUS
    <3>2. d \in {Never} \cup (1 .. TIMEOUT)
      BY <1>0, <2>2, <3>1, HandshakeAssumption DEF TimerRecs, Cp3Recs
    <3>3. timer' = [timer EXCEPT !.due = d, !.running = FALSE]
      BY <1>0, <1>31, <2>2, <3>1 DEF Timeout, TimerRecs
    <3>4. timer' \in TimerRecs
      BY <1>0, <3>2, <3>3 DEF TimerRecs
    <3>5. Rest
      BY <1>0, <1>31, <2>2, <3>4 DEF Timeout
    <3> QED BY <1>31, <1>a, <3>5 DEF Timeout
  <2> QED BY <2>1, <2>2
<1>32. CASE Tick
  <2>1. cp3' \in Cp3Recs
    BY <1>0, <1>32, HandshakeAssumption DEF Tick, Cp3Recs
  <2>2. timer' \in TimerRecs
    <3>1. PICK d \in {Never} \cup (1 .. TIMEOUT) : d = IF timer.due > 1 THEN timer.due - 1 ELSE Never
      BY <1>0, HandshakeAssumption DEF TimerRecs
    <3>2. PICK q \in BOOLEAN : q = (timer.queued \/ timer.due = 1)
      OBVIOUS
    <3>3. timer' = [timer EXCEPT !.due = d, !.queued = q]
      BY <1>0, <1>32, <3>1, <3>2 DEF Tick, TimerRecs
    <3> QED BY <1>0, <3>3 DEF TimerRecs
  <2> QED BY <1>0, <1>32, <1>a, <2>1, <2>2 DEF Tick
<1>33. CASE UNCHANGED vars
  BY <1>0, <1>33, <1>a DEF vars
<1> HIDE DEF Rest, Plain
<1>34. HostNext => Typed'
  BY <1>1, <1>2, <1>3, <1>4, <1>5, <1>6, <1>7, <1>8, <1>9, <1>10, <1>11 DEF HostNext
<1>35. WorkerNext => Typed'
  BY <1>12, <1>13, <1>14, <1>15, <1>16, <1>17, <1>18, <1>19, <1>20, <1>21, <1>22, <1>23, <1>24,
     <1>25, <1>26, <1>27, <1>28, <1>29 DEF WorkerNext
<1> QED BY <1>30, <1>31, <1>32, <1>33, <1>34, <1>35 DEF Next, TimerNext

(* The initial state has the types. *)
LEMMA InitTyped == Init => Typed
<1> SUFFICES ASSUME Init PROVE Typed
  OBVIOUS
<1>0. 0 \in Conns /\ 0 \in 0 .. TIMEOUT
  BY HandshakeAssumption DEF Conns
<1>1. keys \in KeyRecs /\ w \in Workers
  BY NoKeysTyped, SleepingTyped DEF Init
<1>2. cp2 \in Cp2Recs /\ slot \in Jobs
  BY <1>0 DEF Init, NoCp2, NoJob, Cp2Recs, Jobs
<1>3. cp3 \in Cp3Recs /\ timer \in TimerRecs
  BY <1>0 DEF Init, NoCp3, Cp3Recs, Cp3States, TimerRecs
<1> QED BY <1>0, <1>1, <1>2, <1>3
        DEF Init, Typed, HandshakeTypeOK, WorkerTyped, LinkNamed, Cp2Recs, Cp3Recs, TimerRecs,
            KeyRecs

(* Every variable has its type at all times. *)
THEOREM TypeCorrect == Spec => []Typed
  BY InitTyped, TypedStep, PTL DEF Spec

-----------------------------------------------------------------------------
(* Two kinds of step that most actions are, said field by field.            *)
JobKept == slot'.pending = slot.pending /\ slot'.active = slot.active /\ slot'.mode = slot.mode
WorkerKept ==
    /\ w'.pc = w.pc /\ w'.mode = w.mode /\ w'.ok = w.ok /\ w'.app = w.app /\ w'.conn = w.conn
FlagsKept ==
    cp3'.worker = cp3.worker /\ cp3'.delivery = cp3.delivery /\ cp2'.active = cp2.active
(* Link notices and time leave the handshake and its jobs alone. *)
Still ==
    /\ UNCHANGED <<cur, gen, transfer, cp2, keys, slot, w, sealed>> /\ FlagsKept
    /\ cp3'.state = cp3.state
(* The session is erased and the jobs of the handshake are retired. *)
NewLink == gen' = gen + 1 /\ cur' \in {0, gen'}
Wipe ==
    /\ keys' = NoKeys /\ sealed' = sealed /\ cp3'.state \in {"IDLE", "FAILED"}
    /\ NewLink \/ (cur' = cur /\ gen' = gen /\ (cp3.state # "IDLE" => cp3'.state = "FAILED"))
    /\ ~(slot'.fresh /\ slot'.mode \in Cp3Modes) /\ ~(w'.fresh /\ w'.mode \in Cp3Modes)
(* Done by the host or the timer, it leaves the jobs where they are. *)
TransferKept ==
    \/ UNCHANGED <<transfer, cur>> /\ (cp3.state = "IDLE" => cp3'.state = "IDLE")
    \/ ctFrom' = 0 /\ ct' \in {"BUSY", "EMPTY"} /\ (cp2.active => ct' = "BUSY")
HostWipe == Wipe /\ JobKept /\ WorkerKept /\ FlagsKept /\ TransferKept

Inv == Typed /\ SlotInv /\ TransferInv /\ JobInv /\ SecretInv /\ SealInv

(* A host handler that erases the session: end and begin of a link, loss of *)
(* L4 or of the subscription, and a write that ends the session.            *)
LEMMA HostWipes ==
    ASSUME Typed, TransferInv,
           Connected \/ Disconnected \/ SecurityChanged \/ Unsubscribe \/ Cp4Denied
           \/ (Timeout /\ TimesOut /\ cp3.left = 0)
           \/ (InvalidateCp3(cp3, w) /\ UNCHANGED <<link, transfer, cp2, sealed>>)
    PROVE  HostWipe
<1>0. /\ cp2 \in Cp2Recs /\ cp3 \in Cp3Recs /\ slot \in Jobs /\ w \in Workers
  BY DEF Typed, HandshakeTypeOK, WorkerTyped, Cp2Recs, Cp3Recs
<1> USE DEF HostWipe, Wipe, JobKept, WorkerKept, FlagsKept, transfer, link
<1>1. CASE InvalidateCp3(cp3, w) /\ UNCHANGED <<link, transfer, cp2, sealed>>
  BY <1>0, <1>1, Invalidated DEF TransferKept
<1>2. CASE Cp4Denied
  BY <1>1, <1>2 DEF Cp4Denied
<1>3. CASE Timeout /\ TimesOut /\ cp3.left = 0
  <2>1. /\ cp3' = Failed(cp3) /\ keys' = NoKeys
        /\ slot' = Retired(slot, Cp3Modes) /\ w' = Retired(w, Cp3Modes)
        /\ UNCHANGED <<link, transfer, cp2, sealed>>
    BY <1>3 DEF Timeout
  <2>2. JobKept /\ ~(slot'.fresh /\ slot'.mode \in Cp3Modes)
    BY <1>0, <2>1, RetiredSlot
  <2>3. WorkerKept /\ ~(w'.fresh /\ w'.mode \in Cp3Modes)
    BY <1>0, <2>1, RetiredWorker
  <2> QED BY <1>0, <2>1, <2>2, <2>3, FailedTyped DEF TransferKept
<1>4. CASE Connected \/ Disconnected \/ SecurityChanged \/ Unsubscribe
  <2>1. /\ cp3' \in {Failed(cp3), [Failed(cp3) EXCEPT !.state = "IDLE"]} /\ keys' = NoKeys
        /\ slot' = [slot EXCEPT !.fresh = FALSE] /\ w' = [w EXCEPT !.fresh = FALSE]
        /\ cp2' \in {[cp2 EXCEPT !.valid = FALSE], [cp2 EXCEPT !.valid = FALSE, !.conn = 0]}
        /\ sealed' = sealed
    BY <1>4 DEF Connected, Disconnected, SecurityChanged, Unsubscribe, ForgetLink
  <2>2. JobKept /\ ~slot'.fresh
    BY <1>0, <2>1 DEF Jobs
  <2>3. WorkerKept /\ ~w'.fresh
    BY <1>0, <2>1 DEF Workers
  <2>4. [Failed(cp3) EXCEPT !.state = "IDLE"].worker = cp3.worker
        /\ [Failed(cp3) EXCEPT !.state = "IDLE"].delivery = cp3.delivery
        /\ [Failed(cp3) EXCEPT !.state = "IDLE"].state = "IDLE"
    BY ZenonT(40), <1>0, FailedTyped DEF Cp3Recs
  <2>5. cp2'.active = cp2.active
    BY <1>0, <2>1 DEF Cp2Recs
  <2>6. FlagsKept /\ cp3'.state \in {"IDLE", "FAILED"}
    BY <1>0, <2>1, <2>4, <2>5, FailedTyped
  <2>7. NewLink \/ (cur' = cur /\ gen' = gen /\ (cp3.state # "IDLE" => cp3'.state = "FAILED"))
    BY <1>0, <1>4, FailedTyped DEF NewLink, Connected, Disconnected, SecurityChanged, Unsubscribe
  <2>8. TransferKept
    <3>1. CASE Connected \/ Disconnected
      BY <1>0, <3>1 DEF TransferKept, Connected, Disconnected, ForgetLink, TransferInv, Draining,
                        Typed, HandshakeTypeOK
    <3>2. CASE SecurityChanged \/ Unsubscribe
      <4>1. cp3.state = "IDLE" => Failed(cp3).state = "IDLE"
        BY <1>0, FailedTyped
      <4> QED BY <1>0, <2>4, <3>2, <4>1 DEF TransferKept, SecurityChanged, Unsubscribe,
                        TransferInv, Draining, Typed, HandshakeTypeOK, ForgetLink
    <3> QED BY <1>4, <3>1, <3>2
  <2> QED BY <2>1, <2>2, <2>3, <2>6, <2>7, <2>8
<1> QED BY <1>1, <1>2, <1>3, <1>4

(* The other steps of host and clock that touch no job. *)
LEMMA StillSteps ==
    ASSUME Typed,
           SecurityUp \/ SecurityLost \/ Subscribe \/ TimeoutRuns \/ Tick \/ UNCHANGED vars
           \/ (Timeout /\ ~(TimesOut /\ cp3.left = 0))
    PROVE  Still
<1>1. cp3 \in Cp3Recs
  BY DEF Typed, HandshakeTypeOK, Cp3Recs
<1>2. CASE Tick
  <2>1. cp3'.state = cp3.state /\ cp3'.worker = cp3.worker /\ cp3'.delivery = cp3.delivery
    BY <1>1, <1>2 DEF Tick, Cp3Recs
  <2> QED BY <1>2, <2>1 DEF Tick, Still, FlagsKept, link
<1>3. CASE ~Tick
  <2>1. UNCHANGED <<cur, gen, transfer, cp2, cp3, keys, slot, w, sealed>>
    BY <1>3 DEF SecurityUp, SecurityLost, Subscribe, TimeoutRuns, Timeout, vars, link
  <2> QED BY <2>1 DEF Still, FlagsKept
<1> QED BY <1>2, <1>3

Parts == SlotInv /\ TransferInv /\ JobInv /\ SecretInv /\ SealInv

(* A step that touches no job keeps the invariant. *)
LEMMA StillInv ==
    ASSUME Inv, Still
    PROVE  Parts'
<1> USE DEF Inv, Still, FlagsKept, transfer
<1>1. SlotInv'
  BY DEF SlotInv, SlotTaken, WorkerFlag, DeliveryFlag, HasJob, Works
<1>2. TransferInv'
  BY DEF TransferInv, Draining
<1>3. JobInv'
  BY DEF JobInv, FreshJob, WaitsForJob, ResultKept, HasJob, Works
<1>4. SecretInv'
  BY DEF SecretInv, NoOrphanKeys, KeysOfThisLink, JobOfLink, HasJob, Works
<1>5. SealInv'
  BY DEF SealInv, SealedNamed, SealedBelow, Sealing, SecureKeyed
<1> QED BY <1>1, <1>2, <1>3, <1>4, <1>5 DEF Parts

(* After the session is erased nothing of it is left, and what was sealed   *)
(* belongs to a link that has ended or to one whose handshake has failed.   *)
LEMMA WipeInv ==
    ASSUME Inv, Wipe,
           w'.pc \in {"store", "open", "opened", "seal"} =>
               w'.pc = w.pc /\ w'.mode = w.mode /\ w'.app = w.app,
           w'.pc \in Delivering /\ w'.mode = "finished" => ~w'.ok
    PROVE  JobInv' /\ SecretInv' /\ SealInv'
<1>0. /\ cp3'.state \in {"IDLE", "FAILED"} /\ gen \in Int /\ sealed' = sealed
      /\ keys'.hs = 0 /\ keys'.app = 0 /\ keys'.secure = FALSE
  BY HandshakeAssumption DEF Inv, Wipe, Typed, HandshakeTypeOK, NoKeys, Conns
<1>1. JobInv'
  <2>1. FreshJob'
    BY DEF Wipe, FreshJob, HasJob, Works
  <2>2. WaitsForJob'
    BY <1>0 DEF WaitsForJob, StateOf
  <2> QED BY <1>0, <2>1, <2>2 DEF JobInv, ResultKept
<1>2. SecretInv'
  <2>1. JobOfLink'
    BY DEF Inv, SecretInv, JobOfLink, Wipe, HasJob, Works, Cp3Modes
  <2> QED BY <1>0, <2>1 DEF Wipe, SecretInv, NoOrphanKeys, KeysOfThisLink
<1>3. SealInv'
  <2>1. SealedNamed'
    BY <1>0 DEF Inv, SealInv, SealedNamed, Wipe, NewLink, Ended
  <2>2. Sealing'
    BY <1>0 DEF Inv, SealInv, Sealing, Wipe, NewLink, Ended
  <2> QED BY <1>0, <2>1, <2>2 DEF SealInv, SealedBelow, SecureKeyed
<1> QED BY <1>1, <1>2, <1>3

(* A handler that erases the session keeps the invariant. *)
LEMMA HostWipeInv ==
    ASSUME Inv, HostWipe
    PROVE  Parts'
<1> USE DEF HostWipe, JobKept, WorkerKept, FlagsKept
<1>1. SlotInv'
  BY DEF Inv, SlotInv, SlotTaken, WorkerFlag, DeliveryFlag, HasJob, Works
<1>2. TransferInv'
  BY DEF Inv, TransferInv, Draining, TransferKept, Wipe, NewLink, transfer
<1>3. JobInv' /\ SecretInv' /\ SealInv'
  <2>1. w'.pc \in Delivering /\ w'.mode = "finished" => ~w'.ok
    BY DEF Inv, JobInv, ResultKept
  <2> QED BY <2>1, WipeInv
<1> QED BY <1>1, <1>2, <1>3 DEF Parts

-----------------------------------------------------------------------------
(* What the flags tell a host handler: with the slot free and no job of the *)
(* handshake running, the worker holds nothing it could still store.        *)
LEMMA WorkerQuiet ==
    ASSUME SlotInv, SlotFree, ~cp3.worker
    PROVE  /\ w.pc \notin Busy \/ w.mode \notin Modes
           /\ w.pc \notin Computing /\ (w.pc # "idle" => w.mode # "cp2")
           /\ ~(w.pc = "result" /\ w.mode \in Modes)
  BY DEF SlotInv, SlotTaken, SlotFree, WorkerFlag, Works, Modes, Cp3Modes, Busy, Computing

(* A fragment: the transfer moves, nothing else. *)
LEMMA WriteInv ==
    ASSUME Inv, NEW next \in {"EMPTY", "RECEIVING", "READY"}, WriteCiphertext(next)
    PROVE  Parts'
<1> USE DEF Inv, WriteCiphertext, link
<1>1. SlotInv'
  BY DEF SlotInv, SlotTaken, WorkerFlag, DeliveryFlag, HasJob, Works
<1>2. TransferInv'
  BY DEF TransferInv, Draining, Writable
<1>3. JobInv'
  BY DEF JobInv, FreshJob, WaitsForJob, ResultKept, HasJob, Works
<1>4. SecretInv'
  BY DEF SecretInv, NoOrphanKeys, KeysOfThisLink, JobOfLink, HasJob, Works
<1>5. SealInv'
  BY DEF SealInv, SealedNamed, SealedBelow, Sealing, SecureKeyed
<1> QED BY <1>1, <1>2, <1>3, <1>4, <1>5 DEF Parts

(* START_CP2: a job of the diagnostic. *)
LEMMA Cp2StartInv ==
    ASSUME Inv, NEW good \in BOOLEAN, Cp2Start(good)
    PROVE  Parts'
<1>0. w \in Workers /\ w.mode \in Modes
  BY DEF Inv, Typed, WorkerTyped, Workers
<1>a. /\ cp2'.active /\ slot'.pending /\ ~slot'.active /\ slot'.mode = "cp2" /\ ct' = "BUSY"
      /\ ctFrom' = 0 /\ UNCHANGED <<cur, gen, cp3, keys, w, sealed>>
      /\ cp3.state = "IDLE" /\ ~cp3.worker /\ SlotFree
  BY DEF Cp2Start, Job, Starts2, Draining, link
<1>b. /\ w.pc \notin Computing /\ w.pc # "result" /\ (w.pc # "idle" => w.mode # "cp2")
  BY <1>0, <1>a, WorkerQuiet DEF Inv
<1>1. SlotInv'
  BY <1>a, <1>b DEF Inv, SlotInv, SlotTaken, WorkerFlag, DeliveryFlag, HasJob, Works, Cp3Modes
<1>2. TransferInv'
  BY <1>a DEF TransferInv
<1>3. JobInv'
  BY <1>a, <1>b
     DEF Inv, JobInv, FreshJob, WaitsForJob, ResultKept, StateOf, HasJob, Works, Cp3Modes, Busy
<1>4. SecretInv'
  BY <1>a DEF Inv, SecretInv, NoOrphanKeys, KeysOfThisLink, JobOfLink, HasJob, Works
<1>5. SealInv'
  BY <1>a DEF Inv, SealInv, SealedNamed, SealedBelow, Sealing, SecureKeyed
<1> QED BY <1>1, <1>2, <1>3, <1>4, <1>5 DEF Parts

(* START_CP3: the one handshake of the link, whose sessions so far sealed   *)
(* nothing.                                                                 *)
LEMMA Cp3StartInv ==
    ASSUME Inv, NEW good \in BOOLEAN, Cp3Start(good)
    PROVE  Parts'
<1>0. w \in Workers /\ w.mode \in Modes
  BY DEF Inv, Typed, WorkerTyped, Workers
<1>a. /\ cp3'.state = "CRYPTO_BUSY" /\ cp3'.worker /\ ~cp3'.delivery
      /\ slot'.pending /\ ~slot'.active /\ slot'.mode = "cp3" /\ slot'.fresh /\ slot'.from = ctFrom
      /\ ct' = "BUSY" /\ ctFrom' = 0 /\ UNCHANGED <<cur, gen, cp2, keys, w, sealed>>
      /\ cp3.state = "IDLE" /\ ~cp3.worker /\ ~cp3.delivery /\ SlotFree /\ ct = "READY"
      /\ keys.hs = 0 /\ keys.app = 0 /\ ~keys.secure
  BY DEF Cp3Start, Job, Starts3, Draining, link
<1>b. /\ w.pc \notin Busy /\ w.pc \notin Computing /\ w.pc # "result"
      /\ (w.pc # "idle" => w.mode # "cp2")
  BY <1>0, <1>a, WorkerQuiet DEF Inv, Busy
<1>c. ~(w.pc \in Delivering /\ w.mode \in Cp3Modes)
  BY <1>a DEF Inv, SlotInv, DeliveryFlag
<1>1. SlotInv'
  BY <1>a, <1>b, <1>c DEF Inv, SlotInv, SlotTaken, WorkerFlag, DeliveryFlag, HasJob, Works, Cp3Modes
<1>2. TransferInv'
  BY <1>a DEF TransferInv
<1>3. JobInv'
  BY <1>a, <1>b, <1>c
     DEF Inv, JobInv, FreshJob, WaitsForJob, ResultKept, StateOf, HasJob, Works, Cp3Modes
<1>4. SecretInv'
  BY <1>a, <1>b
     DEF Inv, TransferInv, SecretInv, NoOrphanKeys, KeysOfThisLink, JobOfLink, HasJob, Works
<1>5. SealInv'
  BY <1>a, <1>b DEF Inv, SealInv, SealedNamed, SealedBelow, Sealing, SecureKeyed, Ended, Computing
<1> QED BY <1>1, <1>2, <1>3, <1>4, <1>5 DEF Parts

(* FINISHED_C: accepted it is the next job of the handshake, refused it     *)
(* ends it.                                                                 *)
LEMMA FinishedCInv ==
    ASSUME Inv, NEW good \in BOOLEAN, FinishedC(good)
    PROVE  Parts'
<1>0. w \in Workers /\ w.mode \in Modes /\ cp3 \in Cp3Recs
  BY DEF Inv, Typed, HandshakeTypeOK, WorkerTyped, Workers, Cp3Recs
<1>1. CASE Live3 /\ SlotFree /\ keys.hs # 0
  <2>a. /\ cp3'.state = "FINISHED_P_BUSY" /\ cp3'.worker /\ cp3'.delivery = cp3.delivery
        /\ slot'.pending /\ ~slot'.active /\ slot'.mode = "finished" /\ slot'.fresh
        /\ UNCHANGED <<cur, gen, transfer, cp2, keys, w, sealed>>
        /\ cp3.state = "WAIT_FINISHED_C" /\ ~cp3.worker
    <3>1. /\ cp3' = [cp3 EXCEPT !.state = "FINISHED_P_BUSY", !.worker = TRUE]
          /\ slot' = Job("finished", cur, good) /\ Confirms
          /\ UNCHANGED <<link, transfer, cp2, keys, w, sealed>>
      BY <1>1 DEF FinishedC
    <3> QED BY <1>0, <3>1 DEF Job, Confirms, link, Cp3Recs
  <2>b. /\ w.pc \notin Busy /\ w.pc \notin Computing /\ w.pc # "result"
        /\ (w.pc # "idle" => w.mode # "cp2")
    BY <1>0, <1>1, <2>a, WorkerQuiet DEF Inv, Busy
  <2>1. SlotInv'
    BY <2>a, <2>b DEF Inv, SlotInv, SlotTaken, WorkerFlag, DeliveryFlag, HasJob, Works, Cp3Modes
  <2>2. TransferInv'
    BY <2>a DEF Inv, TransferInv, transfer
  <2>3. JobInv'
    BY <2>a, <2>b
       DEF Inv, JobInv, FreshJob, WaitsForJob, ResultKept, StateOf, HasJob, Works, Cp3Modes
  <2>4. SecretInv'
    BY <2>a, <2>b DEF Inv, SecretInv, NoOrphanKeys, KeysOfThisLink, JobOfLink, HasJob, Works
  <2>5. SealInv'
    BY <2>a, <2>b DEF Inv, SealInv, SealedNamed, SealedBelow, Sealing, SecureKeyed, Ended, Computing
  <2> QED BY <2>1, <2>2, <2>3, <2>4, <2>5 DEF Parts
<1>2. CASE ~(Live3 /\ SlotFree /\ keys.hs # 0)
  BY <1>2, HostWipes, HostWipeInv DEF FinishedC, Inv
<1> QED BY <1>1, <1>2

(* The next PING: its number is reserved until the PONG is committed. *)
LEMMA Cp4PingInv ==
    ASSUME Inv, NEW seq, NEW good \in BOOLEAN, Cp4Ping(seq, good)
    PROVE  Parts'
<1>0. w \in Workers /\ w.mode \in Modes /\ cp3 \in Cp3Recs /\ keys \in KeyRecs
  BY DEF Inv, Typed, HandshakeTypeOK, WorkerTyped, Workers, Cp3Recs, KeyRecs
<1>a. /\ cp3'.state = cp3.state /\ cp3'.worker /\ cp3'.delivery = cp3.delivery
      /\ slot'.pending /\ ~slot'.active /\ slot'.mode = "cp4" /\ slot'.fresh
      /\ UNCHANGED <<cur, gen, transfer, cp2, w, sealed>>
      /\ cp3.state = "APP_SECURE" /\ ~cp3.worker /\ SlotFree
  BY <1>0 DEF Cp4Ping, Accepts4, Live4, Job, Draining, link, Cp3Recs
<1>b. /\ keys'.hs = keys.hs /\ keys'.app = keys.app /\ keys'.secure = keys.secure
      /\ keys'.tx = keys.tx /\ keys'.pend
  BY <1>0 DEF Cp4Ping, KeyRecs
<1>c. /\ w.pc \notin Busy /\ w.pc \notin Computing /\ w.pc # "result"
      /\ (w.pc # "idle" => w.mode # "cp2")
  BY <1>0, <1>a, WorkerQuiet DEF Inv, Busy
<1>1. SlotInv'
  BY <1>a, <1>c DEF Inv, SlotInv, SlotTaken, WorkerFlag, DeliveryFlag, HasJob, Works, Cp3Modes
<1>2. TransferInv'
  BY <1>a DEF Inv, TransferInv, transfer
<1>3. JobInv'
  BY <1>a, <1>c DEF Inv, JobInv, FreshJob, WaitsForJob, ResultKept, StateOf, HasJob, Works, Cp3Modes
<1>4. SecretInv'
  BY <1>a, <1>b, <1>c DEF Inv, SecretInv, NoOrphanKeys, KeysOfThisLink, JobOfLink, HasJob, Works
<1>5. SealInv'
  BY <1>a, <1>b, <1>c DEF Inv, SealInv, SealedNamed, SealedBelow, Sealing, SecureKeyed, Computing
<1> QED BY <1>1, <1>2, <1>3, <1>4, <1>5 DEF Parts

-----------------------------------------------------------------------------
(* The worker takes a job out of the slot. *)
LEMMA TakeJobInv ==
    ASSUME Inv, TakeJob
    PROVE  Parts'
<1>0. slot \in Jobs /\ slot.mode \in Modes
  BY DEF Inv, Typed, HandshakeTypeOK, Jobs, Modes
<1>a. /\ w.pc = "idle" /\ slot.pending /\ ~slot'.pending /\ slot'.active
      /\ w'.pc \in {"run", "done"} /\ w'.mode = slot.mode /\ w'.from = slot.from
      /\ w'.fresh = slot.fresh /\ UNCHANGED <<cur, gen, transfer, cp2, cp3, keys, sealed>>
  BY <1>0 DEF TakeJob, Sleeping, Jobs, link
<1>1. SlotInv'
  BY <1>0, <1>a
     DEF Inv, SlotInv, SlotTaken, WorkerFlag, DeliveryFlag, HasJob, Works, Computing, Delivering
<1>2. TransferInv'
  BY <1>a DEF Inv, TransferInv, Draining, transfer
<1>3. JobInv'
  BY <1>a DEF Inv, JobInv, FreshJob, WaitsForJob, ResultKept, HasJob, Works, Delivering
<1>4. SecretInv'
  BY <1>a DEF Inv, SecretInv, NoOrphanKeys, KeysOfThisLink, JobOfLink, HasJob, Works
<1>5. SealInv'
  BY <1>a DEF Inv, SealInv, SealedNamed, SealedBelow, Sealing, SecureKeyed
<1> QED BY <1>1, <1>2, <1>3, <1>4, <1>5 DEF Parts

(* A step of the worker inside its job that leaves the session alone. *)
Computes ==
    /\ w.pc \in Computing \cup Delivering /\ w'.mode = w.mode /\ w'.from = w.from
    /\ w'.fresh = w.fresh /\ UNCHANGED <<cur, gen, transfer, cp2, cp3, slot>>
    /\ \/ w.pc \in Computing /\ w'.pc \in Computing
       \/ w.pc \in Delivering /\ w'.pc \in Delivering /\ w'.conn = w.conn /\ w'.ok = w.ok

(* It keeps the slot, the transfer and the link between job and state. *)
LEMMA ComputesInv ==
    ASSUME Inv, Computes
    PROVE  SlotInv' /\ TransferInv' /\ JobInv'
<1>0. w.pc # "idle" /\ w'.pc # "idle" /\ w'.pc \notin {"result", "release"}
  BY DEF Computes, Computing, Delivering
<1>1. SlotInv'
  BY <1>0
     DEF Computes, Inv, SlotInv, SlotTaken, WorkerFlag, DeliveryFlag, HasJob, Works, Computing,
         Delivering,
         Busy
<1>2. TransferInv'
  BY DEF Computes, Inv, TransferInv, Draining, transfer
<1>3. FreshJob' /\ WaitsForJob'
  BY <1>0
     DEF Computes, Inv, JobInv, FreshJob, WaitsForJob, HasJob, Works, Computing, Delivering, Busy
<1>4. ResultKept'
  BY DEF Computes, Inv, JobInv, ResultKept, Computing, Delivering
<1> QED BY <1>1, <1>2, <1>3, <1>4 DEF JobInv

(* CP2 computes or notifies, CP3 and CP4 notify: no secret moves. *)
LEMMA PlainComputeInv ==
    ASSUME Inv,
           Cp2Compute \/ (\E sent \in BOOLEAN : Cp2Notify(sent) \/ Cp3Notify(sent) \/ Cp4Notify(sent))
    PROVE  Parts'
<1>0. w \in Workers
  BY DEF Inv, Typed, WorkerTyped
<1>a. Computes /\ w'.pc \in {"done", "finish"} /\ UNCHANGED <<keys, sealed>>
  BY <1>0
     DEF Cp2Compute, Cp2Notify, Cp3Notify, Cp4Notify, Computes, Computing, Delivering, link, Workers
<1>4. SecretInv'
  BY <1>a
     DEF Computes, Inv, SecretInv, NoOrphanKeys, KeysOfThisLink, JobOfLink, HasJob, Works, Busy,
         Computing,
         Delivering
<1>5. SealInv'
  BY <1>a DEF Computes, Inv, SealInv, SealedNamed, SealedBelow, Sealing, SecureKeyed
<1> QED BY <1>a, <1>4, <1>5, ComputesInv DEF Parts

(* The handshake secret is stored for the link that waits for it, or not    *)
(* at all.                                                                  *)
LEMMA Cp3ComputeInv ==
    ASSUME Inv, Cp3Compute
    PROVE  Parts'
<1>0. w \in Workers /\ keys \in KeyRecs
  BY DEF Inv, Typed, HandshakeTypeOK, WorkerTyped, KeyRecs
<1>a. Computes /\ w'.pc = "done" /\ w.pc = "run" /\ w.mode = "cp3" /\ sealed' = sealed
  BY <1>0 DEF Cp3Compute, Computes, Computing, link, Workers
<1>b. \/ keys' = keys
      \/ /\ w.fresh /\ keys'.hs = w.from /\ keys'.app = keys.app /\ keys'.secure = keys.secure
         /\ keys'.tx = keys.tx /\ keys'.pend = keys.pend
  BY <1>0 DEF Cp3Compute, KeyRecs
<1>c. w.fresh => cp3.state = "CRYPTO_BUSY" /\ w.from = cur
  BY <1>a DEF Inv, JobInv, FreshJob, StateOf, SecretInv, JobOfLink, Works, Cp3Modes, Busy, Computing
<1>4. SecretInv'
  <2>1. JobOfLink'
    BY <1>a DEF Computes, Inv, SecretInv, JobOfLink, HasJob, Works, Busy, Computing
  <2> QED BY <1>a, <1>b, <1>c, <2>1 DEF Computes, Inv, SecretInv, NoOrphanKeys, KeysOfThisLink
<1>5. SealInv'
  BY <1>a, <1>b DEF Computes, Inv, SealInv, SealedNamed, SealedBelow, Sealing, SecureKeyed
<1> QED BY <1>a, <1>4, <1>5, ComputesInv DEF Parts

(* The worker takes the secret of this link, if it is there. *)
LEMMA FinishedTakeInv ==
    ASSUME Inv, FinishedTake
    PROVE  Parts'
<1>0. w \in Workers /\ keys \in KeyRecs
  BY DEF Inv, Typed, HandshakeTypeOK, WorkerTyped, KeyRecs
<1>1. CASE w.fresh /\ keys.hs # 0
  <2>1. /\ w' = [w EXCEPT !.pc = "store", !.hs = keys.hs] /\ keys' = [keys EXCEPT !.hs = 0]
        /\ w.pc = "run" /\ w.mode = "finished"
        /\ UNCHANGED <<link, transfer, cp2, cp3, slot, sealed>>
    BY <1>1 DEF FinishedTake
  <2>2. /\ w'.pc = "store" /\ w'.hs = keys.hs /\ w'.mode = w.mode /\ w'.from = w.from
        /\ w'.fresh = w.fresh
    BY <1>0, <2>1 DEF Workers
  <2>3. Computes
    BY <2>1, <2>2 DEF Computes, Computing, link
  <2>4. /\ keys'.hs = 0 /\ keys'.app = keys.app /\ keys'.secure = keys.secure
        /\ keys'.tx = keys.tx /\ keys'.pend = keys.pend
    BY <1>0, <2>1 DEF KeyRecs
  <2>5. cp3.state = "FINISHED_P_BUSY" /\ keys.hs = cur
    BY <1>1, <2>1
       DEF Inv, JobInv, FreshJob, StateOf, SecretInv, KeysOfThisLink, Works, Cp3Modes, Busy,
           Computing
  <2>6. JobOfLink'
    BY <2>1, <2>2, <2>3, <2>5 DEF Computes, Inv, SecretInv, JobOfLink, HasJob, Works, Busy, Computing
  <2>7. SecretInv'
    BY <2>3, <2>4, <2>5, <2>6 DEF Computes, Inv, SecretInv, NoOrphanKeys, KeysOfThisLink
  <2>8. SealInv'
    BY <2>1, <2>2, <2>3, <2>4
       DEF Computes, Inv, SealInv, SealedNamed, SealedBelow, Sealing, SecureKeyed
  <2> QED BY <2>3, <2>7, <2>8, ComputesInv DEF Parts
<1>2. CASE ~(w.fresh /\ keys.hs # 0)
  <2>1. /\ w' = [w EXCEPT !.pc = "done"] /\ keys' = keys /\ w.pc = "run" /\ w.mode = "finished"
        /\ UNCHANGED <<link, transfer, cp2, cp3, slot, sealed>>
    BY <1>2 DEF FinishedTake
  <2>2. w'.pc = "done" /\ w'.mode = w.mode /\ w'.from = w.from /\ w'.fresh = w.fresh
    BY <1>0, <2>1 DEF Workers
  <2>3. Computes
    BY <2>1, <2>2 DEF Computes, Computing, link
  <2>4. SecretInv'
    BY <2>1, <2>2, <2>3
       DEF Computes, Inv, SecretInv, NoOrphanKeys, KeysOfThisLink, JobOfLink, HasJob, Works, Busy,
           Computing
  <2>5. SealInv'
    BY <2>1, <2>2, <2>3 DEF Computes, Inv, SealInv, SealedNamed, SealedBelow, Sealing, SecureKeyed
  <2> QED BY <2>3, <2>4, <2>5, ComputesInv DEF Parts
<1> QED BY <1>1, <1>2

(* The application key is stored for the link that waits for it, or not at  *)
(* all.                                                                     *)
LEMMA FinishedStoreInv ==
    ASSUME Inv, FinishedStore
    PROVE  Parts'
<1>0. w \in Workers /\ keys \in KeyRecs
  BY DEF Inv, Typed, HandshakeTypeOK, WorkerTyped, KeyRecs
<1>a. Computes /\ w'.pc = "done" /\ w.pc = "store" /\ sealed' = sealed
  BY <1>0 DEF FinishedStore, Computes, Computing, link, Workers
<1>b. \/ keys' = keys
      \/ /\ w.fresh /\ keys'.app = w.hs /\ keys'.hs = keys.hs /\ keys'.secure = keys.secure
  BY <1>0 DEF FinishedStore, KeyRecs
<1>c. w.fresh => cp3.state = "FINISHED_P_BUSY" /\ w.hs = cur
  BY <1>a DEF Inv, JobInv, FreshJob, StateOf, SecretInv, JobOfLink, Works, Cp3Modes, Busy, Computing
<1>4. SecretInv'
  <2>1. JobOfLink'
    BY <1>a DEF Computes, Inv, SecretInv, JobOfLink, HasJob, Works, Busy, Computing
  <2> QED BY <1>a, <1>b, <1>c, <2>1 DEF Computes, Inv, SecretInv, NoOrphanKeys, KeysOfThisLink
<1>5. SealInv'
  <2>1. keys' = keys \/ ~keys'.secure
    BY <1>b, <1>c DEF Inv, SecretInv, KeysOfThisLink
  <2> QED BY <1>a, <2>1 DEF Computes, Inv, SealInv, SealedNamed, SealedBelow, Sealing, SecureKeyed
<1> QED BY <1>a, <1>4, <1>5, ComputesInv DEF Parts

(* PING opened: the worker holds the key and the number of the open PONG. *)
LEMMA Cp4OpenInv ==
    ASSUME Inv, Cp4Open
    PROVE  Parts'
<1>0. w \in Workers /\ gen \in Nat
  BY HandshakeAssumption DEF Inv, Typed, HandshakeTypeOK, WorkerTyped, Conns
<1>a. /\ Computes /\ w.pc = "open" /\ UNCHANGED <<keys, sealed>>
      /\ \/ w'.pc = "done"
         \/ w'.pc = "opened" /\ w'.app = keys.app /\ w'.tx = keys.tx /\ keys.secure /\ keys.pend
  BY <1>0 DEF Cp4Open, Computes, Computing, link, Workers
<1>4. SecretInv'
  BY <1>a
     DEF Computes, Inv, SecretInv, NoOrphanKeys, KeysOfThisLink, JobOfLink, HasJob, Works, Busy,
         Computing
<1>5. SealInv'
  <2>1. Sealing'
    BY <1>0, <1>a
       DEF Computes, Inv, Typed, LinkNamed, SecretInv, KeysOfThisLink, SealInv, SecureKeyed,
           Sealing, Ended
  <2> QED BY <1>a, <2>1 DEF Computes, Inv, SealInv, SealedNamed, SealedBelow, SecureKeyed
<1> QED BY <1>a, <1>4, <1>5, ComputesInv DEF Parts

(* PONG sealed: the number joins those used with this key. *)
LEMMA Cp4SealInv ==
    ASSUME Inv, Cp4Seal
    PROVE  Parts'
<1>0. w \in Workers /\ keys \in KeyRecs
  BY DEF Inv, Typed, HandshakeTypeOK, WorkerTyped, KeyRecs
<1>a. Computes /\ w'.pc = "done" /\ w.pc = "seal" /\ sealed' = sealed \cup {<<w.app, w.tx>>}
  BY <1>0 DEF Cp4Seal, Computes, Computing, link, Workers
<1>b. /\ keys'.hs = keys.hs /\ keys'.app = keys.app /\ keys'.secure = keys.secure
      /\ keys'.tx = keys.tx /\ keys'.pend = keys.pend /\ (keys = NoKeys => keys' = keys)
  BY <1>0 DEF Cp4Seal, KeyRecs, NoKeys
<1>4. SecretInv'
  <2>1. JobOfLink'
    BY <1>a DEF Computes, Inv, SecretInv, JobOfLink, HasJob, Works, Busy, Computing
  <2> QED BY <1>a, <1>b, <2>1 DEF Computes, Inv, SecretInv, NoOrphanKeys, KeysOfThisLink
<1>5. SealInv'
  <2>1. Sealing BY DEF Inv, SealInv
  <2>2. SealedNamed'
    BY <1>a, <2>1 DEF Computes, Inv, SealInv, SealedNamed, Sealing
  <2>3. SealedBelow'
    BY <1>a, <1>b, <2>1 DEF Computes, Inv, SealInv, SealedBelow, Sealing
  <2> QED BY <1>a, <1>b, <2>2, <2>3 DEF Computes, Inv, SealInv, Sealing, SecureKeyed
<1> QED BY <1>a, <1>4, <1>5, ComputesInv DEF Parts

(* job_done frees the slot, except for CP2. *)
LEMMA JobDoneInv ==
    ASSUME Inv, JobDone
    PROVE  Parts'
<1>0. w \in Workers /\ slot \in Jobs
  BY DEF Inv, Typed, HandshakeTypeOK, WorkerTyped
<1>a. /\ w.pc = "done" /\ w'.pc = "result" /\ w'.mode = w.mode /\ w'.from = w.from
      /\ w'.fresh = w.fresh /\ slot'.pending = slot.pending /\ slot'.mode = slot.mode
      /\ slot'.fresh = slot.fresh /\ slot'.from = slot.from /\ (slot'.active <=> w.mode = "cp2")
      /\ UNCHANGED <<cur, gen, transfer, cp2, cp3, keys, sealed>>
  BY <1>0 DEF JobDone, Workers, Jobs, link
<1>1. SlotInv'
  BY <1>a
     DEF Inv, SlotInv, SlotTaken, WorkerFlag, DeliveryFlag, HasJob, Works, Busy, Computing,
         Delivering
<1>2. TransferInv'
  BY <1>a DEF Inv, TransferInv, Draining, transfer
<1>3. JobInv'
  BY <1>a
     DEF Inv, JobInv, FreshJob, WaitsForJob, ResultKept, HasJob, Works, Busy, Computing, Delivering
<1>4. SecretInv'
  BY <1>a DEF Inv, SecretInv, NoOrphanKeys, KeysOfThisLink, JobOfLink, HasJob, Works, Busy, Computing
<1>5. SealInv'
  BY <1>a DEF Inv, SealInv, SealedNamed, SealedBelow, Sealing, SecureKeyed
<1> QED BY <1>1, <1>2, <1>3, <1>4, <1>5 DEF Parts

(* The worker erases the session itself, and goes on as x. *)
LEMMA WorkerWipe ==
    ASSUME Inv, NEW c \in Cp3Recs, NEW x \in Workers, InvalidateCp3(c, x), c.state = cp3.state,
           UNCHANGED <<link, cp2, sealed>>, x.pc \in {"idle", "done", "notify"},
           x.pc = "notify" => x.mode # "finished"
    PROVE  /\ JobInv' /\ SecretInv' /\ SealInv' /\ JobKept
           /\ w'.pc = x.pc /\ w'.mode = x.mode /\ cur' = cur /\ cp2' = cp2
           /\ cp3'.worker = c.worker /\ cp3'.delivery = c.delivery
           /\ (cp3'.state = "IDLE" <=> cp3.state = "IDLE")
<1>1. /\ cp3'.state = (IF c.state = "IDLE" THEN "IDLE" ELSE "FAILED") /\ keys' = NoKeys
      /\ cp3'.worker = c.worker /\ cp3'.delivery = c.delivery
      /\ JobKept /\ (slot'.fresh => slot.mode \notin Cp3Modes)
      /\ w'.pc = x.pc /\ w'.mode = x.mode /\ (w'.fresh => x.mode \notin Cp3Modes)
  BY Invalidated DEF Inv, JobKept
<1>2. Wipe
  BY <1>1 DEF Wipe, JobKept, link
<1>3. JobInv' /\ SecretInv' /\ SealInv'
  BY <1>1, <1>2, WipeInv DEF Delivering
<1> QED BY <1>1, <1>3 DEF link

(* pq_v1_cp4_job_live between the steps of a CP4 job. *)
LEMMA Cp4CheckInv ==
    ASSUME Inv, Cp4Check("run", "open") \/ Cp4Check("opened", "seal")
    PROVE  Parts'
<1>0. w \in Workers /\ cp3 \in Cp3Recs /\ 0 \in Conns
  BY HandshakeAssumption DEF Inv, Typed, HandshakeTypeOK, WorkerTyped, Cp3Recs, Conns
<1>b. [w EXCEPT !.pc = "done", !.app = 0] \in Workers
  BY <1>0 DEF Workers, Pcs, Computing
<1>a. /\ w.pc \in {"run", "opened"} /\ w.mode = "cp4"
      /\ UNCHANGED <<link, transfer, cp2, sealed>>
  BY DEF Cp4Check
<1>1. CASE cp3.worker /\ Live4
  <2>1. PICK to \in {"open", "seal"} :
            /\ w' = [w EXCEPT !.pc = to] /\ UNCHANGED <<cp3, keys, slot>>
            /\ (to = "seal" => w.pc = "opened")
    BY <1>1 DEF Cp4Check
  <2>2. /\ w'.pc = to /\ w'.mode = w.mode /\ w'.from = w.from /\ w'.fresh = w.fresh
        /\ w'.app = w.app /\ w'.tx = w.tx
    BY <1>0, <2>1 DEF Workers
  <2>3. Computes
    BY <1>a, <2>1, <2>2 DEF Computes, Computing, link
  <2>4. SecretInv'
    BY <1>a, <2>1, <2>2, <2>3
       DEF Computes, Inv, SecretInv, NoOrphanKeys, KeysOfThisLink, JobOfLink, HasJob, Works
  <2>5. SealInv'
    BY <1>a, <2>1, <2>2, <2>3
       DEF Computes, Inv, SealInv, SealedNamed, SealedBelow, Sealing, SecureKeyed
  <2> QED BY <2>3, <2>4, <2>5, ComputesInv DEF Parts
<1>2. CASE ~(cp3.worker /\ Live4)
  <2> DEFINE x == [w EXCEPT !.pc = "done", !.app = 0]
  <2>1. InvalidateCp3(cp3, x) /\ x \in Workers /\ x.pc = "done" /\ x.mode = "cp4"
    BY <1>0, <1>a, <1>b, <1>2 DEF Cp4Check, Workers
  <2> HIDE DEF x
  <2>2. /\ JobInv' /\ SecretInv' /\ SealInv' /\ JobKept /\ w'.pc = "done" /\ w'.mode = "cp4"
        /\ cur' = cur /\ cp2' = cp2 /\ cp3'.worker = cp3.worker /\ cp3'.delivery = cp3.delivery
        /\ (cp3'.state = "IDLE" <=> cp3.state = "IDLE")
    BY <1>0, <1>a, <2>1, WorkerWipe
  <2>3. SlotInv'
    BY <1>a, <2>2
       DEF JobKept, Inv, SlotInv, SlotTaken, WorkerFlag, DeliveryFlag, HasJob, Works, Busy,
           Computing, Delivering
  <2>4. TransferInv'
    BY <1>a, <2>2 DEF Inv, TransferInv, Draining, transfer
  <2> QED BY <2>2, <2>3, <2>4 DEF Parts
<1> QED BY <1>1, <1>2

(* The sections of the CP2 delivery. *)
LEMMA Cp2DeliverInv ==
    ASSUME Inv, Cp2Result \/ Cp2Finish \/ Cp2Release
    PROVE  Parts'
<1>0. w \in Workers /\ cp2 \in Cp2Recs /\ slot \in Jobs
  BY DEF Inv, Typed, HandshakeTypeOK, WorkerTyped, Cp2Recs
<1>a. /\ UNCHANGED <<cur, gen, cp3, keys, sealed>> /\ w.pc \in {"result", "finish", "release"}
      /\ w.mode = "cp2"
  BY DEF Cp2Result, Cp2Finish, Cp2Release, link, Inv, SlotInv, SlotTaken
<1>b. \/ w'.pc \in {"notify", "release"} /\ w'.mode = "cp2" /\ slot' = slot
      \/ /\ w'.pc = "idle" /\ w'.mode = "none" /\ ~slot'.active /\ slot'.pending = slot.pending
         /\ slot'.mode = slot.mode /\ slot'.fresh = slot.fresh /\ slot'.from = slot.from
  <2>1. CASE Cp2Result \/ Cp2Finish
    BY <1>0, <1>a, <2>1 DEF Cp2Result, Cp2Finish, Workers
  <2>2. CASE Cp2Release
    BY <1>0, <2>2 DEF Cp2Release, Sleeping, Jobs
  <2> QED BY <2>1, <2>2
<1>c. \/ cp2'.active = cp2.active /\ UNCHANGED transfer
      \/ ~cp2'.active /\ ct' = "EMPTY" /\ ctFrom' = 0
  BY <1>0 DEF Cp2Result, Cp2Finish, Cp2Release, Cp2Recs
<1>1. SlotInv'
  BY <1>a, <1>b
     DEF Inv, SlotInv, SlotTaken, WorkerFlag, DeliveryFlag, HasJob, Works, Busy, Computing,
         Delivering, Cp3Modes
<1>2. TransferInv'
  BY <1>a, <1>c DEF Inv, TransferInv, Draining, transfer
<1>3. JobInv'
  BY <1>a, <1>b
     DEF Inv, JobInv, FreshJob, WaitsForJob, ResultKept, HasJob, Works, Busy, Computing, Delivering,
         Cp3Modes
<1>4. SecretInv'
  BY <1>a, <1>b
     DEF Inv, SecretInv, NoOrphanKeys, KeysOfThisLink, JobOfLink, HasJob, Works, Busy, Computing
<1>5. SealInv'
  BY <1>a, <1>b DEF Inv, SealInv, SealedNamed, SealedBelow, Sealing, SecureKeyed
<1> QED BY <1>1, <1>2, <1>3, <1>4, <1>5 DEF Parts

(* The first section of the CP3 delivery arms WAIT_FINISHED_C. *)
LEMMA Cp3ResultInv ==
    ASSUME Inv, Cp3Result
    PROVE  Parts'
<1>0. w \in Workers /\ cp3 \in Cp3Recs
  BY DEF Inv, Typed, HandshakeTypeOK, WorkerTyped, Cp3Recs
<1>a. /\ w.pc = "result" /\ w.mode \in {"cp3", "finished"} /\ (w.mode = "cp3" \/ ~w.ok)
      /\ UNCHANGED <<cur, gen, transfer, cp2, keys, slot, sealed>>
  BY DEF Cp3Result, link
<1>b. PICK s \in Cp3States : s = IF Deliver3 /\ w.ok THEN "WAIT_FINISHED_C" ELSE cp3.state
  BY <1>0 DEF Cp3Recs, Cp3States
<1>c. cp3' = [cp3 EXCEPT !.worker = FALSE, !.delivery = TRUE, !.state = s]
  BY <1>0, <1>b DEF Cp3Result, Cp3Recs
<1>d. ~cp3'.worker /\ cp3'.delivery /\ cp3'.state = s
  BY <1>0, <1>c DEF Cp3Recs
<1>e. /\ w'.pc = "notify" /\ w'.mode = w.mode /\ w'.fresh = w.fresh /\ w'.ok = w.ok
      /\ w'.from = w.from /\ (w'.conn # 0 => Deliver3)
  BY <1>0 DEF Cp3Result, Workers
<1>f. s = cp3.state \/ (s = "WAIT_FINISHED_C" /\ cp3.state \in {"CRYPTO_BUSY", "FINISHED_P_BUSY"})
  BY <1>b DEF Deliver3, Expected
<1>g. cp3.worker /\ ~slot.pending
  BY <1>a DEF Inv, SlotInv, SlotTaken, WorkerFlag, Works, Busy, Cp3Modes
<1>1. SlotInv'
  BY <1>a, <1>d, <1>e, <1>g
     DEF Inv, SlotInv, SlotTaken, WorkerFlag, DeliveryFlag, HasJob, Works, Busy, Computing,
         Delivering
<1>2. TransferInv'
  BY <1>a, <1>g DEF Inv, TransferInv, Draining, transfer
<1>3. JobInv'
  <2>1. FreshJob'
    BY <1>a, <1>e, <1>g DEF FreshJob, HasJob, Works, Busy, Computing
  <2>2. WaitsForJob'
    BY <1>a, <1>d, <1>e, <1>f, <1>g DEF Inv, JobInv, WaitsForJob, HasJob, StateOf
  <2>3. ResultKept'
    BY <1>a, <1>b, <1>d, <1>e DEF ResultKept
  <2> QED BY <2>1, <2>2, <2>3 DEF JobInv
<1>4. SecretInv'
  BY <1>a, <1>d, <1>e, <1>f, <1>g
     DEF Inv, SecretInv, NoOrphanKeys, KeysOfThisLink, JobOfLink, HasJob, Works, Busy, Computing
<1>5. SealInv'
  BY <1>a, <1>d, <1>e, <1>f DEF Inv, SealInv, SealedNamed, SealedBelow, Sealing, SecureKeyed, Ended
<1> QED BY <1>1, <1>2, <1>3, <1>4, <1>5 DEF Parts

(* The end of a delivery gives the transfer up only when no job of CP2      *)
(* holds it.                                                                *)
LEMMA DrainTransfer ==
    ASSUME Inv, NEW c, Drain(c), cur' = cur, cp2' = cp2,
           cp3'.worker => cp3.worker, cp3'.delivery => cp3.delivery,
           cp3'.state # "IDLE" => cp3.state # "IDLE"
    PROVE  TransferInv'
  BY DEF Inv, TransferInv, Draining, Drain, transfer

(* The last section of a delivery that ends the handshake. *)
LEMMA LastSectionWipe ==
    ASSUME Inv, NEW c \in Cp3Recs, InvalidateCp3(c, Sleeping), c.state = cp3.state, Drain(cp3'),
           UNCHANGED <<link, cp2, sealed>>, w.pc \in {"result", "finish"}, w.mode \in Cp3Modes,
           c.worker => cp3.worker, c.delivery => cp3.delivery,
           w.pc = "finish" => (cp3.worker => c.worker)
    PROVE  Parts'
<1>1. Sleeping \in Workers /\ Sleeping.pc = "idle" /\ Sleeping.mode = "none"
  BY SleepingTyped DEF Sleeping
<1>2. /\ JobInv' /\ SecretInv' /\ SealInv' /\ JobKept /\ w'.pc = "idle" /\ w'.mode = "none"
      /\ cur' = cur /\ cp2' = cp2 /\ cp3'.worker = c.worker /\ cp3'.delivery = c.delivery
      /\ (cp3'.state = "IDLE" <=> cp3.state = "IDLE")
  <2> HIDE DEF Sleeping
  <2> QED BY <1>1, WorkerWipe
<1>3. TransferInv'
  BY <1>2, DrainTransfer
<1>4. SlotInv'
  BY <1>2
     DEF JobKept, Inv, SlotInv, SlotTaken, WorkerFlag, DeliveryFlag, HasJob, Works, Busy, Computing,
         Delivering,
         Cp3Modes
<1> QED BY <1>2, <1>3, <1>4 DEF Parts

(* The last section of the CP3 delivery: WAIT_FINISHED_C stays armed, or    *)
(* FINISHED_C is in the slot already, or the handshake has failed.          *)
LEMMA Cp3FinishInv ==
    ASSUME Inv, Cp3Finish
    PROVE  Parts'
<1>0. cp3 \in Cp3Recs
  BY DEF Inv, Typed, HandshakeTypeOK, Cp3Recs
<1> DEFINE c == [cp3 EXCEPT !.delivery = FALSE]
<1>a. /\ c \in Cp3Recs /\ c.state = cp3.state /\ c.worker = cp3.worker /\ ~c.delivery
  BY <1>0 DEF Cp3Recs
<1>b. /\ w.pc = "finish" /\ w.mode \in {"cp3", "finished"} /\ Drain(cp3')
      /\ UNCHANGED <<link, cp2, sealed>>
  BY DEF Cp3Finish
<1>c. \/ Current3 /\ w.ok /\ cp3' = c /\ w' = Sleeping /\ UNCHANGED <<keys, slot>>
      \/ InvalidateCp3(c, Sleeping)
  BY DEF Cp3Finish
<1> HIDE DEF c
<1>1. CASE InvalidateCp3(c, Sleeping)
  BY <1>a, <1>b, <1>1, LastSectionWipe DEF Cp3Modes
<1>2. CASE Current3 /\ w.ok /\ cp3' = c /\ w' = Sleeping /\ UNCHANGED <<keys, slot>>
  <2>1. /\ cp3'.state = cp3.state /\ cp3'.worker = cp3.worker /\ ~cp3'.delivery
        /\ w'.pc = "idle" /\ w'.mode = "none" /\ UNCHANGED <<cur, gen, cp2, keys, slot, sealed>>
    BY <1>a, <1>b, <1>2 DEF Sleeping, link
  <2>2. TransferInv'
    BY <1>b, <2>1, DrainTransfer
  <2>3. SlotInv'
    BY <1>b, <2>1
       DEF Inv, SlotInv, SlotTaken, WorkerFlag, DeliveryFlag, HasJob, Works, Busy, Computing,
           Delivering
  <2>4. w.mode = "cp3" /\ cp3.state # "CRYPTO_BUSY"
    BY <1>b, <1>2 DEF Current3, Inv, JobInv, ResultKept, Delivering
  <2>5. JobInv'
    <3>1. FreshJob'
      BY <2>1 DEF Inv, JobInv, FreshJob, HasJob, Works, Busy, Computing
    <3>2. WaitsForJob'
      BY <2>1, <2>4 DEF Inv, JobInv, WaitsForJob, HasJob, StateOf
    <3> QED BY <2>1, <3>1, <3>2 DEF JobInv, ResultKept, Delivering
  <2>6. SecretInv'
    BY <2>1
       DEF Inv, SecretInv, NoOrphanKeys, KeysOfThisLink, JobOfLink, HasJob, Works, Busy, Computing
  <2>7. SealInv'
    BY <2>1 DEF Inv, SealInv, SealedNamed, SealedBelow, Sealing, SecureKeyed
  <2> QED BY <2>2, <2>3, <2>5, <2>6, <2>7 DEF Parts
<1> QED BY <1>c, <1>1, <1>2

(* FINISHED_P: the session becomes secure with a key that sealed nothing    *)
(* yet, or the handshake has failed.                                        *)
LEMMA FinishedPInv ==
    ASSUME Inv, NEW sent \in BOOLEAN, NEW late \in BOOLEAN, FinishedP(sent, late)
    PROVE  Parts'
<1>0. cp3 \in Cp3Recs /\ keys \in KeyRecs
  BY DEF Inv, Typed, HandshakeTypeOK, Cp3Recs, KeyRecs
<1>a. /\ Delivered(cp3) \in Cp3Recs /\ Delivered(cp3).state = cp3.state
      /\ ~Delivered(cp3).worker /\ ~Delivered(cp3).delivery
  BY <1>0 DEF Delivered, Cp3Recs
<1>b. /\ w.pc = "result" /\ w.mode = "finished" /\ Drain(cp3') /\ (sent => Deliver3)
      /\ UNCHANGED <<link, cp2, sealed>>
  BY DEF FinishedP
<1>1. CASE InvalidateCp3(Delivered(cp3), Sleeping)
  BY <1>a, <1>b, <1>1, LastSectionWipe DEF Cp3Modes
<1>2. CASE sent /\ ~late /\ keys.app # 0 /\ ~keys.secure
  <2>0. /\ keys' = [keys EXCEPT !.secure = TRUE, !.rx = 0, !.tx = 0]
        /\ cp3' = [Delivered(cp3) EXCEPT !.state = "APP_SECURE"] /\ w' = Sleeping /\ slot' = slot
    BY <1>2 DEF FinishedP
  <2>1. /\ cp3'.state = "APP_SECURE" /\ ~cp3'.worker /\ ~cp3'.delivery
        /\ w'.pc = "idle" /\ w'.mode = "none" /\ UNCHANGED <<cur, gen, cp2, slot, sealed>>
    BY <1>a, <1>b, <2>0 DEF Sleeping, link, Cp3Recs
  <2>2. keys'.hs = keys.hs /\ keys'.app = keys.app /\ keys'.secure /\ keys'.app # 0
    BY <1>0, <1>2, <2>0 DEF KeyRecs
  <2>3. cp3.state = "FINISHED_P_BUSY" /\ keys.app = cur /\ ~slot.pending
    BY <1>b, <1>2 DEF Deliver3, Expected, Inv, SecretInv, KeysOfThisLink, SlotInv, SlotTaken
  <2>4. TransferInv'
    BY <1>b, <2>1, <2>3, DrainTransfer
  <2>5. SlotInv'
    BY <1>b, <2>1, <2>3
       DEF Inv, SlotInv, SlotTaken, WorkerFlag, DeliveryFlag, HasJob, Works, Busy, Computing,
           Delivering
  <2>6. JobInv'
    BY <2>1, <2>3
       DEF JobInv, FreshJob, WaitsForJob, ResultKept, StateOf, HasJob, Works, Busy, Computing,
           Delivering
  <2>7. SecretInv'
    BY <2>1, <2>2, <2>3
       DEF Inv, SecretInv, NoOrphanKeys, KeysOfThisLink, JobOfLink, HasJob, Works, Busy, Computing
  <2>8. SealInv'
    BY <2>1, <2>2, <2>3 DEF Inv, SealInv, SealedNamed, SealedBelow, Sealing, SecureKeyed, Ended
  <2> QED BY <2>4, <2>5, <2>6, <2>7, <2>8 DEF Parts
<1> QED BY <1>1, <1>2 DEF FinishedP

(* The first section of the CP4 delivery. *)
LEMMA Cp4ResultInv ==
    ASSUME Inv, Cp4Result
    PROVE  Parts'
<1>0. w \in Workers /\ cp3 \in Cp3Recs
  BY DEF Inv, Typed, HandshakeTypeOK, WorkerTyped, Cp3Recs
<1> DEFINE c == [cp3 EXCEPT !.worker = FALSE, !.delivery = TRUE]
           x == [w EXCEPT !.pc = "notify"]
<1>a. /\ w.pc = "result" /\ w.mode = "cp4" /\ UNCHANGED <<link, transfer, cp2, sealed>>
      /\ \/ cp3' = c /\ w' = [x EXCEPT !.conn = cp3.conn] /\ UNCHANGED <<keys, slot>>
         \/ InvalidateCp3(c, x)
  BY DEF Cp4Result
<1>b. /\ c \in Cp3Recs /\ c.state = cp3.state /\ ~c.worker /\ c.delivery
      /\ x \in Workers /\ x.pc = "notify" /\ x.mode = "cp4"
  BY <1>0, <1>a DEF Cp3Recs, Workers, Pcs, Delivering
<1>c. cp3.worker /\ ~slot.pending
  BY <1>a DEF Inv, SlotInv, SlotTaken, WorkerFlag, Works, Busy, Cp3Modes
<1>d. [x EXCEPT !.conn = cp3.conn].pc = "notify" /\ [x EXCEPT !.conn = cp3.conn].mode = "cp4"
  BY <1>b DEF Workers
<1> HIDE DEF c, x
<1>1. CASE InvalidateCp3(c, x)
  <2>1. /\ JobInv' /\ SecretInv' /\ SealInv' /\ JobKept /\ w'.pc = "notify" /\ w'.mode = "cp4"
        /\ cur' = cur /\ cp2' = cp2 /\ ~cp3'.worker /\ cp3'.delivery
        /\ (cp3'.state = "IDLE" <=> cp3.state = "IDLE")
    BY <1>a, <1>b, <1>1, WorkerWipe
  <2>2. SlotInv'
    BY <1>a, <1>c, <2>1
       DEF JobKept, Inv, SlotInv, SlotTaken, WorkerFlag, DeliveryFlag, HasJob, Works, Busy,
           Computing, Delivering
  <2>3. TransferInv'
    BY <1>a, <1>c, <2>1 DEF Inv, TransferInv, Draining, transfer
  <2> QED BY <2>1, <2>2, <2>3 DEF Parts
<1>2. CASE cp3' = c /\ w' = [x EXCEPT !.conn = cp3.conn] /\ UNCHANGED <<keys, slot>>
  <2>1. /\ cp3'.state = cp3.state /\ ~cp3'.worker /\ cp3'.delivery
        /\ w'.pc = "notify" /\ w'.mode = "cp4"
        /\ UNCHANGED <<cur, gen, transfer, cp2, keys, slot, sealed>>
    BY <1>a, <1>b, <1>d, <1>2 DEF link
  <2>2. SlotInv'
    BY <1>a, <1>c, <2>1
       DEF Inv, SlotInv, SlotTaken, WorkerFlag, DeliveryFlag, HasJob, Works, Busy, Computing,
           Delivering
  <2>3. TransferInv'
    BY <1>c, <2>1 DEF Inv, TransferInv, Draining, transfer
  <2>4. JobInv'
    BY <1>a, <1>c, <2>1
       DEF Inv, JobInv, FreshJob, WaitsForJob, ResultKept, HasJob, Works, Busy, Computing, Delivering
  <2>5. SecretInv'
    BY <2>1
       DEF Inv, SecretInv, NoOrphanKeys, KeysOfThisLink, JobOfLink, HasJob, Works, Busy, Computing
  <2>6. SealInv'
    BY <2>1 DEF Inv, SealInv, SealedNamed, SealedBelow, Sealing, SecureKeyed
  <2> QED BY <2>2, <2>3, <2>4, <2>5, <2>6 DEF Parts
<1> QED BY <1>a, <1>1, <1>2

(* The last section of the CP4 delivery: the counters leave every number    *)
(* sealed so far behind, or the session is erased.                          *)
LEMMA Cp4FinishInv ==
    ASSUME Inv, Cp4Finish
    PROVE  Parts'
<1>0. cp3 \in Cp3Recs /\ keys \in KeyRecs /\ keys.tx \in Nat
      /\ \A e \in sealed : e[2] \in Nat
  BY HandshakeAssumption DEF Inv, Typed, HandshakeTypeOK, WorkerTyped, Cp3Recs, KeyRecs
<1> DEFINE c == [cp3 EXCEPT !.delivery = FALSE]
<1>a. c \in Cp3Recs /\ c.state = cp3.state /\ c.worker = cp3.worker /\ ~c.delivery
  BY <1>0 DEF Cp3Recs
<1>b. /\ w.pc = "finish" /\ w.mode = "cp4" /\ Drain(cp3') /\ UNCHANGED <<link, cp2, sealed>>
  BY DEF Cp4Finish
<1>c. \/ Commits4 /\ keys' = Counted(keys) /\ cp3' = c /\ w' = Sleeping /\ slot' = slot
      \/ InvalidateCp3(c, Sleeping)
  BY DEF Cp4Finish
<1> HIDE DEF c
<1>1. CASE InvalidateCp3(c, Sleeping)
  BY <1>a, <1>b, <1>1, LastSectionWipe DEF Cp3Modes
<1>2. CASE Commits4 /\ keys' = Counted(keys) /\ cp3' = c /\ w' = Sleeping /\ slot' = slot
  <2>1. /\ cp3'.state = cp3.state /\ cp3'.worker = cp3.worker /\ ~cp3'.delivery
        /\ w'.pc = "idle" /\ w'.mode = "none" /\ UNCHANGED <<cur, gen, cp2, slot, sealed>>
    BY <1>a, <1>b, <1>2 DEF Sleeping, link
  <2>2. /\ keys'.hs = keys.hs /\ keys'.app = keys.app /\ keys'.secure = keys.secure
        /\ keys'.tx = keys.tx + 1
    BY <1>0, <1>2 DEF Counted, KeyRecs
  <2>3. cp3.state = "APP_SECURE"
    BY <1>2 DEF Commits4, Live4
  <2>4. TransferInv'
    BY <1>b, <2>1, DrainTransfer
  <2>5. SlotInv'
    BY <1>b, <2>1
       DEF Inv, SlotInv, SlotTaken, WorkerFlag, DeliveryFlag, HasJob, Works, Busy, Computing,
           Delivering
  <2>6. JobInv'
    BY <2>1, <2>3
       DEF Inv, JobInv, FreshJob, WaitsForJob, ResultKept, StateOf, HasJob, Works, Busy, Computing,
           Delivering
  <2>7. SecretInv'
    BY <2>1, <2>2, <2>3
       DEF Inv, SecretInv, NoOrphanKeys, KeysOfThisLink, JobOfLink, HasJob, Works, Busy, Computing
  <2>8. SealedBelow'
    BY <1>0, <2>1, <2>2 DEF Inv, SealInv, SealedBelow
  <2>9. SealInv'
    BY <2>1, <2>2, <2>8 DEF Inv, SealInv, SealedNamed, Sealing, SecureKeyed
  <2> QED BY <2>4, <2>5, <2>6, <2>7, <2>9 DEF Parts
<1> QED BY <1>c, <1>1, <1>2

-----------------------------------------------------------------------------
(* Every step keeps the invariant. *)
LEMMA InvStep == Inv /\ [Next]_vars => Inv'
<1> SUFFICES ASSUME Inv, [Next]_vars PROVE Inv'
  OBVIOUS
<1>1. Typed /\ TransferInv /\ Typed'
  BY TypedStep DEF Inv
<1>2. SUFFICES Parts'
  BY <1>1 DEF Inv, Parts
<1>3. CASE HostNext
  <2>1. CASE Connected \/ Disconnected \/ SecurityChanged \/ Unsubscribe \/ Cp4Denied
    BY <1>1, <2>1, HostWipes, HostWipeInv
  <2>2. CASE SecurityUp \/ SecurityLost \/ Subscribe
    BY <1>1, <2>2, StillSteps, StillInv
  <2> QED BY <1>3, <2>1, <2>2, WriteInv, Cp2StartInv, Cp3StartInv, FinishedCInv, Cp4PingInv
          DEF HostNext
<1>4. CASE WorkerNext
  BY <1>4, TakeJobInv, PlainComputeInv, Cp3ComputeInv, FinishedTakeInv, FinishedStoreInv,
      Cp4CheckInv,
     Cp4OpenInv, Cp4SealInv, JobDoneInv, Cp2DeliverInv, Cp3ResultInv, Cp3FinishInv, FinishedPInv,
     Cp4ResultInv, Cp4FinishInv
     DEF WorkerNext
<1>5. CASE TimerNext \/ Tick \/ UNCHANGED vars
  <2>1. CASE Timeout /\ TimesOut /\ cp3.left = 0
    BY <1>1, <2>1, HostWipes, HostWipeInv
  <2>2. CASE ~(Timeout /\ TimesOut /\ cp3.left = 0)
    BY <1>1, <1>5, <2>2, StillSteps, StillInv DEF TimerNext
  <2> QED BY <2>1, <2>2
<1> QED BY <1>3, <1>4, <1>5 DEF Next

(* The invariant that ties slot, flags, state, secrets and sealed numbers   *)
(* together holds in every state.                                           *)
THEOREM HandshakeInvariant == Spec => []Inv
<1>1. Init => Parts
  <2> SUFFICES ASSUME Init PROVE Parts
    OBVIOUS
  <2> USE DEF Init, NoCp2, NoCp3, NoKeys, NoJob, Sleeping
  <2>1. SlotInv
    BY DEF SlotInv, SlotTaken, WorkerFlag, DeliveryFlag, HasJob, Works, Busy, Computing, Delivering
  <2>2. TransferInv
    BY DEF TransferInv, Draining
  <2>3. JobInv
    BY DEF JobInv, FreshJob, WaitsForJob, ResultKept, StateOf, HasJob, Works, Busy, Computing,
           Delivering
  <2>4. SecretInv
    BY DEF SecretInv, NoOrphanKeys, KeysOfThisLink, JobOfLink, HasJob, Works, Busy, Computing
  <2>5. SealInv
    BY DEF SealInv, SealedNamed, SealedBelow, Sealing, SecureKeyed
  <2> QED BY <2>1, <2>2, <2>3, <2>4, <2>5 DEF Parts
<1>2. Init => Inv
  <2> SUFFICES ASSUME Init PROVE Inv
    OBVIOUS
  <2>1. Typed BY InitTyped
  <2> QED BY <1>1, <2>1 DEF Inv, Parts
<1> QED BY <1>2, InvStep, PTL DEF Spec

(* A failed or absent handshake leaves no secret in the session, secrets    *)
(* are those of the current link and are used in APP_SECURE only, and a     *)
(* handshake that waits for the worker has a job of its epoch.              *)
THEOREM HandshakeSafe == Spec => []HandshakeInv
<1>1. Inv => HandshakeInv
  <2> SUFFICES ASSUME Inv PROVE HandshakeInv
    OBVIOUS
  <2>1. BusyHasJob
    BY DEF Inv, JobInv, WaitsForJob, BusyHasJob, StateOf, HasJob, Cp3Modes
  <2> QED BY <2>1 DEF Inv, Typed, SecretInv, HandshakeInv
<1> QED BY <1>1, HandshakeInvariant, PTL

(* The end of a job wipes no ciphertext of a replacement connection: while  *)
(* a job runs or is delivered no transfer is under way.                     *)
THEOREM DrainSafe == Spec => []DrainWipesNothing
<1>1. Inv => DrainWipesNothing
  BY DEF Inv, TransferInv, DrainWipesNothing
<1> QED BY <1>1, HandshakeInvariant, PTL

(* No two PONGs are sealed under one key and one number, whatever became of *)
(* the notification, the link or the job of the earlier one.                *)
THEOREM PongSafe == Spec => []NextPongFresh
<1>1. Inv => NextPongFresh
  <2> SUFFICES ASSUME Inv, keys.secure, ~keys.pend, <<keys.app, keys.tx>> \in sealed PROVE FALSE
    BY DEF NextPongFresh
  <2>1. keys.tx \in Int
    BY DEF Inv, Typed, HandshakeTypeOK
  <2> QED BY <2>1 DEF Inv, SealInv, SealedBelow
<1> QED BY <1>1, HandshakeInvariant, PTL

(* A link has one attempt: once FAILED the handshake stays so until the     *)
(* connection ends, whatever the worker still delivers.                     *)
THEOREM FailureFinal == Spec => FailedIsTerminal
<1>1. Typed /\ [Next]_vars => [cp3.state = "FAILED" /\ cur' = cur => cp3'.state = "FAILED"]_vars
  <2> SUFFICES ASSUME Typed, Next, cp3.state = "FAILED", cur' = cur
               PROVE  cp3'.state = "FAILED"
    BY DEF vars
  <2>0. cp3 \in Cp3Recs /\ gen \in Nat
    BY HandshakeAssumption DEF Typed, HandshakeTypeOK, Cp3Recs, Conns
  <2>1. ASSUME NEW c \in Cp3Recs, c.state = "FAILED", cp3' = Failed(c) PROVE cp3'.state = "FAILED"
    BY <2>1, FailedTyped
  <2>2. /\ Delivered(cp3) \in Cp3Recs /\ Delivered(cp3).state = "FAILED"
        /\ [cp3 EXCEPT !.delivery = FALSE] \in Cp3Recs
        /\ [cp3 EXCEPT !.delivery = FALSE].state = "FAILED"
        /\ [cp3 EXCEPT !.worker = FALSE, !.delivery = TRUE] \in Cp3Recs
        /\ [cp3 EXCEPT !.worker = FALSE, !.delivery = TRUE].state = "FAILED"
    BY <2>0 DEF Cp3Recs, Delivered
  <2>3. CASE HostNext
    <3>1. ~Connected /\ ~Disconnected
      BY <2>0 DEF Connected, Disconnected
    <3>2. CASE SecurityChanged \/ Unsubscribe \/ Cp4Denied
      BY <2>0, <2>1, <3>2 DEF SecurityChanged, Unsubscribe, Cp4Denied, InvalidateCp3
    <3>3. CASE cp3' = cp3
      BY <3>3
    <3> QED BY <2>3, <3>1, <3>2, <3>3
            DEF HostNext, SecurityUp, SecurityLost, Subscribe, WriteCiphertext, Cp2Start, Cp3Start,
                Starts3, FinishedC, Confirms, Cp4Ping, Accepts4, Live4
  <2>4. CASE Cp3Result
    BY <2>0, <2>4 DEF Cp3Result, Deliver3, Live3, Cp3Recs
  <2>5. CASE \E sent, late \in BOOLEAN : FinishedP(sent, late)
    BY <2>1, <2>2, <2>5 DEF FinishedP, Deliver3, Live3, InvalidateCp3
  <2>6. CASE Cp3Finish \/ Cp4Result \/ Cp4Finish
    BY <2>1, <2>2, <2>6 DEF Cp3Finish, Cp4Result, Cp4Finish, InvalidateCp3
  <2>7. CASE WorkerNext /\ cp3' = cp3
    BY <2>7
  <2>8. CASE Cp4Check("run", "open") \/ Cp4Check("opened", "seal")
    BY <2>0, <2>1, <2>8 DEF Cp4Check, InvalidateCp3
  <2>9. CASE WorkerNext
    BY <2>4, <2>5, <2>6, <2>7, <2>8, <2>9
       DEF WorkerNext, TakeJob, Cp2Compute, Cp3Compute, FinishedTake, FinishedStore, Cp4Open,
           Cp4Seal,
           JobDone, Cp2Result, Cp2Finish, Cp2Release, Cp2Notify, Cp3Notify, Cp4Notify
  <2>10. CASE TimerNext \/ Tick
    BY <2>0, <2>1, <2>10 DEF TimerNext, TimeoutRuns, Timeout, Tick, Cp3Recs
  <2> QED BY <2>3, <2>9, <2>10 DEF Next
<1> QED BY <1>1, TypeCorrect, PTL DEF Spec, FailedIsTerminal
=============================================================================
