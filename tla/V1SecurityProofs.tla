-------------------------- MODULE V1SecurityProofs --------------------------
(***************************************************************************)
(* The security gate for every timeout and every number of connections.     *)
(***************************************************************************)
EXTENDS V1Security, SequenceTheorems, TLAPS

USE DEF Never

-----------------------------------------------------------------------------
(* The invariant, as named parts.  First the types of what SecTypeOK leaves *)
(* open, and how the host's link and the tracked connection go together.    *)
Items == {"arm", "scan", "timeout"}
Ops == {"idle", "scan", "accept", "reject", "confirm", "cancel", "fail", "drop", "after",
        "unpair", "timeout", "expired"}
Workers == [op : Ops, pins : SUBSET Buttons, conn : 0 .. MAX_GEN, gen : 0 .. MAX_GEN,
            press : 0 .. MAX_GEN, wipe : BOOLEAN]
Answering == {"confirm", "cancel", "fail", "drop", "expired"}
QueueTyped == /\ queue \in Seq(Items) /\ worker \in Workers
              /\ worker.op \in Answering => worker.conn # 0
LinkTracked ==
    /\ link = "none" <=> tracked = 0
    /\ tracked = 0 => state = "DISCONNECTED"
    /\ tracked # 0 => tracked = gen /\ gen < MAX_GEN
Typed == SecTypeOK /\ QueueTyped /\ LinkTracked

(* A pending comparison is the one SMP waits for, and was not accepted yet.  *)
(* While the worker still answers for a connection, that connection has no  *)
(* other comparison and gets none.                                          *)
PairingAttempted == smp = "pairing" => attempted
PendingCompares == auth # 0 => smp = "compare" /\ attempted /\ ~accepted
AnswerOwed ==
    worker.op \in Answering =>
        /\ worker.conn <= gen
        /\ worker.conn = tracked => auth = 0 /\ (accepted \/ state = "FAILED")
ArmedPending == armed => auth # 0
SecuredAccepted == state = "L4_SECURED" /\ attempted => accepted
PendInv == /\ PendingTakeable /\ PairingAttempted /\ PendingCompares /\ AnswerOwed
           /\ ArmedPending /\ SecuredAccepted

(* A press of ACCEPT from before the challenge cannot be taken for it: the  *)
(* buttons are not armed, and what could arm them sees the button held; or  *)
(* the arming that follows the challenge runs before the next scan.         *)
Has(item) == \E i \in DOMAIN queue : queue[i] = item
ScanAlone == worker.op = "scan" => ~Has("scan")
Stale == auth # 0 /\ "accept" \in held /\ shown # auth
ArmFirst ==
    /\ Has("arm")
    /\ \A i, j \in DOMAIN queue : queue[i] = "arm" /\ queue[j] = "scan" => i < j
StaleUnarmed ==
    Stale => \/ ArmFirst /\ (worker.op = "scan" => ~armed)
             \/ ~armed /\ (worker.op = "scan" => "accept" \in worker.pins)
ScanFresh ==
    worker.op = "scan" /\ "accept" \in worker.pins /\ armed => worker.press = auth
PressNamed == worker.op = "accept" => worker.press = worker.gen
PressInv == ScanAlone /\ StaleUnarmed /\ ScanFresh /\ PressNamed /\ AcceptedWasShown

-----------------------------------------------------------------------------
(* The work queue.  Submitting, cancelling and taking an item keep it a     *)
(* sequence of items without repetition.                                    *)
Unique(q) == \A i, j \in DOMAIN q : q[i] = q[j] => i = j
In(q, item) == \E i \in DOMAIN q : q[i] = item

(* k_work_submit: the item is in the queue, and the others stay in place. *)
LEMMA SubmitQueue ==
    ASSUME NEW q \in Seq(Items), Unique(q), NEW item \in Items
    PROVE  /\ Submit(q, item) \in Seq(Items) /\ Unique(Submit(q, item))
           /\ In(Submit(q, item), item)
           /\ \A i \in DOMAIN q : i \in DOMAIN Submit(q, item) /\ Submit(q, item)[i] = q[i]
           /\ \A i \in DOMAIN Submit(q, item) :
                  (i \in DOMAIN q /\ Submit(q, item)[i] = q[i])
                  \/ (i = Len(q) + 1 /\ Submit(q, item)[i] = item /\ ~In(q, item))
<1>1. CASE In(q, item)
  <2>1. Submit(q, item) = q BY <1>1 DEF Submit, In
  <2> QED BY <1>1, <2>1
<1>2. CASE ~In(q, item)
  <2>1. Submit(q, item) = Append(q, item) BY <1>2 DEF Submit, In
  <2>2. /\ Append(q, item) \in Seq(Items) /\ Len(Append(q, item)) = Len(q) + 1
        /\ DOMAIN Append(q, item) = 1 .. Len(q) + 1 /\ DOMAIN q = 1 .. Len(q)
        /\ Append(q, item)[Len(q) + 1] = item /\ Len(q) \in Nat
        /\ \A i \in 1 .. Len(q) : Append(q, item)[i] = q[i]
    OBVIOUS
  <2>3. Unique(Append(q, item)) BY <1>2, <2>2 DEF Unique, In
  <2>4. Len(q) + 1 \in DOMAIN Append(q, item) BY <2>2
  <2> QED BY <1>2, <2>1, <2>2, <2>3, <2>4 DEF In
<1> QED BY <1>1, <1>2

(* k_work_cancel_delayable adds nothing to the queue. *)
LEMMA CancelledQueue ==
    ASSUME NEW q \in Seq(Items), Unique(q)
    PROVE  /\ Cancelled(q) \in Seq(Items) /\ Unique(Cancelled(q))
           /\ \A i \in DOMAIN Cancelled(q) : \E j \in DOMAIN q : Cancelled(q)[i] = q[j]
<1>1. CASE ~In(q, "timeout")
  BY <1>1 DEF Cancelled, In
<1>2. CASE In(q, "timeout")
  <2> DEFINE k == CHOOSE i \in DOMAIN q : q[i] = "timeout"
             c == [j \in 1 .. Len(q) - 1 |-> IF j < k THEN q[j] ELSE q[j + 1]]
  <2>1. k \in DOMAIN q BY <1>2 DEF In
  <2>2. Cancelled(q) = c BY <1>2 DEF Cancelled, In
  <2>3. Len(q) \in Nat /\ DOMAIN q = 1 .. Len(q) /\ k \in 1 .. Len(q)
        /\ \A i \in 1 .. Len(q) : q[i] \in Items
    BY <2>1
  <2> HIDE DEF k
  <2>4. Len(q) - 1 \in Nat BY <2>3
  <2>5. c \in [1 .. Len(q) - 1 -> Items] BY <2>3, <2>4
  <2>6. c \in Seq(Items) BY <2>4, <2>5, SeqDef
  <2>7. DOMAIN c = 1 .. Len(q) - 1 OBVIOUS
  <2>8. \A i \in DOMAIN c : c[i] = q[IF i < k THEN i ELSE i + 1]
    BY <2>7
  <2>9. \A i \in DOMAIN c : (IF i < k THEN i ELSE i + 1) \in DOMAIN q
    BY <2>3, <2>7
  <2>10. \A i, j \in DOMAIN c :
            (IF i < k THEN i ELSE i + 1) = (IF j < k THEN j ELSE j + 1) => i = j
    BY <2>3, <2>7
  <2> HIDE DEF c
  <2>11. Unique(c) BY <2>8, <2>9, <2>10 DEF Unique
  <2> QED BY <2>2, <2>6, <2>8, <2>9, <2>11
<1> QED BY <1>1, <1>2

(* Taking the first item moves the others up. *)
LEMMA TailQueue ==
    ASSUME NEW q \in Seq(Items), q # <<>>, Unique(q)
    PROVE  /\ Tail(q) \in Seq(Items) /\ Unique(Tail(q)) /\ 1 \in DOMAIN q /\ Head(q) = q[1]
           /\ \A i \in DOMAIN Tail(q) : i + 1 \in DOMAIN q /\ Tail(q)[i] = q[i + 1]
           /\ \A i \in DOMAIN q : i # 1 => i - 1 \in DOMAIN Tail(q) /\ Tail(q)[i - 1] = q[i]
           /\ \A i \in DOMAIN Tail(q) : Tail(q)[i] # Head(q)
<1>1. /\ Len(q) \in Nat /\ Len(q) # 0 /\ DOMAIN q = 1 .. Len(q)
      /\ Tail(q) \in Seq(Items) /\ Len(Tail(q)) = Len(q) - 1
      /\ DOMAIN Tail(q) = 1 .. Len(q) - 1
      /\ \A i \in 1 .. Len(q) - 1 : Tail(q)[i] = q[i + 1]
      /\ Head(q) = q[1]
  BY EmptySeq
<1>2. 1 \in DOMAIN q BY <1>1
<1>3. \A i \in DOMAIN Tail(q) : i + 1 \in DOMAIN q /\ Tail(q)[i] = q[i + 1]
  BY <1>1
<1>4. \A i \in DOMAIN q : i # 1 => i - 1 \in DOMAIN Tail(q) /\ Tail(q)[i - 1] = q[i]
  BY <1>1
<1>5. Unique(Tail(q))
  <2> SUFFICES ASSUME NEW i \in DOMAIN Tail(q), NEW j \in DOMAIN Tail(q), Tail(q)[i] = Tail(q)[j]
               PROVE  i = j
    BY DEF Unique
  <2>1. i + 1 = j + 1 BY <1>3 DEF Unique
  <2> QED BY <1>1, <2>1
<1>6. \A i \in DOMAIN Tail(q) : Tail(q)[i] # Head(q)
  <2> SUFFICES ASSUME NEW i \in DOMAIN Tail(q), Tail(q)[i] = Head(q) PROVE FALSE
    OBVIOUS
  <2>1. i + 1 = 1 BY <1>1, <1>2, <1>3 DEF Unique
  <2> QED BY <1>1, <2>1
<1> QED BY <1>1, <1>2, <1>3, <1>4, <1>5, <1>6

-----------------------------------------------------------------------------
(* The worker goes on with another operation. *)
LEMMA SetOp ==
    ASSUME NEW v \in Workers, NEW op \in Ops
    PROVE  LET x == [v EXCEPT !.op = op]
           IN  /\ x \in Workers /\ x.op = op /\ x.pins = v.pins /\ x.conn = v.conn
               /\ x.gen = v.gen /\ x.press = v.press
  BY DEF Workers

(* clear_pending_locked leaves typed fields and a well-formed queue. *)
LEMMA ClearTyped ==
    ASSUME Typed, ClearPending
    PROVE  /\ auth' \in {auth, 0} /\ armed' \in BOOLEAN
           /\ due' \in {Never} \cup (1 .. TIMEOUT)
           /\ queue' \in Seq(Items) /\ Unique(queue')
           /\ \A i \in DOMAIN queue' : In(queue, queue'[i])
<1>1. queue \in Seq(Items) /\ Unique(queue)
  BY DEF Typed, SecTypeOK, QueueTyped, Unique
<1>2. CASE auth = tracked
  <2>1. queue' = Cancelled(queue) /\ auth' = 0 /\ armed' = FALSE /\ due' = Never
    BY <1>2 DEF ClearPending
  <2> QED BY <1>1, <2>1, CancelledQueue DEF In
<1>3. CASE auth # tracked
  <2>1. UNCHANGED <<auth, armed, due, queue>>
    BY <1>3 DEF ClearPending
  <2>2. armed \in BOOLEAN /\ due \in {Never} \cup (1 .. TIMEOUT)
    BY DEF Typed, SecTypeOK
  <2> QED BY <1>1, <2>1, <2>2 DEF In
<1> QED BY <1>2, <1>3

(* Every step keeps the types, and link and tracked connection together. *)
LEMMA TypedStep == Typed /\ [Next]_vars => Typed'
<1> SUFFICES ASSUME Typed, [Next]_vars PROVE Typed'
  OBVIOUS
<1> USE SecurityAssumption DEF fields, host, hands
<1>0. /\ queue \in Seq(Items) /\ Unique(queue) /\ worker \in Workers
      /\ 0 \in 0 .. MAX_GEN /\ gen \in 0 .. MAX_GEN
      /\ (tracked # 0 => gen + 1 \in 0 .. MAX_GEN)
  BY DEF Typed, SecTypeOK, QueueTyped, LinkTracked, Unique
<1> USE DEF Typed, SecTypeOK, QueueTyped, LinkTracked
<1>a. Idle \in Workers /\ Idle.op \notin Answering
  BY DEF Idle, Workers, Ops, Answering
<1>1. ASSUME NEW err \in BOOLEAN, OnConnected(err) PROVE Typed'
  <2>1. gen + 1 \in 0 .. MAX_GEN /\ gen + 1 < MAX_GEN /\ gen + 1 # 0
    BY <1>0, <1>1 DEF OnConnected
  <2>2. state' \in States
    BY <1>1 DEF OnConnected, States
  <2> QED BY <1>0, <1>1, <2>1, <2>2 DEF OnConnected
<1>2. ASSUME OnDisconnected PROVE Typed'
  <2>1. /\ auth' \in 0 .. MAX_GEN /\ armed' \in BOOLEAN /\ due' \in {Never} \cup (1 .. TIMEOUT)
        /\ queue' \in Seq(Items) /\ Unique(queue')
    BY <1>2, ClearTyped DEF OnDisconnected
  <2>2. gen + 1 \in 0 .. MAX_GEN
    BY <1>0, <1>2 DEF OnDisconnected
  <2> QED BY <1>0, <1>2, <2>1, <2>2 DEF OnDisconnected, Unique, States
<1>3. ASSUME PairingAccept PROVE Typed'
  BY <1>3 DEF PairingAccept, States
<1>4. ASSUME PasskeyDisplay PROVE Typed'
  BY <1>4 DEF PasskeyDisplay, States
<1>5. ASSUME PasskeyConfirm PROVE Typed'
  <2>1. CASE Refuses
    BY <1>5, <2>1 DEF PasskeyConfirm, States
  <2>2. CASE ~Refuses
    <3>1. queue' \in Seq(Items) /\ Unique(queue')
      <4>1. queue' = Submit(queue, "arm") /\ "arm" \in Items
        BY <1>5, <2>2 DEF PasskeyConfirm, Items
      <4> QED BY <1>0, <4>1, SubmitQueue
    <3>2. TIMEOUT \in 0 .. TIMEOUT /\ TIMEOUT \in 1 .. TIMEOUT
      OBVIOUS
    <3> QED BY <1>5, <2>2, <3>1, <3>2 DEF PasskeyConfirm, States, Unique
  <2> QED BY <2>1, <2>2
<1>6. ASSUME AuthCancel \/ PairingFailed \/ PairingComplete PROVE Typed'
  <2>1. /\ auth' \in 0 .. MAX_GEN /\ armed' \in BOOLEAN /\ due' \in {Never} \cup (1 .. TIMEOUT)
        /\ queue' \in Seq(Items) /\ Unique(queue')
    BY <1>6, ClearTyped DEF AuthCancel, PairingFailed, PairingComplete
  <2> QED BY <1>6, <2>1 DEF AuthCancel, PairingFailed, PairingComplete, States, Unique
<1>7. ASSUME NEW r \in Reports, SecurityChanged(r) PROVE Typed'
  <2>1. /\ auth' \in 0 .. MAX_GEN /\ armed' \in BOOLEAN /\ due' \in {Never} \cup (1 .. TIMEOUT)
        /\ queue' \in Seq(Items) /\ Unique(queue')
    BY <1>0, <1>7, ClearTyped DEF SecurityChanged
  <2>2. r.level \in {1, 2, 4}
    <3>1. level \in {1, 2, 4} OBVIOUS
    <3>2. CASE r \in [err : {TRUE}, level : {level}] BY <3>1, <3>2
    <3>3. CASE r \in [err : {FALSE}, level : {2}] BY <3>3
    <3>4. CASE r \in {[err |-> FALSE, level |-> 4]} BY <3>4
    <3> QED BY <3>2, <3>3, <3>4 DEF Reports
  <2>3. level' \in {1, 2, 4} /\ smp' \in {smp, "encrypted", "failing"}
    BY <1>7, <2>2 DEF SecurityChanged, Encrypted
  <2>4. state' \in {"L4_SECURED", "FAILED"} /\ securedGen' \in {gen, securedGen}
        /\ UNCHANGED <<tracked, gen, authGen, left, attempted, accepted, worker, scanned,
                       link, bond, hands, decided>>
    BY <1>7 DEF SecurityChanged
  <2>5. tracked # 0
    BY <1>7 DEF SecurityChanged
  <2> QED BY <1>0, <2>1, <2>3, <2>4, <2>5 DEF States, Unique
<1>8. ASSUME Dequeue PROVE Typed'
  <2>1. queue' \in Seq(Items) /\ Unique(queue')
    BY <1>0, <1>8, TailQueue DEF Dequeue
  <2>2. worker' \in Workers /\ worker'.op \notin Answering
    BY <1>a, <1>8 DEF Dequeue, Workers, Ops, Idle, Answering
  <2> QED BY <1>8, <2>1, <2>2 DEF Dequeue, Unique
<1>9. ASSUME NcArm PROVE Typed'
  <2>1. queue' \in Seq(Items) /\ Unique(queue')
    BY <1>0, <1>9, TailQueue DEF NcArm
  <2> QED BY <1>9, <2>1 DEF NcArm, Unique
<1>10. ASSUME ButtonChanged PROVE Typed'
  <2>1. queue' \in Seq(Items) /\ Unique(queue')
    BY <1>0, <1>10, SubmitQueue DEF ButtonChanged, Rescan, Items
  <2> DEFINE v == [worker EXCEPT !.gen = authGen, !.wipe = "clear" \in Pressed]
  <2>2. v \in Workers /\ scanned' \subseteq Buttons
    <3>1. worker.pins \subseteq Buttons /\ authGen \in 0 .. MAX_GEN
      BY <1>0 DEF Workers
    <3>2. v \in Workers
      <4> DEFINE wipe == "clear" \in Pressed
      <4>1. wipe \in BOOLEAN /\ v = [worker EXCEPT !.gen = authGen, !.wipe = wipe]
        OBVIOUS
      <4> HIDE DEF wipe, v
      <4> QED BY <1>0, <3>1, <4>1 DEF Workers
    <3> QED BY <1>10, <3>1, <3>2 DEF ButtonChanged
  <2>3. \E op \in {"after", "reject", "accept"} : worker' = [v EXCEPT !.op = op]
    BY <1>10 DEF ButtonChanged
  <2> HIDE DEF v
  <2>4. worker' \in Workers /\ worker'.op \notin Answering
    BY <2>2, <2>3 DEF Workers, Ops, Answering
  <2> QED BY <1>10, <2>1, <2>2, <2>4 DEF ButtonChanged, Unique
<1>11. ASSUME NEW accept \in BOOLEAN, Reply(accept) PROVE Typed'
  <2>1. /\ worker' \in Workers /\ decided' \in 0 .. MAX_GEN
        /\ worker'.op \in Answering => worker'.conn # 0
    <3>1. worker.press \in 0 .. MAX_GEN /\ auth \in 0 .. MAX_GEN
      BY <1>0 DEF Workers
    <3>2. CASE Takes(worker.gen, accept)
      <4>1. /\ worker' = [worker EXCEPT !.op = IF accept THEN "confirm" ELSE "cancel",
                                        !.conn = auth]
            /\ decided' = (IF accept THEN worker.press ELSE decided) /\ auth # 0
        BY <1>11, <3>2 DEF Reply, Takes
      <4> QED BY <1>0, <3>1, <4>1 DEF Workers, Ops
    <3>3. CASE ~Takes(worker.gen, accept)
      <4>1. worker' = [worker EXCEPT !.op = "after"] /\ decided' = decided
        BY <1>11, <3>3 DEF Reply
      <4> QED BY <1>0, <4>1 DEF Workers, Ops, Answering
    <3> QED BY <3>2, <3>3
  <2>2. queue' \in Seq(Items) /\ Unique(queue')
    BY <1>0, <1>11, CancelledQueue DEF Reply, Take
  <2>3. CASE Takes(worker.gen, accept)
    BY <1>0, <1>11, <2>1, <2>2, <2>3 DEF Reply, Take, Takes, Unique, States
  <2>4. CASE ~Takes(worker.gen, accept)
    BY <1>0, <1>11, <2>1, <2>2, <2>4 DEF Reply, Unique
  <2> QED BY <2>3, <2>4
<1>12. ASSUME HostConfirm \/ HostCancel PROVE Typed'
  <2>1. worker' \in Workers /\ (worker'.op \in Answering => worker'.conn # 0)
    <3>1. PICK op \in {"after", "fail", "drop"} : worker' = [worker EXCEPT !.op = op]
      BY <1>12 DEF HostConfirm, HostCancel
    <3>2. worker.conn # 0
      BY <1>12 DEF HostConfirm, HostCancel, Answering
    <3>3. op \in Ops BY DEF Ops
    <3>4. worker \in Workers BY <1>0
    <3>5. worker' \in Workers /\ worker'.conn = worker.conn
      BY <3>1, <3>3, <3>4, SetOp
    <3> QED BY <3>2, <3>5
  <2> QED BY <1>12, <2>1 DEF HostConfirm, HostCancel
<1>13. ASSUME ReplyDone PROVE Typed'
  <2>1. worker' \in Workers /\ worker'.op \notin Answering /\ worker.conn # 0
    BY <1>0, <1>13 DEF ReplyDone, Workers, Ops, Answering
  <2> QED BY <1>13, <2>1 DEF ReplyDone, Hangup, States
<1>14. ASSUME ButtonDone \/ ClearBonds PROVE Typed'
  <2>1. worker' \in Workers /\ worker'.op \notin Answering
    <3>1. worker' = Idle \/ worker' = [Idle EXCEPT !.op = "unpair"]
      BY <1>14 DEF ButtonDone, ClearBonds
    <3>2. "unpair" \in Ops /\ "unpair" \notin Answering
      BY DEF Ops, Answering
    <3>3. [Idle EXCEPT !.op = "unpair"] \in Workers /\ [Idle EXCEPT !.op = "unpair"].op = "unpair"
      BY <1>a, <3>2, SetOp
    <3> QED BY <1>a, <3>1, <3>2, <3>3
  <2> QED BY <1>14, <2>1 DEF ButtonDone, ClearBonds
<1>15. ASSUME NcTimeout PROVE Typed'
  <2>1. worker' \in Workers /\ (worker'.op \in Answering => worker'.conn # 0)
    <3>1. \/ worker' = Idle
          \/ auth # 0 /\ worker' = [worker EXCEPT !.op = "expired", !.conn = auth]
      BY <1>15 DEF NcTimeout
    <3>2. auth \in 0 .. MAX_GEN /\ "expired" \in Ops
      BY DEF Ops
    <3>3. CASE auth # 0 /\ worker' = [worker EXCEPT !.op = "expired", !.conn = auth]
      BY <1>0, <3>2, <3>3 DEF Workers
    <3> QED BY <1>a, <3>1, <3>3
  <2>2. queue' \in Seq(Items) /\ Unique(queue')
    BY <1>0, <1>15, CancelledQueue DEF NcTimeout, Take
  <2>3. due' \in {Never} \cup (1 .. TIMEOUT)
    <3>1. due' \in {due, Never} \/ (left > 0 /\ due' = left)
      BY <1>15 DEF NcTimeout, Take
    <3>2. left \in 0 .. TIMEOUT /\ due \in {Never} \cup (1 .. TIMEOUT)
      OBVIOUS
    <3> QED BY <3>1, <3>2
  <2>4. /\ auth' \in {auth, 0} /\ armed' \in BOOLEAN /\ accepted' \in BOOLEAN
        /\ state' = state \/ (state' = "FAILED" /\ tracked # 0)
    BY <1>15 DEF NcTimeout, Take, Takes
  <2>5. UNCHANGED <<tracked, gen, authGen, securedGen, left, attempted, scanned, host, hands, decided>>
    BY <1>15 DEF NcTimeout
  <2> QED BY <1>0, <2>1, <2>2, <2>3, <2>4, <2>5 DEF Unique, States
<1>16. ASSUME NcTimeoutDone PROVE Typed'
  <2>1. worker.conn # 0
    BY <1>16 DEF NcTimeoutDone, Answering
  <2> QED BY <1>a, <1>16, <2>1 DEF NcTimeoutDone, Hangup, States
<1>17. ASSUME Tick PROVE Typed'
  <2>1. queue' \in Seq(Items) /\ Unique(queue')
    BY <1>0, <1>17, SubmitQueue DEF Tick, Items
  <2> QED BY <1>17, <2>1 DEF Tick, Unique
<1>18. ASSUME LinkLost PROVE Typed'
  BY <1>18 DEF LinkLost
<1>19. ASSUME NEW b \in Buttons, Touch(b) PROVE Typed'
  <2>1. queue' \in Seq(Items) /\ Unique(queue')
    BY <1>0, <1>19, SubmitQueue DEF Touch, Items
  <2> QED BY <1>19, <2>1 DEF Touch, Unique
<1>20. CASE UNCHANGED vars
  BY <1>20 DEF vars
<1> QED BY <1>1, <1>2, <1>3, <1>4, <1>5, <1>6, <1>7, <1>8, <1>9, <1>10, <1>11, <1>12, <1>13,
           <1>14, <1>15, <1>16, <1>17, <1>18, <1>19, <1>20
        DEF Next, HostNext, WorkerNext

(* The statics of pq_v1_security.c are typed at boot. *)
LEMMA TypedInit == Init => Typed
<1> SUFFICES ASSUME Init PROVE Typed
  OBVIOUS
<1>1. Idle \in Workers /\ Idle.op \notin Answering
  BY SecurityAssumption DEF Idle, Workers, Ops, Answering
<1>2. queue \in Seq(Items) /\ DOMAIN queue = {}
  BY DEF Init
<1>3. 0 \in 0 .. MAX_GEN /\ 0 \in 0 .. TIMEOUT
  BY SecurityAssumption
<1> QED BY <1>1, <1>2, <1>3 DEF Init, Typed, SecTypeOK, QueueTyped, LinkTracked, States

(* The types hold in every state. *)
THEOREM TypeCorrect == Spec => []Typed
  BY TypedInit, TypedStep, PTL DEF Spec

-----------------------------------------------------------------------------
(* clear_pending_locked ends the pending comparison, whichever it is. *)
LEMMA ClearEnds == ASSUME Typed, PendInv, ClearPending PROVE auth' = 0 /\ armed' = FALSE
  BY DEF ClearPending, PendInv, PendingTakeable, ArmedPending, Typed, SecTypeOK

(* Every step keeps the pending comparison takeable and its worker apart.   *)
LEMMA PendStep == Typed /\ PendInv /\ [Next]_vars => PendInv'
<1> SUFFICES ASSUME Typed, PendInv, [Next]_vars PROVE PendInv'
  OBVIOUS
<1> USE SecurityAssumption DEF fields, host, hands
<1>0. /\ worker \in Workers /\ gen \in Nat /\ (tracked # 0 => tracked = gen)
      /\ (tracked = 0 => state = "DISCONNECTED") /\ (link # "none" => tracked # 0)
      /\ (worker.op \in Answering => worker.conn # 0) /\ worker.conn \in Nat
  BY DEF Typed, SecTypeOK, QueueTyped, LinkTracked, Workers
<1>a. {attempted, accepted, armed} \subseteq BOOLEAN
  BY DEF Typed, SecTypeOK
<1> USE DEF PendInv, PendingTakeable, PairingAttempted, PendingCompares, AnswerOwed,
            ArmedPending, SecuredAccepted
<1>1. ASSUME NEW err \in BOOLEAN, OnConnected(err) PROVE PendInv'
  <2>1. auth = 0 /\ auth' = 0 /\ tracked' = gen + 1 /\ gen' = gen + 1 /\ worker' = worker
    BY <1>1 DEF OnConnected
  <2>2. state' # "L4_SECURED" /\ smp' = "idle" /\ armed' = FALSE
    BY <1>1 DEF OnConnected
  <2>3. worker.op \in Answering => worker.conn <= gen' /\ worker.conn # tracked'
    BY <1>0, <2>1
  <2> QED BY <2>1, <2>2, <2>3
<1>2. ASSUME OnDisconnected PROVE PendInv'
  <2>1. auth' = 0 /\ armed' = FALSE
    BY <1>2, ClearEnds DEF OnDisconnected
  <2>2. tracked' = 0 /\ gen' = gen + 1 /\ worker' = worker /\ state' = "DISCONNECTED"
        /\ smp' = "idle"
    BY <1>2 DEF OnDisconnected
  <2> QED BY <1>0, <2>1, <2>2
<1>3. ASSUME PairingAccept PROVE PendInv'
  <2>1. auth = 0 /\ ~armed
    BY <1>3 DEF PairingAccept
  <2> QED BY <1>3, <2>1 DEF PairingAccept
<1>4. ASSUME PasskeyDisplay PROVE PendInv'
  <2>1. auth = 0 /\ ~armed
    BY <1>4 DEF PasskeyDisplay
  <2> QED BY <1>4, <2>1 DEF PasskeyDisplay
<1>5. ASSUME PasskeyConfirm PROVE PendInv'
  <2>1. CASE Refuses
    BY <1>5, <2>1 DEF PasskeyConfirm, Refuses
  <2>2. CASE ~Refuses
    <3>1. auth = 0 /\ ~accepted /\ state # "FAILED" /\ tracked # 0 /\ attempted
      BY <1>0, <1>5, <2>2 DEF PasskeyConfirm, Refuses
    <3>2. worker.op \in Answering => worker.conn # tracked
      BY <3>1
    <3> QED BY <1>0, <1>5, <2>2, <3>1, <3>2 DEF PasskeyConfirm
  <2> QED BY <2>1, <2>2
<1>6. ASSUME AuthCancel \/ PairingFailed \/ PairingComplete PROVE PendInv'
  <2>1. auth' = 0 /\ armed' = FALSE
    BY <1>6, ClearEnds DEF AuthCancel, PairingFailed, PairingComplete
  <2> QED BY <1>6, <2>1 DEF AuthCancel, PairingFailed, PairingComplete
<1>7. ASSUME NEW r \in Reports, SecurityChanged(r) PROVE PendInv'
  <2>1. UNCHANGED <<tracked, gen, authGen, attempted, accepted, worker>>
    BY <1>7 DEF SecurityChanged
  <2>2. smp' \in {smp, "encrypted", "failing"}
    BY <1>7 DEF SecurityChanged, Encrypted
  <2>3. CASE state # "FAILED" /\ Secures(r)
    <3>1. state' = "L4_SECURED" /\ UNCHANGED <<auth, armed>> /\ (attempted => accepted)
      BY <1>7, <2>3 DEF SecurityChanged, Secures
    <3>2. auth = 0
      BY <3>1
    <3> QED BY <2>1, <2>2, <2>3, <3>1, <3>2
  <2>4. CASE ~(state # "FAILED" /\ Secures(r))
    <3>1. state' = "FAILED"
      BY <1>7, <2>4 DEF SecurityChanged
    <3>2. auth' = 0 /\ armed' = FALSE
      <4>1. CASE r.err \/ state # "FAILED"
        <5>1. ClearPending BY <1>7, <2>4, <4>1 DEF SecurityChanged
        <5> QED BY <5>1, ClearEnds
      <4>2. CASE ~(r.err \/ state # "FAILED")
        BY <1>7, <1>a, <2>4, <4>2 DEF SecurityChanged
      <4> QED BY <4>1, <4>2
    <3> QED BY <2>1, <2>2, <3>1, <3>2
  <2> QED BY <2>3, <2>4
<1>8. ASSUME Dequeue PROVE PendInv'
  <2>1. worker'.op \notin Answering
    BY <1>8 DEF Dequeue, Idle, Answering
  <2> QED BY <1>8, <2>1 DEF Dequeue
<1>9. ASSUME NcArm PROVE PendInv'
  BY <1>9 DEF NcArm
<1>10. ASSUME ButtonChanged PROVE PendInv'
  <2>1. worker'.op \notin Answering
    BY <1>0, <1>10 DEF ButtonChanged, Workers, Answering
  <2> QED BY <1>10, <2>1 DEF ButtonChanged
<1>11. ASSUME NEW accept \in BOOLEAN, Reply(accept) PROVE PendInv'
  <2>1. CASE Takes(worker.gen, accept)
    <3>1. /\ auth' = 0 /\ armed' = FALSE /\ accepted' = accept
          /\ state' = (IF accept THEN state ELSE "FAILED") /\ state = "NUMERIC_COMPARISON"
          /\ UNCHANGED <<tracked, gen, attempted, smp>> /\ auth = tracked /\ auth # 0
      BY <1>11, <2>1 DEF Reply, Take, Takes
    <3>2. worker'.conn = auth
      BY <1>0, <1>11, <2>1 DEF Reply, Workers
    <3> QED BY <1>0, <3>1, <3>2
  <2>2. CASE ~Takes(worker.gen, accept)
    <3>1. worker'.op \notin Answering
      BY <1>0, <1>11, <2>2 DEF Reply, Workers, Answering
    <3> QED BY <1>11, <2>2, <3>1 DEF Reply
  <2> QED BY <2>1, <2>2
<1>12. ASSUME HostConfirm \/ HostCancel PROVE PendInv'
  <2>1. worker.op \in Answering /\ worker'.conn = worker.conn
    BY <1>0, <1>12 DEF HostConfirm, HostCancel, Answering, Workers
  <2>2. smp' = smp \/ (auth = 0 /\ smp' # "pairing")
    BY <1>12, <2>1 DEF HostConfirm, HostCancel, Answerable
  <2> QED BY <1>12, <2>1, <2>2 DEF HostConfirm, HostCancel
<1>13. ASSUME ReplyDone PROVE PendInv'
  <2>1. worker.op \in Answering /\ worker'.op \notin Answering
    BY <1>0, <1>13 DEF ReplyDone, Answering, Workers
  <2>2. state' = state \/ (auth = 0 /\ state' = "FAILED")
    BY <1>13, <2>1 DEF ReplyDone
  <2> QED BY <1>13, <2>1, <2>2 DEF ReplyDone
<1>14. ASSUME ButtonDone \/ ClearBonds PROVE PendInv'
  <2>1. worker'.op \notin Answering
    BY <1>14 DEF ButtonDone, ClearBonds, Idle, Answering
  <2> QED BY <1>14, <2>1 DEF ButtonDone, ClearBonds
<1>15. ASSUME NcTimeout PROVE PendInv'
  <2>1. CASE ~(auth = 0 \/ left > 0) /\ Takes(authGen, FALSE)
    <3>1. /\ auth' = 0 /\ armed' = FALSE /\ accepted' = FALSE /\ state' = "FAILED"
          /\ worker' = [worker EXCEPT !.op = "expired", !.conn = auth]
          /\ UNCHANGED <<tracked, gen, attempted, smp>> /\ auth = tracked /\ auth # 0
      BY <1>15, <2>1 DEF NcTimeout, Take, Takes
    <3>2. worker'.conn = auth
      BY <1>0, <3>1 DEF Workers
    <3> QED BY <1>0, <3>1, <3>2
  <2>2. CASE ~(~(auth = 0 \/ left > 0) /\ Takes(authGen, FALSE))
    <3>1. worker' = Idle /\ UNCHANGED <<auth, armed, accepted, state>>
      BY <1>15, <2>2 DEF NcTimeout
    <3>2. worker'.op \notin Answering
      BY <3>1 DEF Idle, Answering
    <3> QED BY <1>15, <3>1, <3>2 DEF NcTimeout
  <2> QED BY <2>1, <2>2
<1>16. ASSUME NcTimeoutDone PROVE PendInv'
  <2>1. worker.op \in Answering /\ worker'.op \notin Answering
    BY <1>0, <1>16 DEF NcTimeoutDone, Answering, Idle
  <2>2. state' = state \/ (auth = 0 /\ state' = "FAILED")
    BY <1>16, <2>1 DEF NcTimeoutDone
  <2>3. smp' = smp \/ (auth = 0 /\ smp' # "pairing")
    BY <1>16, <2>1 DEF NcTimeoutDone, Answerable
  <2> QED BY <1>16, <2>1, <2>2, <2>3 DEF NcTimeoutDone
<1>17. ASSUME Tick \/ LinkLost \/ (\E b \in Buttons : Touch(b)) PROVE PendInv'
  BY <1>17 DEF Tick, LinkLost, Touch
<1>18. CASE UNCHANGED vars
  BY <1>18 DEF vars
<1> QED BY <1>1, <1>2, <1>3, <1>4, <1>5, <1>6, <1>7, <1>8, <1>9, <1>10, <1>11, <1>12, <1>13,
           <1>14, <1>15, <1>16, <1>17, <1>18
        DEF Next, HostNext, WorkerNext

-----------------------------------------------------------------------------
(* An arming that comes before every scan stays first when another item is  *)
(* submitted.                                                               *)
LEMMA ArmFirstSubmit ==
    ASSUME Typed, ArmFirst, NEW item \in {"scan", "timeout"}, queue' = Submit(queue, item)
    PROVE  ArmFirst'
<1>1. queue \in Seq(Items) /\ Unique(queue) /\ item \in Items
  BY DEF Typed, SecTypeOK, QueueTyped, Unique, Items
<1>2. /\ \A i \in DOMAIN queue : i \in DOMAIN queue' /\ queue'[i] = queue[i]
      /\ \A i \in DOMAIN queue' :
             (i \in DOMAIN queue /\ queue'[i] = queue[i])
             \/ (i = Len(queue) + 1 /\ queue'[i] = item /\ ~In(queue, item))
  BY <1>1, SubmitQueue
<1>3. Has("arm")'
  BY <1>2 DEF ArmFirst, Has
<1>4. ASSUME NEW i \in DOMAIN queue', NEW j \in DOMAIN queue', queue'[i] = "arm", queue'[j] = "scan"
      PROVE  i < j
  <2>1. i \in DOMAIN queue /\ queue[i] = "arm"
    BY <1>2, <1>4
  <2>2. CASE j \in DOMAIN queue /\ queue'[j] = queue[j]
    BY <1>4, <2>1, <2>2 DEF ArmFirst
  <2>3. CASE j = Len(queue) + 1
    <3>1. i \in 1 .. Len(queue) /\ Len(queue) \in Nat
      BY <1>1, <2>1
    <3> QED BY <2>3, <3>1
  <2> QED BY <1>2, <2>2, <2>3
<1> QED BY <1>3, <1>4 DEF ArmFirst

(* It also stays first when another item leaves, which is then no scan. *)
LEMMA ArmFirstTail ==
    ASSUME Typed, ArmFirst, queue # <<>>, Head(queue) # "arm", queue' = Tail(queue)
    PROVE  ArmFirst' /\ Head(queue) # "scan"
<1>1. queue \in Seq(Items) /\ Unique(queue)
  BY DEF Typed, SecTypeOK, QueueTyped, Unique
<1>2. /\ 1 \in DOMAIN queue /\ Head(queue) = queue[1]
      /\ \A i \in DOMAIN queue' : i + 1 \in DOMAIN queue /\ queue'[i] = queue[i + 1]
      /\ \A i \in DOMAIN queue : i # 1 => i - 1 \in DOMAIN queue' /\ queue'[i - 1] = queue[i]
  BY <1>1, TailQueue
<1>3. DOMAIN queue \subseteq Nat \ {0} /\ DOMAIN queue' \subseteq Nat
  BY <1>1, TailQueue
<1>4. PICK a \in DOMAIN queue : queue[a] = "arm"
  BY DEF ArmFirst, Has
<1>5. Has("arm")'
  <2>1. a # 1 BY <1>2, <1>4
  <2>2. a - 1 \in DOMAIN queue' /\ queue'[a - 1] = "arm" BY <1>2, <1>4, <2>1
  <2> QED BY <2>2 DEF Has
<1>6. Head(queue) # "scan"
  <2> SUFFICES ASSUME queue[1] = "scan" PROVE FALSE
    BY <1>2
  <2>1. a < 1 BY <1>2, <1>4 DEF ArmFirst
  <2> QED BY <1>3, <2>1
<1>7. ASSUME NEW i \in DOMAIN queue', NEW j \in DOMAIN queue', queue'[i] = "arm", queue'[j] = "scan"
      PROVE  i < j
  <2>1. i + 1 < j + 1
    BY <1>2, <1>7 DEF ArmFirst
  <2> QED BY <1>3, <2>1
<1> QED BY <1>5, <1>6, <1>7 DEF ArmFirst

(* A step that ends the pending comparison leaves no press to be taken. *)
LEMMA PressEnded ==
    ASSUME Typed, PressInv, auth' = 0, armed' = FALSE, AcceptedWasShown',
           worker' = worker \/ worker'.op \notin {"scan", "accept"},
           \A i \in DOMAIN queue' : In(queue, queue'[i])
    PROVE  PressInv'
<1>1. ScanAlone'
  BY DEF PressInv, ScanAlone, Has, In
<1> QED BY <1>1 DEF PressInv, StaleUnarmed, Stale, ScanFresh, PressNamed

(* So does one that leaves buttons, queue and comparison alone. *)
LEMMA PressQuiet ==
    ASSUME Typed, PressInv, UNCHANGED <<auth, armed, queue, held, shown>>, AcceptedWasShown',
           worker' = worker \/ worker'.op \notin {"scan", "accept"}
    PROVE  PressInv'
  BY DEF PressInv, ScanAlone, StaleUnarmed, Stale, ArmFirst, Has, ScanFresh, PressNamed

(* A new challenge disarms the buttons, and has its arming run before the   *)
(* next scan, unless that scan still sees the button held.                  *)
LEMMA PressChallenge ==
    ASSUME Typed, PressInv, PasskeyConfirm, ~Refuses PROVE PressInv'
<1>1. /\ armed' = FALSE /\ queue' = Submit(queue, "arm")
      /\ UNCHANGED <<worker, accepted, tracked, decided>>
  BY DEF PasskeyConfirm
<1>2. queue \in Seq(Items) /\ Unique(queue) /\ "arm" \in Items
  BY DEF Typed, SecTypeOK, QueueTyped, Unique, Items
<1>3. /\ In(queue', "arm")
      /\ \A i \in DOMAIN queue' : queue'[i] = "arm" \/ In(queue, queue'[i])
  <2>1. /\ In(Submit(queue, "arm"), "arm")
        /\ \A i \in DOMAIN Submit(queue, "arm") :
               (i \in DOMAIN queue /\ Submit(queue, "arm")[i] = queue[i])
               \/ Submit(queue, "arm")[i] = "arm"
    BY <1>2, SubmitQueue
  <2> QED BY <1>1, <2>1 DEF In
<1>4. ScanAlone'
  BY <1>1, <1>3 DEF PressInv, ScanAlone, Has, In
<1>5. StaleUnarmed'
  <2>1. CASE worker.op = "scan"
    <3>1. ~Has("scan")'
      BY <1>1, <1>4, <2>1 DEF ScanAlone
    <3> QED BY <1>1, <1>3, <3>1 DEF StaleUnarmed, ArmFirst, Has, In
  <2>2. CASE worker.op # "scan"
    BY <1>1, <2>2 DEF StaleUnarmed
  <2> QED BY <2>1, <2>2
<1> QED BY <1>1, <1>4, <1>5 DEF PressInv, ScanFresh, PressNamed, AcceptedWasShown

(* A scan reads a press the armed buttons may be taken for only when this   *)
(* challenge was on display.                                                *)
LEMMA PressDequeue == ASSUME Typed, PendInv, PressInv, Dequeue PROVE PressInv'
<1>1. /\ worker = Idle /\ queue # <<>> /\ Head(queue) # "arm" /\ queue' = Tail(queue)
      /\ UNCHANGED <<auth, armed, accepted, tracked, held, shown, decided>>
  BY DEF Dequeue, fields, hands
<1>2. queue \in Seq(Items) /\ Unique(queue)
  BY DEF Typed, SecTypeOK, QueueTyped, Unique
<1>3. AcceptedWasShown'
  BY <1>1 DEF PressInv, AcceptedWasShown
<1>4. CASE Head(queue) = "scan"
  <2>1. worker'.op = "scan" /\ worker'.pins = held /\ worker'.press = shown
    BY <1>4 DEF Dequeue, Idle
  <2>2. ScanAlone'
    BY <1>1, <1>2, <1>4, TailQueue DEF ScanAlone, Has
  <2>3. Stale => ~armed
    BY <1>1, <1>4, ArmFirstTail DEF PressInv, StaleUnarmed
  <2>4. StaleUnarmed'
    BY <1>1, <2>1, <2>3 DEF StaleUnarmed, Stale
  <2>5. ScanFresh'
    BY <1>1, <2>1, <2>3 DEF ScanFresh, Stale, PendInv, ArmedPending
  <2> QED BY <1>3, <2>1, <2>2, <2>4, <2>5 DEF PressInv, PressNamed
<1>5. CASE Head(queue) # "scan"
  <2>1. worker'.op = "timeout"
    BY <1>5 DEF Dequeue, Idle
  <2>2. ArmFirst => ArmFirst'
    BY <1>1, ArmFirstTail
  <2>3. StaleUnarmed'
    BY <1>1, <2>1, <2>2 DEF PressInv, StaleUnarmed, Stale
  <2> QED BY <1>3, <2>1, <2>3 DEF PressInv, ScanAlone, ScanFresh, PressNamed
<1> QED BY <1>4, <1>5

(* button_changed takes a press for the challenge it was made for. *)
LEMMA PressScanned == ASSUME Typed, PendInv, PressInv, ButtonChanged PROVE PressInv'
<1>1. /\ worker.op = "scan" /\ worker \in Workers
      /\ armed' = (armed \/ (worker.pins \cap Decisive = {} /\ auth # 0))
      /\ queue' = Rescan(queue)
      /\ UNCHANGED <<auth, accepted, tracked, authGen, held, shown, decided>>
  BY DEF ButtonChanged, hands, Typed, QueueTyped
<1>2. worker'.op \in {"after", "reject", "accept"}
      /\ worker'.press = worker.press /\ worker'.gen = authGen
  BY <1>1 DEF ButtonChanged, Workers
<1>3. worker'.op = "accept" => armed /\ "accept" \in worker.pins
  BY <1>1 DEF ButtonChanged, Workers, Pressed, Decisive
<1>4. PressNamed'
  <2> SUFFICES ASSUME worker'.op = "accept" PROVE worker'.press = worker'.gen
    BY DEF PressNamed
  <2>1. worker.press = auth /\ auth # 0
    BY <1>1, <1>3 DEF PressInv, ScanFresh, PendInv, ArmedPending
  <2>2. auth = authGen
    BY <2>1 DEF PendInv, PendingTakeable, Typed, LinkTracked
  <2> QED BY <1>2, <2>1, <2>2
<1>5. StaleUnarmed'
  <2> SUFFICES ASSUME Stale PROVE ArmFirst' \/ ~armed'
    BY <1>1, <1>2 DEF StaleUnarmed, Stale
  <2>1. CASE ArmFirst
    <3>1. queue' \in {queue, Submit(queue, "scan")}
      BY <1>1 DEF Rescan
    <3>2. CASE queue' = queue
      BY <2>1, <3>2 DEF ArmFirst, Has
    <3> QED BY <2>1, <3>1, <3>2, ArmFirstSubmit
  <2>2. CASE ~armed /\ "accept" \in worker.pins
    BY <1>1, <2>2 DEF Decisive
  <2> QED BY <1>1, <2>1, <2>2 DEF PressInv, StaleUnarmed
<1> QED BY <1>1, <1>2, <1>4, <1>5 DEF PressInv, ScanAlone, ScanFresh, AcceptedWasShown

(* numeric_comparison_reply accepts only with the press made for the        *)
(* connection that is tracked.                                              *)
LEMMA PressReply ==
    ASSUME Typed, PendInv, PressInv, NEW accept \in BOOLEAN, Reply(accept) PROVE PressInv'
<1>1. worker \in Workers /\ queue \in Seq(Items) /\ Unique(queue)
  BY DEF Typed, SecTypeOK, QueueTyped, Unique
<1>2. CASE Takes(worker.gen, accept)
  <2>1. /\ auth' = 0 /\ armed' = FALSE /\ accepted' = accept /\ queue' = Cancelled(queue)
        /\ decided' = (IF accept THEN worker.press ELSE decided)
        /\ tracked' = tracked /\ worker.gen = gen /\ tracked = gen
    BY <1>2 DEF Reply, Take, Takes, Typed, LinkTracked
  <2>2. worker'.op \in {"confirm", "cancel"}
    BY <1>1, <1>2 DEF Reply, Workers
  <2>3. AcceptedWasShown'
    BY <2>1 DEF Reply, PressInv, PressNamed, AcceptedWasShown
  <2>4. \A i \in DOMAIN queue' : In(queue, queue'[i])
    BY <1>1, <2>1, CancelledQueue DEF In
  <2> QED BY <2>1, <2>2, <2>3, <2>4, PressEnded
<1>3. CASE ~Takes(worker.gen, accept)
  <2>1. worker'.op = "after"
    BY <1>1, <1>3 DEF Reply, Workers
  <2> QED BY <1>3, <2>1, PressQuiet DEF Reply, hands, PressInv, AcceptedWasShown
<1> QED BY <1>2, <1>3

(* Every step keeps old presses from being taken. *)
LEMMA PressStep == Typed /\ PendInv /\ PressInv /\ [Next]_vars => PressInv'
<1> SUFFICES ASSUME Typed, PendInv, PressInv, [Next]_vars PROVE PressInv'
  OBVIOUS
<1> USE DEF fields, host, hands, AcceptedWasShown
<1>0. /\ queue \in Seq(Items) /\ Unique(queue) /\ worker \in Workers
      /\ (accepted => decided = tracked)
  BY DEF Typed, SecTypeOK, QueueTyped, Unique, PressInv
<1>1. ASSUME NEW err \in BOOLEAN, OnConnected(err) PROVE PressInv'
  <2>1. auth = 0
    BY <1>1 DEF OnConnected, PendInv, PendingTakeable
  <2> QED BY <1>1, <2>1, PressEnded DEF OnConnected, In
<1>2. ASSUME ClearPending, UNCHANGED worker, accepted' => accepted /\ UNCHANGED <<decided, tracked>>
      PROVE  PressInv'
  BY <1>0, <1>2, ClearEnds, ClearTyped, PressEnded
<1>3. ASSUME OnDisconnected \/ AuthCancel \/ PairingFailed \/ PairingComplete PROVE PressInv'
  BY <1>2, <1>3 DEF OnDisconnected, AuthCancel, PairingFailed, PairingComplete
<1>4. ASSUME PairingAccept \/ PasskeyDisplay \/ (PasskeyConfirm /\ Refuses) PROVE PressInv'
  BY <1>0, <1>4, PressQuiet DEF PairingAccept, PasskeyDisplay, PasskeyConfirm
<1>5. ASSUME NEW r \in Reports, SecurityChanged(r) PROVE PressInv'
  <2>1. ClearPending \/ UNCHANGED <<auth, armed, queue>>
    BY <1>5 DEF SecurityChanged
  <2>2. UNCHANGED <<worker, held, shown, accepted, decided, tracked>>
    BY <1>5 DEF SecurityChanged
  <2> QED BY <1>0, <1>2, <2>1, <2>2, PressQuiet
<1>6. ASSUME NcArm PROVE PressInv'
  <2>1. /\ worker.op = "idle" /\ queue' = Tail(queue) /\ queue # <<>>
        /\ (auth # 0 => armed' = (held \cap Decisive = {}))
        /\ UNCHANGED <<worker, auth, held, shown, accepted, decided, tracked>>
    BY <1>6 DEF NcArm, Idle
  <2>2. StaleUnarmed'
    BY <2>1 DEF StaleUnarmed, Stale, Decisive
  <2> QED BY <1>0, <2>1, <2>2 DEF PressInv, ScanAlone, ScanFresh, PressNamed
<1>7. ASSUME HostConfirm \/ HostCancel \/ ReplyDone PROVE PressInv'
  <2>1. worker'.op \in {"after", "fail", "drop"}
    BY <1>0, <1>7 DEF HostConfirm, HostCancel, ReplyDone, Workers
  <2> QED BY <1>0, <1>7, <2>1, PressQuiet DEF HostConfirm, HostCancel, ReplyDone
<1>8. ASSUME ButtonDone \/ ClearBonds \/ NcTimeoutDone PROVE PressInv'
  <2>1. worker'.op \in {"idle", "unpair"}
    BY <1>8 DEF ButtonDone, ClearBonds, NcTimeoutDone, Idle
  <2> QED BY <1>0, <1>8, <2>1, PressQuiet DEF ButtonDone, ClearBonds, NcTimeoutDone
<1>9. ASSUME NcTimeout PROVE PressInv'
  <2>1. UNCHANGED <<held, shown, decided, tracked>>
    BY <1>9 DEF NcTimeout
  <2>2. CASE worker' = Idle
    <3>1. UNCHANGED <<auth, armed, queue, accepted>>
      <4>1. Idle.op # "expired" BY DEF Idle
      <4>2. [worker EXCEPT !.op = "expired", !.conn = auth] # Idle
        BY <1>0, <4>1 DEF Workers
      <4> QED BY <1>9, <2>2, <4>2 DEF NcTimeout
    <3>2. worker'.op = "idle" BY <2>2 DEF Idle
    <3> QED BY <1>0, <2>1, <3>1, <3>2, PressQuiet
  <2>3. CASE worker' # Idle
    <3>1. /\ Take(FALSE) /\ worker' = [worker EXCEPT !.op = "expired", !.conn = auth]
      BY <1>9, <2>3 DEF NcTimeout
    <3>2. worker'.op = "expired"
      BY <1>0, <3>1 DEF Workers
    <3>3. \A i \in DOMAIN queue' : In(queue, queue'[i])
      BY <1>0, <3>1, CancelledQueue DEF Take, In
    <3> QED BY <3>1, <3>2, <3>3, PressEnded DEF Take
  <2> QED BY <2>2, <2>3
<1>10. ASSUME Tick PROVE PressInv'
  <2>1. CASE queue' = queue
    BY <1>0, <1>10, <2>1, PressQuiet DEF Tick
  <2>2. CASE queue' # queue
    <3>1. queue' = Submit(queue, "timeout") /\ "timeout" \in Items
          /\ UNCHANGED <<worker, auth, armed, held, shown, accepted, decided, tracked>>
      BY <1>10, <2>2 DEF Tick, Items
    <3>2. ArmFirst => ArmFirst'
      BY <3>1, ArmFirstSubmit
    <3>3. \A i \in DOMAIN queue' : queue'[i] = "timeout" \/ In(queue, queue'[i])
      BY <1>0, <3>1, SubmitQueue DEF In
    <3>4. ScanAlone'
      BY <3>1, <3>3 DEF PressInv, ScanAlone, Has, In
    <3> QED BY <1>0, <3>1, <3>2, <3>4 DEF PressInv, StaleUnarmed, Stale, ScanFresh, PressNamed
  <2> QED BY <2>1, <2>2
<1>11. ASSUME LinkLost PROVE PressInv'
  BY <1>0, <1>11, PressQuiet DEF LinkLost
<1>12. ASSUME NEW b \in Buttons, Touch(b) PROVE PressInv'
  <2>1. UNCHANGED <<worker, auth, armed, accepted, decided, tracked>>
    BY <1>12 DEF Touch
  <2>2. ScanAlone'
    BY <1>12, <2>1 DEF Touch, PressInv, ScanAlone, Has
  <2>3. ArmFirst => ArmFirst'
    <3>1. CASE queue' = queue BY <3>1 DEF ArmFirst, Has
    <3>2. CASE queue' = Submit(queue, "scan") BY <3>2, ArmFirstSubmit
    <3> QED BY <1>12, <3>1, <3>2 DEF Touch
  <2>4. Stale' => Stale
    BY <1>12, <2>1 DEF Touch, Stale
  <2>5. StaleUnarmed'
    BY <2>1, <2>3, <2>4 DEF PressInv, StaleUnarmed
  <2> QED BY <1>0, <2>1, <2>2, <2>5 DEF PressInv, ScanFresh, PressNamed
<1>13. CASE UNCHANGED vars
  BY <1>0, <1>13, PressQuiet DEF vars
<1> QED BY <1>1, <1>3, <1>4, <1>5, <1>6, <1>7, <1>8, <1>9, <1>10, <1>11, <1>12, <1>13,
           PressChallenge, PressDequeue, PressScanned, PressReply
        DEF Next, HostNext, WorkerNext

(* The whole invariant of the gate holds in every state. *)
THEOREM GateInvariant == Spec => [](Typed /\ PendInv /\ PressInv)
<1>1. Init => PendInv /\ PressInv
  BY DEF Init, Idle, PendInv, PendingTakeable, PairingAttempted, PendingCompares, AnswerOwed,
         Answering, ArmedPending, SecuredAccepted, PressInv, ScanAlone, StaleUnarmed, Stale,
         ScanFresh, PressNamed, AcceptedWasShown
<1>2. Typed /\ PendInv /\ PressInv /\ [Next]_vars => PendInv' /\ PressInv'
  BY PendStep, PressStep
<1> QED BY <1>1, <1>2, TypeCorrect, PTL DEF Spec

(* The gate is typed, opens only for a link the operator vouched for, and   *)
(* a pending comparison can always be taken by button or timeout.           *)
THEOREM SecuritySafe == Spec => []SecurityInv
<1>1. Typed /\ PendInv /\ PressInv => SecurityInv
  BY DEF Typed, PendInv, PressInv, SecurityInv, GateVouched, Gate, SecuredAccepted,
         AcceptedWasShown
<1> QED BY <1>1, GateInvariant, PTL

(* nc_accepted stands for a press of ACCEPT made while the challenge of the *)
(* tracked connection was on display.                                       *)
THEOREM AcceptSafe == Spec => []AcceptedWasShown
<1>1. PressInv => AcceptedWasShown BY DEF PressInv
<1> QED BY <1>1, GateInvariant, PTL

(* A connection that failed stays failed until it is disconnected: no       *)
(* callback, button or late answer of the worker leads out of FAILED.       *)
THEOREM FailureSticks == Spec => FailedSticks
<1>1. Typed /\ [Next]_vars => [state = "FAILED" => state' \in {"FAILED", "DISCONNECTED"}]_state
  <2> SUFFICES ASSUME Typed, [Next]_vars, state = "FAILED"
               PROVE  state' \in {"FAILED", "DISCONNECTED"}
    OBVIOUS
  <2> USE DEF fields
  <2>1. tracked # 0
    BY DEF Typed, LinkTracked
  <2>2. HostNext => state' \in {"FAILED", "DISCONNECTED"}
    BY <2>1 DEF HostNext, OnConnected, OnDisconnected, PairingAccept, PasskeyDisplay,
                PasskeyConfirm, Refuses, AuthCancel, PairingFailed, PairingComplete,
                SecurityChanged
  <2>3. WorkerNext => state' = "FAILED"
    BY DEF WorkerNext, Dequeue, NcArm, ButtonChanged, Reply, Takes, HostConfirm, HostCancel,
           ReplyDone, ButtonDone, ClearBonds, NcTimeout, NcTimeoutDone
  <2>4. Tick \/ LinkLost \/ (\E b \in Buttons : Touch(b)) \/ UNCHANGED vars => state' = "FAILED"
    BY DEF Tick, LinkLost, Touch, vars
  <2> QED BY <2>2, <2>3, <2>4 DEF Next
<1> QED BY <1>1, TypeCorrect, PTL DEF Spec, FailedSticks
=============================================================================
