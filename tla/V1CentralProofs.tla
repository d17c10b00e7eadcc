--------------------------- MODULE V1CentralProofs ---------------------------
(***************************************************************************)
(* The Central of profile v1.0 with its Peripheral, for every number of     *)
(* processes, disturbances and connections.  What V1HandshakeProofs proves  *)
(* of the Peripheral holds in the composed system; a ceremony that is over  *)
(* stays over; no exchange on a link that began without a bond goes without *)
(* the consent of the Central's operator; the two ends agree on keys and    *)
(* counters; PASS is earned; and a process that nothing disturbs passes.    *)
(***************************************************************************)
EXTENDS V1Central, V1HandshakeProofs

-----------------------------------------------------------------------------
(* The types of the pairing and of the process. *)
Ceremonies == [kind : Kinds \cup {"none"}, active : BOOLEAN, received : BOOLEAN,
               ceremony : Kinds \cup {"none"}, decision : {"none", "yes", "no"},
               accepted : BOOLEAN, deferral : BOOLEAN, task : {"none", "queued", "asking"},
               error : BOOLEAN, late : BOOLEAN]
Operations == [state : {"off", "running", "returned", "over"},
               status : {"none", "PAIRED", "ALREADY_PAIRED"} \cup Refusals, events : Nat]
Negatives == {"none", "pre-l4-only", "nc-reject", "just-works"}
Targets == {"none", "inspect", "subscribe", "verify"}
Places == {"exit", "connect", "inspect", "ensure", "probe", "pair", "ceremony", "retire",
           "verify", "cleanup", "report"} \cup Exchange
Sessions == {"NEW", "WAIT_READY_CP3", "WAIT_FINISHED_P", "APP_SECURE", "CLOSED"}
Verdicts == {"none", "ok", "passed", "error"}
Processes == [pc : Places, mode : {"none", "cp1", "cp2", "cp3", "cp4"}, neg : Negatives,
              unpair : BOOLEAN, then : Targets, cold : BOOLEAN, link : Nat, hs : Sessions,
              tx : Nat, rx : Nat, verdict : Verdicts, base : Int, opened : BOOLEAN,
              early : BOOLEAN]
PairingTyped == cer \in Ceremonies /\ os \in Operations
ProcessTyped == c \in Processes /\ faults \in 0 .. MaxFaults /\ runs \in 0 .. MaxRuns
SystemTyped == Typed /\ PairingTyped /\ ProcessTyped

(* A ceremony that goes on has an operation that goes on, so an answer that *)
(* is heard is never late.                                                  *)
CeremonyInv == CeremonyClean /\ ~cer.late /\ (cer.active => os.state \in {"running", "returned"})

(* The ceremony under way is the one the run calls for; and consent, once   *)
(* given, stands from the reconnection after the pairing to the end of the  *)
(* exchange: the ceremony is over, and no late event can change it.         *)
RightKind == At("ceremony") => cer.kind = Kind
Heading == At("ensure") => c.then # "none"
Admitted == c.pc \in Exchange \/ (At("ensure") /\ c.then = "subscribe")
ConsentKept ==
    c.cold /\ Admitted => /\ cer.decision = "yes" /\ cer.accepted /\ os.status = "PAIRED"
                          /\ ~cer.active
ConsentInv == RightKind /\ Heading /\ ConsentKept
CentralInv == SystemTyped /\ CeremonyInv /\ ConsentInv

-----------------------------------------------------------------------------
(* How the process moves: fields that a change of its place leaves alone.   *)
LEMMA MovesTyped ==
  ASSUME c \in Processes
  PROVE  /\ \A pc \in Places : /\ To(pc) \in Processes /\ To(pc).pc = pc /\ To(pc).cold = c.cold
                               /\ To(pc).then = c.then /\ To(pc).neg = c.neg
         /\ \A v \in Verdicts : Ends(v) \in Processes /\ Ends(v).pc = "cleanup"
         /\ /\ Closed(c) \in Processes /\ Closed(c).pc = c.pc /\ Closed(c).cold = c.cold
            /\ Closed(c).then = c.then /\ Closed(c).neg = c.neg
<1>1. \A pc \in Places : /\ To(pc) \in Processes /\ To(pc).pc = pc /\ To(pc).cold = c.cold
                         /\ To(pc).then = c.then /\ To(pc).neg = c.neg
  BY DEF To, Processes
<1>2. \A x \in Processes : /\ Closed(x) \in Processes /\ Closed(x).pc = x.pc
                           /\ Closed(x).cold = x.cold /\ Closed(x).then = x.then
                           /\ Closed(x).neg = x.neg
  <2> SUFFICES ASSUME NEW x \in Processes
               PROVE  /\ Closed(x) \in Processes /\ Closed(x).pc = x.pc
                      /\ Closed(x).cold = x.cold /\ Closed(x).then = x.then
                      /\ Closed(x).neg = x.neg
    OBVIOUS
  <2> DEFINE h == IF x.hs = "NEW" THEN x.hs ELSE "CLOSED"
  <2>1. Closed(x) = [x EXCEPT !.hs = h]
    BY DEF Closed
  <2>2. h \in Sessions
    BY DEF Processes, Sessions
  <2> HIDE DEF h
  <2> QED BY <2>1, <2>2 DEF Processes
<1>3. ASSUME NEW v \in Verdicts PROVE Ends(v) \in Processes /\ Ends(v).pc = "cleanup"
  <2>1. Unwound \in Processes
    <3> DEFINE x == Closed(c)
    <3>1. x \in Processes BY <1>2
    <3> HIDE DEF x
    <3>2. Unwound = [x EXCEPT !.link = 0, !.tx = 0, !.rx = 0, !.cold = FALSE, !.unpair = FALSE]
      BY DEF Unwound, x
    <3> QED BY <3>1, <3>2 DEF Processes
  <2> DEFINE x == IF v = "ok" THEN c ELSE Unwound
  <2>2. x \in Processes /\ Ends(v) = [x EXCEPT !.pc = "cleanup", !.verdict = v]
    BY <2>1 DEF Ends
  <2> HIDE DEF x
  <2> QED BY ZenonT(40), <2>2 DEF Processes, Places
<1> QED BY <1>1, <1>2, <1>3

-----------------------------------------------------------------------------
(* The steps of the Peripheral other than START_CP3 and PING. *)
PlainNext ==
    \/ Connected \/ Disconnected \/ SecurityUp \/ SecurityLost \/ SecurityChanged
    \/ Subscribe \/ Unsubscribe \/ Cp4Denied
    \/ \E next \in {"EMPTY", "RECEIVING", "READY"} : WriteCiphertext(next)
    \/ \E good \in BOOLEAN : Cp2Start(good) \/ FinishedC(good)
    \/ WorkerNext \/ TimerNext \/ Tick

(* Every step of the composed system is one of the Peripheral or none, and  *)
(* a handshake or a PING starts only where the Central sends it.            *)
LEMMA PlainOrSent ==
  ASSUME V1Next
  PROVE  \/ [PlainNext]_vars
         \/ SendStart /\ \E good \in BOOLEAN : Cp3Start(good)
         \/ SendPing /\ \E good \in BOOLEAN : Ping(good)
<1> USE DEF Step, Calls
<1>1. NewRun \/ ClearDkBonds \/ PreL4Probes \/ Pair \/ PairReturns \/ PairTimesOut \/ VerifyClosed
      => UNCHANGED vars
  BY DEF NewRun, ClearDkBonds, PreL4Probes, Probes, Pair, PairReturns, PairTimesOut, VerifyClosed
<1>2. Attest("attest1", "info1") \/ Attest("attest2", "info2") => UNCHANGED vars
  BY DEF Attest, Fails
<1>3. Attested \/ ReadyV1 \/ AcceptReady \/ AcceptFinishedP \/ Quiet \/ AcceptPong \/ Settle
      => UNCHANGED vars
  BY DEF Attested, ReadyV1, AcceptReady, AcceptFinishedP, Quiet, AcceptPong, Settle, Receives
<1>4. ScanAndConnect \/ Inspect \/ EnsureConnected \/ RetireLink \/ StopNotify \/ Report
      => [PlainNext]_vars
  BY DEF ScanAndConnect, Inspect, EnsureConnected, RetireLink, StopNotify, Report, PlainNext
<1>5. StartNotify \/ Upload => [PlainNext]_vars
  BY DEF StartNotify, Upload, Writes, Fails, PlainNext
<1>6. SendFinishedC => [PlainNext]_vars
  BY DEF SendFinishedC, Submits, Fails, PlainNext
<1>7. SendStart => [PlainNext]_vars \/ \E good \in BOOLEAN : Cp3Start(good)
  BY DEF SendStart, Submits, Fails, PlainNext
<1>8. SendPing => [PlainNext]_vars \/ \E good \in BOOLEAN : Ping(good)
  BY DEF SendPing, Fails, PlainNext
<1>9. PeripheralNext => [PlainNext]_vars
  BY DEF PeripheralNext, WorkerMoves, Delivers, DeliveryFails, HostMoves, PlainNext, WorkerNext
<1>10. PairingNext => [PlainNext]_vars
  BY DEF PairingNext, CeremonyStep, Pairs, PairsElsewhere, Refuses, PlainNext
<1>11. DisturbedNext => [PlainNext]_vars
  BY DEF DisturbedNext, TimePasses, FinishedLate, LinkLost, Downgraded, Aborts, Unsolicited,
         PlainNext, WorkerNext
<1> QED BY <1>1, <1>2, <1>3, <1>4, <1>5, <1>6, <1>7, <1>8, <1>9, <1>10, <1>11
        DEF V1Next, ProcessNext, AllDone, system

(* So every step is one of module V1Handshake or none. *)
LEMMA PeripheralStep ==
  ASSUME Typed, V1Next
  PROVE  [Next]_vars
<1>1. PlainNext => Next
  BY DEF PlainNext, Next, HostNext
<1>2. ASSUME NEW good \in BOOLEAN, Ping(good) PROVE Next
  <2>1. c.tx \in 0 .. SEQ_MAX
    BY <1>2 DEF Ping, Cp4Ping, Accepts4, Typed, HandshakeTypeOK
  <2> QED BY <1>2, <2>1 DEF Ping, Next, HostNext
<1> QED BY <1>1, <1>2, PlainOrSent DEF Next, HostNext

(* The Peripheral of the composed system behaves as module V1Handshake      *)
(* says, whatever the Central, the pairing and the disturbances do.         *)
THEOREM PeripheralImplemented == V1Spec => Spec
<1>1. V1Init => Init
  BY DEF V1Init
<1>2. Typed /\ [V1Next]_system => [Next]_vars
  BY PeripheralStep DEF system
<1> QED BY <1>1, <1>2, InitTyped, TypedStep, PTL DEF V1Spec, Spec

(* So its secrets, its job slot and its counters are sound in it.           *)
THEOREM PeripheralSafe == V1Spec => [](HandshakeInv /\ DrainWipesNothing /\ NextPongFresh)
  BY PeripheralImplemented, HandshakeSafe, DrainSafe, PongSafe, PTL

-----------------------------------------------------------------------------
(* Which steps touch the ceremony. *)
Handles == (\E kind \in Kinds, raises \in BOOLEAN : PairingRequested(kind, raises)) \/ StartDecision
Answers == \E answer \in {"yes", "no", "none"}, accepts, raises \in BOOLEAN :
               Decide(answer, accepts, raises)
Returns == OsPairs \/ \E status \in {"PAIRED", "ALREADY_PAIRED"} \cup Refusals :
                          OsPairsElsewhere(status) \/ OsRefuses(status)
Stops == \E returned \in BOOLEAN : Stop(returned)
Forgets == cer' = NoCeremony /\ os' = NoOperation
Touches ==
    \/ UNCHANGED <<cer, os>> \/ Handles \/ Answers \/ Returns \/ Stops \/ Forgets
    \/ PairAsync(Kind)

(* Every step leaves the ceremony alone or is one of the named ones.        *)
LEMMA CeremonyTouched ==
  ASSUME V1Next
  PROVE  Touches
<1> USE DEF Step, Calls
<1>1. ASSUME UNCHANGED pairing PROVE Touches
  BY <1>1 DEF pairing, Touches
<1>2. CASE NewRun \/ ClearDkBonds \/ AllDone \/ Inspect
  BY <1>1, <1>2 DEF NewRun, ClearDkBonds, AllDone, Inspect, system, Touches
<1>3. CASE Pair \/ Report
  BY <1>1, <1>3 DEF Pair, Report, Touches, Forgets
<1>4. CASE PairReturns \/ PairTimesOut
  BY <1>4 DEF PairReturns, PairTimesOut, Touches, Stops
<1>5. CASE PairingNext
  <2>1. CASE CeremonyStep
    BY <2>1 DEF CeremonyStep, Touches, Handles, Answers
  <2>2. CASE Pairs \/ PairsElsewhere \/ Refuses
    BY <2>2 DEF Pairs, PairsElsewhere, Refuses, Touches, Returns
  <2> QED BY <1>5, <2>1, <2>2 DEF PairingNext
<1>6. CASE ScanAndConnect \/ EnsureConnected \/ PreL4Probes \/ RetireLink \/ VerifyClosed
  BY <1>1, <1>6 DEF ScanAndConnect, EnsureConnected, PreL4Probes, Probes, RetireLink, VerifyClosed
<1>7. CASE StartNotify \/ Upload \/ SendStart \/ SendFinishedC \/ SendPing
  BY <1>1, <1>7 DEF StartNotify, Upload, SendStart, SendFinishedC, SendPing, Writes, Submits, Fails
<1>8. CASE Attest("attest1", "info1") \/ Attest("attest2", "info2")
  BY <1>1, <1>8 DEF Attest, Fails
<1>9. CASE \/ Attested \/ ReadyV1 \/ AcceptReady \/ AcceptFinishedP \/ Quiet \/ AcceptPong
           \/ Settle \/ StopNotify
  BY <1>1, <1>9 DEF Attested, ReadyV1, AcceptReady, AcceptFinishedP, Quiet, AcceptPong, Settle,
                    StopNotify, Receives
<1>10. CASE PeripheralNext
  BY <1>1, <1>10 DEF PeripheralNext, WorkerMoves, Delivers, DeliveryFails, HostMoves, Sends
<1>11. CASE DisturbedNext
  BY <1>1, <1>11 DEF DisturbedNext, TimePasses, FinishedLate, LinkLost, Downgraded, Aborts,
                     Unsolicited, Sends
<1> QED BY <1>2, <1>3, <1>4, <1>5, <1>6, <1>7, <1>8, <1>9, <1>10, <1>11 DEF V1Next, ProcessNext

-----------------------------------------------------------------------------
(* What the handler, the operator and stop make of a ceremony: the kind is  *)
(* kept, and one that is over hears nothing.                                *)
Result == <<cer.kind, cer.active, cer.decision, cer.accepted>>

(* The handler and the start of the decision.  A decision is asked for only *)
(* in a ceremony that goes on.                                              *)
LEMMA HandlesInv ==
  ASSUME PairingTyped, CeremonyInv, Handles
  PROVE  /\ PairingTyped' /\ CeremonyInv' /\ cer'.kind = cer.kind /\ os'.status = os.status
         /\ ~cer.active => UNCHANGED Result
<1> USE DEF PairingTyped, CeremonyInv, CeremonyClean, Result
<1>1. ASSUME NEW kind \in Kinds, NEW raises \in BOOLEAN, PairingRequested(kind, raises)
      PROVE  /\ PairingTyped' /\ CeremonyInv' /\ cer'.kind = cer.kind /\ os'.status = os.status
             /\ ~cer.active => UNCHANGED Result
  <2>1. os' \in Operations /\ os'.state = os.state /\ os'.status = os.status
    BY <1>1 DEF PairingRequested, Operations
  <2>2. CASE ~cer.active
    BY <1>1, <2>1, <2>2 DEF PairingRequested, Handled
  <2>3. CASE cer.active
    <3>1. /\ cer' \in Ceremonies /\ cer'.kind = cer.kind /\ cer'.active = cer.active
          /\ cer'.late = cer.late
      BY <1>1, <2>3 DEF PairingRequested, Handled, Complete, Ceremonies
    <3> QED BY <2>1, <2>3, <3>1
  <2> QED BY <2>2, <2>3
<1>2. CASE StartDecision
  <2> DEFINE t == IF cer.active /\ ~cer.error THEN "asking" ELSE "none"
  <2>1. cer' = [cer EXCEPT !.task = t] /\ os' = os
    BY <1>2 DEF StartDecision
  <2>2. t \in {"asking", "none"} /\ (t = "asking" => cer.active)
    OBVIOUS
  <2> HIDE DEF t
  <2>3. /\ cer' \in Ceremonies /\ cer'.kind = cer.kind /\ cer'.active = cer.active
        /\ cer'.late = cer.late /\ cer'.task = t /\ cer'.deferral = cer.deferral
        /\ cer'.decision = cer.decision /\ cer'.accepted = cer.accepted
    BY <2>1, <2>2 DEF Ceremonies
  <2> QED BY <2>1, <2>2, <2>3
<1> QED BY <1>1, <1>2 DEF Handles

(* An answer: the ceremony that asks goes on, so its operation is not over  *)
(* and the answer is not late.                                              *)
LEMMA AnswersInv ==
  ASSUME PairingTyped, CeremonyInv, Answers
  PROVE  /\ PairingTyped' /\ CeremonyInv' /\ cer'.kind = cer.kind /\ os'.status = os.status
         /\ cer.active
<1> USE DEF PairingTyped, CeremonyInv, CeremonyClean
<1>1. PICK answer \in {"yes", "no", "none"}, accepts, raises \in BOOLEAN :
          Decide(answer, accepts, raises)
  BY DEF Answers
<1>2. cer.active /\ os.state # "over"
  BY <1>1 DEF Decide
<1> DEFINE heard == cer.active /\ ~cer.error
           d == IF heard /\ answer # "none" THEN answer ELSE cer.decision
           a == cer.accepted \/ (heard /\ accepts)
           l == cer.late \/ (heard /\ accepts /\ os.state = "over")
           e == cer.error \/ raises
<1>3. cer' = Complete([cer EXCEPT !.task = "none", !.late = l, !.decision = d, !.accepted = a,
                                  !.error = e])
  BY <1>1 DEF Decide
<1>4. d \in {"none", "yes", "no"} /\ a \in BOOLEAN /\ l = FALSE /\ e \in BOOLEAN
  BY <1>2 DEF Ceremonies
<1> HIDE DEF heard, d, a, l, e
<1>5. /\ cer' \in Ceremonies /\ cer'.kind = cer.kind /\ cer'.active = cer.active
      /\ cer'.late = FALSE
  BY ZenonT(40), <1>3, <1>4 DEF Complete, Ceremonies
<1> QED BY <1>1, <1>2, <1>5 DEF Decide

(* The end of the native operation. *)
LEMMA ReturnsInv ==
  ASSUME PairingTyped, CeremonyInv, Returns
  PROVE  PairingTyped' /\ CeremonyInv' /\ cer' = cer
<1>1. PICK status \in {"PAIRED", "ALREADY_PAIRED"} \cup Refusals :
          os' = [os EXCEPT !.state = "returned", !.status = status] /\ cer' = cer
  BY DEF Returns, OsPairs, OsPairsElsewhere, OsRefuses
<1>2. os' \in Operations /\ os'.state = "returned"
  BY <1>1 DEF PairingTyped, Operations
<1> QED BY <1>1, <1>2 DEF PairingTyped, CeremonyInv, CeremonyClean

(* stop keeps what was decided. *)
LEMMA StopsInv ==
  ASSUME PairingTyped, CeremonyInv, Stops
  PROVE  /\ PairingTyped' /\ CeremonyInv' /\ ~cer'.active /\ os'.status = os.status
         /\ cer'.kind = cer.kind /\ cer'.decision = cer.decision /\ cer'.accepted = cer.accepted
<1> DEFINE t == IF cer.task = "asking" THEN "none" ELSE cer.task
<1>1. /\ cer' = [Complete(cer) EXCEPT !.active = FALSE, !.task = t]
      /\ os' = [os EXCEPT !.state = "over"]
  BY DEF Stops, Stop, Stopped, Complete, PairingTyped, Ceremonies
<1>2. t \in {"none", "queued"}
  BY DEF PairingTyped, Ceremonies
<1> HIDE DEF t
<1>3. /\ cer' \in Ceremonies /\ cer'.active = FALSE /\ cer'.deferral = FALSE /\ cer'.task = t
      /\ cer'.late = cer.late /\ cer'.kind = cer.kind /\ cer'.decision = cer.decision
      /\ cer'.accepted = cer.accepted
  BY <1>1, <1>2 DEF PairingTyped, Complete, Ceremonies
<1>4. os' \in Operations /\ os'.status = os.status
  BY <1>1 DEF PairingTyped, Operations
<1> QED BY <1>2, <1>3, <1>4 DEF PairingTyped, CeremonyInv, CeremonyClean

(* A new ceremony, and none. *)
LEMMA FreshInv ==
  ASSUME PairAsync(Kind) \/ Forgets
  PROVE  PairingTyped' /\ CeremonyInv' /\ (PairAsync(Kind) => cer'.kind = Kind)
<1> USE DEF NoCeremony, NoOperation, Ceremonies, Operations
<1>1. Kind \in Kinds
  BY DEF Kind, Kinds
<1>2. CASE PairAsync(Kind)
  <2>1. cer' \in Ceremonies /\ cer'.active = TRUE /\ cer'.late = FALSE /\ cer'.kind = Kind
    BY <1>1, <1>2 DEF PairAsync
  <2>2. os' \in Operations /\ os'.state = "running"
    BY <1>2 DEF PairAsync
  <2> QED BY <2>1, <2>2 DEF PairingTyped, CeremonyInv, CeremonyClean
<1>3. CASE Forgets /\ ~PairAsync(Kind)
  BY <1>3 DEF Forgets, PairingTyped, CeremonyInv, CeremonyClean
<1> QED BY <1>2, <1>3

-----------------------------------------------------------------------------
(* A step onward: the ceremony is left alone, and the process stays in the  *)
(* exchange, or in its way to it, with the bond it began with, or leaves it. *)
Onward ==
    /\ UNCHANGED <<cer, os>> /\ c' \in Processes
    /\ \/ c'.pc = c.pc /\ c'.then = c.then /\ c'.cold = c.cold /\ c'.neg = c.neg
       \/ c.pc \in Exchange /\ c'.pc \in Exchange /\ c'.cold = c.cold
       \/ c'.pc \notin Exchange \cup {"ensure", "ceremony"}

(* Consent stands through such a step. *)
LEMMA OnwardInv ==
  ASSUME ProcessTyped, ConsentInv, Onward
  PROVE  ConsentInv' /\ c' \in Processes
<1>1. "ensure" \notin Exchange /\ "ceremony" \notin Exchange
  BY DEF Exchange
<1> QED BY <1>1 DEF ProcessTyped, ConsentInv, RightKind, Heading, ConsentKept, Admitted, At, Kind, Onward

(* The end of a process, also from a failed call. *)
LEMMA EndsOnward ==
  ASSUME c \in Processes, UNCHANGED <<cer, os>>, NEW v \in Verdicts,
         NEW b \in Int, NEW e \in BOOLEAN,
         c' \in {Ends(v), [Ends(v) EXCEPT !.base = b], [Ends(v) EXCEPT !.early = e]}
  PROVE  Onward
<1>1. Ends(v) \in Processes /\ Ends(v).pc = "cleanup"
  BY MovesTyped
<1>2. c' \in Processes /\ c'.pc = "cleanup"
  BY <1>1 DEF Processes
<1> QED BY <1>2 DEF Onward, Exchange

(* A step from one place of the exchange to the next. *)
LEMMA ToOnward ==
  ASSUME c \in Processes, UNCHANGED <<cer, os>>, c.pc \in Exchange, NEW pc \in Exchange,
         NEW h \in Sessions, NEW r \in Nat, NEW t \in Nat,
         c' \in {To(pc), [To(pc) EXCEPT !.hs = h], [To(pc) EXCEPT !.rx = r], 
                 [c EXCEPT !.tx = t, !.pc = pc]}
  PROVE  Onward
<1>1. To(pc) \in Processes /\ To(pc).pc = pc /\ To(pc).cold = c.cold
  BY MovesTyped DEF Places
<1>2. pc \in Places
  BY DEF Places
<1>3. c' \in Processes /\ c'.pc = pc /\ c'.cold = c.cold
  BY ZenonT(40), <1>1, <1>2 DEF Processes
<1> QED BY <1>3 DEF Onward

(* Disturbances and processes are counted up to their bounds. *)
LEMMA FaultsCounted ==
  ASSUME faults \in 0 .. MaxFaults, runs \in 0 .. MaxRuns, V1Next
  PROVE  faults' \in 0 .. MaxFaults /\ runs' \in 0 .. MaxRuns
<1> USE V1CentralAssumption DEF Step, Calls, Disturbs, Expected1
<1>1. CASE NewRun \/ ClearDkBonds \/ AllDone
  <2>1. /\ faults' = faults
        /\ runs' = runs \/ (runs < MaxRuns /\ runs' = runs + 1)
    BY <1>1 DEF NewRun, ClearDkBonds, AllDone, system
  <2> QED BY <2>1
<1>2. CASE \/ ScanAndConnect \/ Inspect \/ EnsureConnected \/ PreL4Probes \/ Pair \/ PairReturns
           \/ PairTimesOut \/ RetireLink \/ VerifyClosed \/ StopNotify \/ Report
  BY <1>2 DEF ScanAndConnect, Inspect, EnsureConnected, PreL4Probes, Probes, Pair, PairReturns,
              PairTimesOut, RetireLink, VerifyClosed, StopNotify, Report
<1>3. CASE StartNotify \/ Upload \/ SendStart \/ SendFinishedC \/ SendPing
  BY <1>3 DEF StartNotify, Upload, SendStart, SendFinishedC, SendPing, Writes, Submits, Fails
<1>4. CASE Attest("attest1", "info1") \/ Attest("attest2", "info2")
  BY <1>4 DEF Attest, Fails
<1>5. CASE \/ Attested \/ ReadyV1 \/ AcceptReady \/ AcceptFinishedP \/ Quiet \/ AcceptPong
           \/ Settle
  BY <1>5 DEF Attested, ReadyV1, AcceptReady, AcceptFinishedP, Quiet, AcceptPong, Settle, Receives
<1>6. CASE PeripheralNext \/ PairingNext \/ DisturbedNext
  <2>1. runs' = runs /\ (faults' = faults \/ (faults < MaxFaults /\ faults' = faults + 1))
    BY <1>6 DEF PeripheralNext, WorkerMoves, Delivers, DeliveryFails, HostMoves, PairingNext,
                CeremonyStep, Pairs, PairsElsewhere, Refuses, DisturbedNext, TimePasses,
                FinishedLate, LinkLost, Downgraded, Aborts, Unsolicited, Sends
  <2> QED BY <2>1
<1> QED BY <1>1, <1>2, <1>3, <1>4, <1>5, <1>6 DEF V1Next, ProcessNext

(* Every step within the exchange is a step onward. *)
LEMMA ExchangeOnward ==
  ASSUME SystemTyped,
         \/ StartNotify \/ Attest("attest1", "info1") \/ Attest("attest2", "info2") \/ Attested
         \/ Upload \/ SendStart \/ ReadyV1 \/ AcceptReady \/ SendFinishedC \/ AcceptFinishedP
         \/ Quiet \/ SendPing \/ AcceptPong \/ Settle
  PROVE  Onward
<1>0. c \in Processes /\ cp3.delivery \in BOOLEAN /\ c.tx \in Nat /\ c.rx \in Nat /\ c.base \in Int
  BY DEF SystemTyped, Typed, HandshakeTypeOK, ProcessTyped, Processes
<1>e. ASSUME UNCHANGED pairing, NEW v \in Verdicts, c' = Ends(v) PROVE Onward
  BY <1>0, <1>e, EndsOnward DEF pairing
<1>t. ASSUME UNCHANGED pairing, c.pc \in Exchange, NEW pc \in Exchange, c' = To(pc) PROVE Onward
  BY <1>0, <1>t, ToOnward DEF pairing, Sessions
<1>v. {"ok", "error"} \subseteq Verdicts
  BY DEF Verdicts
<1> USE DEF Step, Calls, At
<1>1. CASE StartNotify
  <2>1. CASE c' = [c EXCEPT !.opened = TRUE] /\ UNCHANGED pairing
    BY <1>0, <2>1 DEF Onward, Processes, pairing
  <2>2. CASE c' # [c EXCEPT !.opened = TRUE] \/ pairing' # pairing
    <3>1. /\ UNCHANGED pairing
          /\ \/ c' = Ends("error")
             \/ c' = To(IF c.mode = "cp1" THEN "upload" ELSE "attest1")
      BY <1>1, <2>2 DEF StartNotify, Writes, Fails
    <3> QED BY <1>1, <1>e, <1>t, <1>v, <3>1 DEF StartNotify, Exchange
  <2> QED BY <2>1, <2>2
<1>2. CASE Attest("attest1", "info1") \/ Attest("attest2", "info2")
  <2>1. /\ UNCHANGED pairing /\ c.pc \in Exchange
        /\ c' = Ends("error") \/ c' = To("info1") \/ c' = To("info2")
    BY <1>2 DEF Attest, Fails, Exchange
  <2> QED BY <1>e, <1>t, <1>v, <2>1 DEF Exchange
<1>3. CASE Upload \/ SendStart \/ SendFinishedC
  <2>1. /\ UNCHANGED pairing /\ c.pc \in Exchange
        /\ \/ c' = Ends("error") \/ c' = To("last") \/ c' = To("attest2") \/ c' = To("ready")
           \/ c' = To("finished")
    BY <1>3 DEF Upload, SendStart, SendFinishedC, Writes, Submits, Fails, Exchange
  <2> QED BY <1>e, <1>t, <1>v, <2>1 DEF Exchange
<1>4. CASE ReadyV1 \/ Quiet \/ Settle
  <2>1. /\ UNCHANGED pairing /\ c.pc \in Exchange
        /\ \/ c' = Ends("error") \/ c' = Ends("ok") \/ c' = To("quiet") \/ c' = To("ping")
    BY <1>4 DEF ReadyV1, Quiet, Settle, Receives, Exchange
  <2> QED BY <1>e, <1>t, <1>v, <2>1 DEF Exchange
<1>5. CASE Attested \/ AcceptReady \/ AcceptFinishedP
  <2>1. PICK h \in Sessions : 
        /\ UNCHANGED pairing /\ c.pc \in Exchange
        /\ \/ c' = Ends("error") \/ c' = To("upload") \/ c' = To("quiet")
           \/ c' = [To("start") EXCEPT !.hs = h] \/ c' = [To("confirm") EXCEPT !.hs = h]
           \/ c' = [To("quiet") EXCEPT !.hs = h]
    <3>1. To("start").hs \in Sessions
      BY <1>0 DEF To, Processes
    <3>2. CASE Attested
      <4> DEFINE h == IF Handshakes THEN "WAIT_READY_CP3" ELSE To("start").hs
      <4>1. h \in Sessions
        BY <3>1 DEF Sessions
      <4>2. /\ UNCHANGED pairing /\ c.pc \in Exchange
            /\ \/ c' = Ends("error") \/ c' = To("upload") \/ c' = To("quiet")
               \/ c' = [To("start") EXCEPT !.hs = h]
        BY <3>2 DEF Attested, Receives, Exchange
      <4> QED BY <4>1, <4>2
    <3>3. CASE AcceptReady
      BY <3>3 DEF AcceptReady, Receives, Exchange, Sessions
    <3>4. CASE AcceptFinishedP
      BY <3>4 DEF AcceptFinishedP, Receives, Exchange, Sessions
    <3> QED BY <1>5, <3>2, <3>3, <3>4
  <2>2. {"upload", "quiet", "start", "confirm"} \subseteq Exchange
    BY DEF Exchange
  <2> QED BY <1>0, <1>e, <1>v, <2>1, <2>2, ToOnward DEF pairing
<1>6. CASE SendPing
  <2>1. PICK e \in BOOLEAN :
        /\ UNCHANGED pairing /\ c.pc \in Exchange
        /\ \/ c' = Ends("error") \/ c' = [Ends("error") EXCEPT !.early = e]
           \/ c' = [c EXCEPT !.tx = c.tx + 1, !.pc = "pong"]
    BY <1>0, <1>6 DEF SendPing, Fails, Exchange
  <2>2. "pong" \in Exchange /\ c.tx + 1 \in Nat
    BY <1>0 DEF Exchange
  <2> QED BY <1>0, <1>e, <1>v, <2>1, <2>2, EndsOnward, ToOnward DEF pairing, Sessions
<1>7. CASE AcceptPong
  <2>1. PICK pc \in {"settle", "ping"} :
        /\ UNCHANGED pairing /\ c.pc \in Exchange
        /\ c' = Ends("error") \/ c' = [To(pc) EXCEPT !.rx = To(pc).rx + 1]
    BY <1>7 DEF AcceptPong, Receives, Exchange
  <2>2. pc \in Exchange /\ To(pc).rx + 1 \in Nat
    BY <1>0 DEF Exchange, To, Processes
  <2> QED BY <1>0, <1>e, <1>v, <2>1, <2>2, ToOnward DEF pairing, Sessions
<1> QED BY <1>1, <1>2, <1>3, <1>4, <1>5, <1>6, <1>7

(* Before the exchange: a bond that Windows holds already is the only way   *)
(* past the pairing, and then the link did not begin without one.           *)
LEMMA ApproachInv ==
  ASSUME SystemTyped, CeremonyInv, ConsentInv,
         \/ ScanAndConnect \/ Inspect \/ EnsureConnected \/ PreL4Probes \/ RetireLink
         \/ VerifyClosed
  PROVE  ConsentInv' /\ c' \in Processes
<1>0. c \in Processes /\ c.then \in Targets /\ c.base \in Int /\ faults \in Int /\ cur \in Nat
      /\ gen \in Nat
  BY HandshakeAssumption DEF SystemTyped, Typed, HandshakeTypeOK, Conns, ProcessTyped, Processes
<1>e. ASSUME UNCHANGED pairing, NEW v \in Verdicts, NEW b \in Int,
             c' = Ends(v) \/ c' = [Ends(v) EXCEPT !.base = b]
      PROVE  Onward
  BY <1>0, <1>e, EndsOnward DEF pairing
<1>v. {"passed", "error"} \subseteq Verdicts
  BY DEF Verdicts
<1>o. ASSUME Onward PROVE ConsentInv' /\ c' \in Processes
  BY <1>o, OnwardInv DEF SystemTyped
<1> USE DEF Step, Calls, At
<1>1. CASE ScanAndConnect
  <2> DEFINE b == IF AtRest THEN faults ELSE -1
  <2>1. c' = [To("inspect") EXCEPT !.base = b] /\ UNCHANGED pairing
    BY <1>1 DEF ScanAndConnect
  <2>2. b \in Int
    BY <1>0
  <2> HIDE DEF b
  <2>3. To("inspect") \in Processes /\ To("inspect").pc = "inspect"
    BY <1>0, MovesTyped DEF Places
  <2>4. c' \in Processes /\ c'.pc = "inspect"
    BY <2>1, <2>2, <2>3 DEF Processes
  <2>5. Onward
    BY <2>1, <2>4 DEF Onward, Exchange, pairing
  <2> QED BY <1>o, <2>5
<1>2. CASE Inspect
  <2>1. CASE \/ c' = Ends("error") /\ UNCHANGED pairing
             \/ c' = [Ends("error") EXCEPT !.base = -1] /\ UNCHANGED pairing
    BY <1>e, <1>o, <1>v, <2>1
  <2>2. CASE c' = [To("ensure") EXCEPT !.then = "inspect"]
    <3>1. To("ensure") \in Processes /\ To("ensure").pc = "ensure"
      BY <1>0, MovesTyped DEF Places
    <3>2. c' \in Processes /\ c'.pc = "ensure" /\ c'.then = "inspect"
      BY <2>2, <3>1 DEF Processes, Targets
    <3> QED BY <3>2 DEF ConsentInv, RightKind, Heading, ConsentKept, Admitted, Exchange
  <2>3. CASE \E b \in Int : c' = [To(IF bonds.pc THEN "subscribe" ELSE "probe") EXCEPT
                 !.cold = ~bonds.pc, !.link = cur, !.unpair = FALSE, !.base = b]
    <3> DEFINE pc == IF bonds.pc THEN "subscribe" ELSE "probe"
               cold == ~bonds.pc
    <3>1. PICK b \in Int : c' = [To(pc) EXCEPT !.cold = cold, !.link = cur, !.unpair = FALSE,
                                               !.base = b]
      BY <2>3
    <3>2. pc \in {"subscribe", "probe"} /\ cold \in BOOLEAN /\ (pc = "subscribe" => ~cold)
      OBVIOUS
    <3> HIDE DEF pc, cold
    <3>3. To(pc) \in Processes /\ To(pc).pc = pc
      BY <1>0, <3>2, MovesTyped DEF Places, Exchange
    <3>4. c' \in Processes /\ c'.pc = pc /\ c'.cold = cold
      BY <1>0, <3>1, <3>2, <3>3 DEF Processes
    <3> QED BY <3>2, <3>4 DEF ConsentInv, RightKind, Heading, ConsentKept, Admitted, Exchange
  <2> DEFINE next == To(IF bonds.pc THEN "subscribe" ELSE "probe")
             b == IF bonds.pc = bonds.dk THEN next.base ELSE -1
  <2>4. b \in Int
    BY <1>0 DEF To, Processes
  <2>5. \/ c' = Ends("error") /\ UNCHANGED pairing
        \/ c' = [Ends("error") EXCEPT !.base = -1] /\ UNCHANGED pairing
        \/ c' = [To("ensure") EXCEPT !.then = "inspect"]
        \/ c' = [next EXCEPT !.cold = ~bonds.pc, !.link = cur, !.unpair = FALSE, !.base = b]
    BY <1>2 DEF Inspect
  <2> QED BY <2>1, <2>2, <2>3, <2>4, <2>5
<1>3. CASE EnsureConnected
  <2>1. PICK n \in Nat, b \in Int :
            c' = [To(c.then) EXCEPT !.link = n, !.then = "none", !.base = b]
    <3>1. To(c.then).base \in Int /\ To(c.then) = [To(c.then) EXCEPT !.base = To(c.then).base]
      BY <1>0 DEF To, Processes
    <3>2. CASE cur # 0
      <4>1. c' = [To(c.then) EXCEPT !.link = cur, !.then = "none"]
        BY <1>3, <3>2 DEF EnsureConnected
      <4>2. c' = [To(c.then) EXCEPT !.link = cur, !.then = "none", !.base = To(c.then).base]
        BY <1>0, <4>1 DEF To, Processes
      <4> QED BY <1>0, <3>1, <4>2
    <3>3. CASE cur = 0
      <4> DEFINE b == IF AtRest THEN To(c.then).base ELSE -1
      <4>1. c' = [To(c.then) EXCEPT !.link = gen + 1, !.then = "none", !.base = b]
        BY <1>3, <3>3 DEF EnsureConnected
      <4>2. b \in Int /\ gen + 1 \in Nat
        BY <1>0, <3>1
      <4> QED BY <4>1, <4>2
    <3> QED BY <3>2, <3>3
  <2>2. CASE c.then # "none"
    <3>1. c.then \in Places /\ "none" \in Targets
      BY <1>0, <2>2 DEF Targets, Places, Exchange
    <3>2. To(c.then) \in Processes /\ To(c.then).pc = c.then /\ To(c.then).cold = c.cold
      BY <1>0, <3>1, MovesTyped
    <3>3. c' \in Processes /\ c'.pc = c.then /\ c'.cold = c.cold
      BY <2>1, <3>1, <3>2 DEF Processes
    <3>4. UNCHANGED <<cer, os>> /\ c.pc = "ensure"
      BY <1>3 DEF EnsureConnected, pairing
    <3>5. c.then \in Exchange => c.then = "subscribe"
      BY <1>0 DEF Targets, Exchange
    <3>6. c.then \notin {"ensure", "ceremony"}
      BY <1>0 DEF Targets
    <3> QED BY <3>3, <3>4, <3>5, <3>6 DEF ConsentInv, RightKind, Heading, ConsentKept, Admitted
  <2> QED BY <1>3, <2>2 DEF EnsureConnected, ConsentInv, Heading
<1>4. CASE PreL4Probes \/ VerifyClosed
  <2>1. /\ UNCHANGED pairing
        /\ c' = Ends("error") \/ c' = Ends("passed") \/ c' = To("pair")
    BY <1>4 DEF PreL4Probes, VerifyClosed, Probes
  <2>2. CASE c' = To("pair")
    <3>1. c' \in Processes /\ c'.pc = "pair"
      BY <1>0, <2>2, MovesTyped DEF Places
    <3>2. Onward
      BY <2>1, <3>1 DEF Onward, Exchange, pairing
    <3> QED BY <1>o, <3>2
  <2> QED BY <1>0, <1>e, <1>o, <1>v, <2>1, <2>2
<1>5. CASE RetireLink
  <2>1. CASE c' = Ends("error")
    BY <1>0, <1>5, <1>e, <1>o, <1>v, <2>1 DEF RetireLink
  <2>2. CASE c' = [To("ensure") EXCEPT !.then = "verify"]
    <3>1. To("ensure") \in Processes /\ To("ensure").pc = "ensure"
      BY <1>0, MovesTyped DEF Places
    <3>2. c' \in Processes /\ c'.pc = "ensure" /\ c'.then = "verify"
      BY <2>2, <3>1 DEF Processes, Targets
    <3> QED BY <3>2 DEF ConsentInv, RightKind, Heading, ConsentKept, Admitted, Exchange
  <2> QED BY <1>5, <2>1, <2>2 DEF RetireLink
<1> QED BY <1>1, <1>2, <1>3, <1>4, <1>5

(* The pairing: PairAsync starts a ceremony of the kind the run calls for,  *)
(* and only an explicit yes in it leads on to the exchange.                 *)
LEMMA PairCallInv ==
  ASSUME SystemTyped, CeremonyInv, ConsentInv, Pair \/ PairReturns \/ PairTimesOut
  PROVE  ConsentInv' /\ c' \in Processes
<1>0. c \in Processes /\ c.neg \in Negatives /\ PairingTyped
  BY DEF SystemTyped, ProcessTyped, Processes
<1>1. ASSUME NEW v \in Verdicts, NEW b \in Int, c' = Ends(v) \/ c' = [Ends(v) EXCEPT !.base = b]
      PROVE  ConsentInv' /\ c' \in Processes
  <2>1. Ends(v) \in Processes /\ Ends(v).pc = "cleanup"
    BY <1>0, MovesTyped
  <2>2. c' \in Processes /\ c'.pc = "cleanup"
    BY <1>1, <2>1 DEF Processes
  <2> QED BY <2>2 DEF ConsentInv, RightKind, Heading, ConsentKept, Admitted, At, Exchange
<1>v. "error" \in Verdicts /\ 0 \in Int /\ -1 \in Int
  BY DEF Verdicts
<1> USE DEF At
<1>2. CASE Pair
  <2>1. CASE PairAsync(Kind) /\ c' = To("ceremony")
    <3>1. c' \in Processes /\ c'.pc = "ceremony" /\ c'.neg = c.neg
      BY <1>0, <2>1, MovesTyped DEF Places
    <3>2. cer'.kind = Kind
      BY <2>1, FreshInv
    <3> QED BY <3>1, <3>2
            DEF ConsentInv, RightKind, Heading, ConsentKept, Admitted, Exchange, Kind
  <2> QED BY <1>1, <1>2, <1>v, <2>1 DEF Pair, Step
<1>3. CASE PairTimesOut
  BY <1>1, <1>3, <1>v DEF PairTimesOut
<1>4. CASE PairReturns
  <2>1. CASE c' = Ends("error")
    BY <1>1, <1>v, <2>1
  <2>2. CASE c' = To("retire")
    <3>1. c' \in Processes /\ c'.pc = "retire"
      BY <1>0, <2>2, MovesTyped DEF Places
    <3> QED BY <3>1 DEF ConsentInv, RightKind, Heading, ConsentKept, Admitted, Exchange
  <2>3. CASE /\ c' = [To("ensure") EXCEPT !.then = "subscribe"] /\ ~PairingRaises
             /\ c.neg = "none" /\ os.status = "PAIRED"
    <3>1. To("ensure") \in Processes /\ To("ensure").pc = "ensure"
      BY <1>0, MovesTyped DEF Places
    <3>2. c' \in Processes /\ c'.pc = "ensure" /\ c'.then = "subscribe"
      BY <2>3, <3>1 DEF Processes, Targets
    <3>3. cer.kind = "CONFIRM_PIN_MATCH"
      BY <1>4, <2>3 DEF PairReturns, ConsentInv, RightKind, Kind
    <3>4. cer.decision = "yes" /\ cer.accepted
      BY <2>3, <3>3 DEF PairingRaises, Explicit, ReportedSuccess
    <3>5. Stops
      BY <1>4 DEF PairReturns, Stops
    <3>6. /\ ~cer'.active /\ os'.status = "PAIRED" /\ cer'.decision = cer.decision
          /\ cer'.accepted = cer.accepted
      BY <1>0, <2>3, <3>5, StopsInv
    <3> QED BY <3>2, <3>4, <3>6 DEF ConsentInv, RightKind, Heading, ConsentKept, Admitted, Exchange
  <2> QED BY <1>4, <2>1, <2>2, <2>3 DEF PairReturns
<1> QED BY <1>2, <1>3, <1>4

(* Events of Windows and answers of the operator: the kind of the ceremony  *)
(* is kept, and one whose consent is in use is over and hears nothing.      *)
LEMMA PairingNextInv ==
  ASSUME SystemTyped, CeremonyInv, ConsentInv, PairingNext
  PROVE  ConsentInv' /\ c' \in Processes
<1>0. c \in Processes /\ PairingTyped
  BY DEF SystemTyped, ProcessTyped
<1> USE DEF At
<1>1. CASE CeremonyStep
  <2>1. (Handles \/ Answers) /\ c' = c
    BY <1>1 DEF CeremonyStep, Handles, Answers
  <2>2. /\ cer'.kind = cer.kind /\ os'.status = os.status
        /\ ~cer.active => UNCHANGED Result
    BY <1>0, <2>1, HandlesInv, AnswersInv
  <2>3. ~cer.active => ~cer'.active /\ cer'.decision = cer.decision /\ cer'.accepted = cer.accepted
    BY <2>2 DEF Result
  <2> QED BY <1>0, <2>1, <2>2, <2>3
          DEF ConsentInv, RightKind, Heading, ConsentKept, Admitted, Kind
<1>2. CASE Pairs \/ PairsElsewhere \/ Refuses
  <2>1. /\ Returns /\ c.pc = "ceremony"
        /\ c' = c \/ c' = [c EXCEPT !.opened = TRUE]
    BY <1>2 DEF Pairs, PairsElsewhere, Refuses, Returns
  <2>2. cer' = cer
    BY <1>0, <2>1, ReturnsInv
  <2>3. c' \in Processes /\ c'.pc = c.pc /\ c'.neg = c.neg
    BY <1>0, <2>1 DEF Processes
  <2> QED BY <2>1, <2>2, <2>3
          DEF ConsentInv, RightKind, Heading, ConsentKept, Admitted, Exchange, Kind
<1> QED BY <1>1, <1>2 DEF PairingNext

(* The steps of the Peripheral and the disturbances: they leave the process *)
(* where it is or end it.                                                   *)
LEMMA AroundOnward ==
  ASSUME SystemTyped, PeripheralNext \/ DisturbedNext
  PROVE  Onward
<1>0. c \in Processes /\ c.base \in Int
  BY DEF SystemTyped, ProcessTyped, Processes
<1>1. UNCHANGED pairing /\ (c' = c \/ c' = Closed(c) \/ c' = Ends("error"))
  BY DEF PeripheralNext, WorkerMoves, Delivers, DeliveryFails, HostMoves, Sends, DisturbedNext,
         TimePasses, FinishedLate, LinkLost, Downgraded, Aborts, Unsolicited
<1>2. CASE c' = c \/ c' = Closed(c)
  BY <1>0, <1>1, <1>2, MovesTyped DEF Onward, pairing
<1>3. CASE c' = Ends("error")
  BY <1>0, <1>1, <1>3, EndsOnward DEF pairing, Verdicts
<1> QED BY <1>1, <1>2, <1>3

(* The beginning and the end of a process. *)
LEMMA BoundaryInv ==
  ASSUME SystemTyped, ConsentInv, NewRun \/ ClearDkBonds \/ AllDone \/ StopNotify \/ Report
  PROVE  ConsentInv' /\ c' \in Processes
<1>0. c \in Processes
  BY DEF SystemTyped, ProcessTyped
<1>1. ASSUME c' \in Processes, c'.pc \in {"connect", "report", "exit"}
      PROVE  ConsentInv' /\ c' \in Processes
  BY <1>1 DEF ConsentInv, RightKind, Heading, ConsentKept, Admitted, At, Exchange
<1>2. CASE NewRun
  <2>1. PICK mode \in Checkpoints, neg \in Negatives, unpair \in BOOLEAN :
            c' = [NoProcess EXCEPT !.pc = "connect", !.mode = mode, !.neg = neg,
                                   !.unpair = unpair]
    BY <1>2 DEF NewRun, Negatives
  <2>2. mode \in {"cp1", "cp2", "cp3", "cp4"}
    BY V1CentralAssumption
  <2>3. NoProcess \in Processes
    BY DEF NoProcess, Processes, Places, Negatives, Targets, Sessions, Verdicts
  <2>4. c' \in Processes /\ c'.pc = "connect"
    BY <2>1, <2>2, <2>3 DEF Processes, Places
  <2> QED BY <1>1, <2>4
<1>3. CASE ClearDkBonds \/ AllDone
  <2>1. c' = c /\ UNCHANGED <<cer, os>>
    BY <1>3 DEF ClearDkBonds, AllDone, system, pairing
  <2> QED BY <1>0, <2>1 DEF ConsentInv, RightKind, Heading, ConsentKept, Admitted, At, Kind
<1>4. CASE StopNotify
  <2>1. c' = To("report")
    BY <1>4 DEF StopNotify, Step, Calls
  <2>2. c' \in Processes /\ c'.pc = "report"
    BY <1>0, <2>1, MovesTyped DEF Places
  <2> QED BY <1>1, <2>2
<1>5. CASE Report
  <2> DEFINE x == Closed(c)
             v == IF Reports THEN x.verdict ELSE "error"
  <2>1. c' = [x EXCEPT !.pc = "exit", !.verdict = v]
    BY <1>5 DEF Report
  <2>2. x \in Processes
    BY <1>0, MovesTyped
  <2> HIDE DEF x
  <2>3. v \in Verdicts
    BY <2>2 DEF Processes, Verdicts
  <2> HIDE DEF v
  <2>4. c' \in Processes /\ c'.pc = "exit"
    BY <2>1, <2>2, <2>3 DEF Processes, Places
  <2> QED BY <1>1, <2>4
<1> QED BY <1>2, <1>3, <1>4, <1>5

(* Every step keeps types, ceremony and consent. *)
LEMMA CentralInvStep == CentralInv /\ [V1Next]_system => CentralInv'
<1> SUFFICES ASSUME CentralInv, [V1Next]_system PROVE CentralInv'
  OBVIOUS
<1>0. SystemTyped /\ CeremonyInv /\ ConsentInv /\ Typed /\ PairingTyped /\ ProcessTyped
  BY DEF CentralInv, SystemTyped
<1>1. CASE UNCHANGED system
  <2>1. UNCHANGED <<vars, cer, os, c, runs, faults>>
    BY <1>1 DEF system, pairing
  <2>2. Typed'
    BY <1>0, <2>1, TypedStep
  <2> QED BY <1>0, <2>1, <2>2
          DEF CentralInv, SystemTyped, PairingTyped, ProcessTyped, CeremonyInv, CeremonyClean,
              ConsentInv, RightKind, Heading, ConsentKept, Admitted, At, Kind
<1>2. CASE V1Next
  <2>1. Typed'
    BY <1>0, <1>2, PeripheralStep, TypedStep
  <2>2. Touches
    BY <1>2, CeremonyTouched
  <2>3. PairingTyped' /\ CeremonyInv'
    <3>1. CASE UNCHANGED <<cer, os>>
      BY <1>0, <3>1 DEF PairingTyped, CeremonyInv, CeremonyClean
    <3>2. CASE ~UNCHANGED <<cer, os>>
      BY <1>0, <2>2, <3>2, HandlesInv, AnswersInv, ReturnsInv, StopsInv, FreshInv DEF Touches
    <3> QED BY <3>1, <3>2
  <2>4. faults' \in 0 .. MaxFaults /\ runs' \in 0 .. MaxRuns
    BY <1>0, <1>2, FaultsCounted DEF ProcessTyped
  <2>5. ConsentInv' /\ c' \in Processes
    <3>1. CASE NewRun \/ ClearDkBonds \/ AllDone \/ StopNotify \/ Report
      BY <1>0, <3>1, BoundaryInv
    <3>2. CASE \/ ScanAndConnect \/ Inspect \/ EnsureConnected \/ PreL4Probes \/ RetireLink
               \/ VerifyClosed
      BY <1>0, <3>2, ApproachInv
    <3>3. CASE Pair \/ PairReturns \/ PairTimesOut
      BY <1>0, <3>3, PairCallInv
    <3>4. CASE PairingNext
      BY <1>0, <3>4, PairingNextInv
    <3>5. CASE PeripheralNext \/ DisturbedNext
      BY <1>0, <3>5, AroundOnward, OnwardInv
    <3>6. CASE \/ StartNotify \/ Attest("attest1", "info1") \/ Attest("attest2", "info2")
               \/ Attested \/ Upload \/ SendStart \/ ReadyV1 \/ AcceptReady \/ SendFinishedC
               \/ AcceptFinishedP \/ Quiet \/ SendPing \/ AcceptPong \/ Settle
      BY <1>0, <3>6, ExchangeOnward, OnwardInv
    <3> QED BY <1>2, <3>1, <3>2, <3>3, <3>4, <3>5, <3>6 DEF V1Next, ProcessNext
  <2> QED BY <2>1, <2>3, <2>4, <2>5 DEF CentralInv, SystemTyped, ProcessTyped
<1> QED BY <1>1, <1>2

(* Types, ceremony and consent are sound in every state. *)
THEOREM CentralInvariant == V1Spec => []CentralInv
<1>1. V1Init => CentralInv
  <2> SUFFICES ASSUME V1Init PROVE CentralInv
    OBVIOUS
  <2>1. Typed
    BY InitTyped DEF V1Init
  <2>2. PairingTyped /\ CeremonyInv
    BY DEF V1Init, PairingTyped, CeremonyInv, CeremonyClean, NoCeremony, NoOperation, Ceremonies,
           Operations
  <2>3. ProcessTyped
    BY V1CentralAssumption DEF V1Init, ProcessTyped, NoProcess, Processes, Places, Negatives, Targets, Sessions,
           Verdicts
  <2>4. ConsentInv
    BY DEF V1Init, NoProcess, ConsentInv, RightKind, Heading, ConsentKept, Admitted, At, Exchange
  <2> QED BY <2>1, <2>2, <2>3, <2>4 DEF CentralInv, SystemTyped
<1> QED BY <1>1, CentralInvStep, PTL DEF V1Spec

(* A ceremony that is over holds no deferral and asks nobody, and no late   *)
(* answer accepts on its behalf, whatever came first: the result of         *)
(* PairAsync, the time limit of _run_custom_pairing or a second event.      *)
THEOREM CeremonySafe == V1Spec => []CeremonyClean
<1>1. CentralInv => CeremonyClean
  BY DEF CentralInv, CeremonyInv
<1> QED BY <1>1, CentralInvariant, PTL

(* A link that began without a bond carries no exchange unless the operator *)
(* of the Central accepted the number in the ceremony of this very process, *)
(* and Windows reports that it paired there.                                *)
THEOREM ConsentSafe == V1Spec => []Consented
<1>1. CentralInv => Consented
  BY DEF CentralInv, ConsentInv, ConsentKept, Admitted, Consented
<1> QED BY <1>1, CentralInvariant, PTL

-----------------------------------------------------------------------------
(* The session of the Peripheral, in more detail.  A secure session has no  *)
(* job of its handshake left; a PONG that is ready was sealed at the        *)
(* counter; a CP4 job that succeeded, or is delivered, in APP_SECURE has    *)
(* made one ready; and a job that opened a PING works with the key in use.  *)
OldJobs ==
    /\ w.mode \in {"cp3", "finished"} /\ w.pc # "idle" => ~keys.secure
    /\ slot.pending /\ slot.mode \in {"cp3", "finished"} => ~keys.secure
ReadySealed ==
    /\ keys.pend \/ keys.ready => keys.secure
    /\ keys.ready => <<keys.app, keys.tx>> \in sealed
ResultReady ==
    w.mode = "cp4" /\ cp3.state = "APP_SECURE" =>
        (w.pc \in Delivering \/ (w.pc \in Busy /\ w.ok) => keys.ready)
OpenedKey == w.pc \in {"opened", "seal"} /\ w.fresh => w.app = keys.app
PongInv == OldJobs /\ ReadySealed /\ ResultReady /\ OpenedKey

(* What a frame and a process owe to the Peripheral.  Before a handshake    *)
(* begins the Peripheral is IDLE; FINISHED_P and PONG come from a handshake *)
(* that ended, and so does a Central that took one; a PONG was sealed; and  *)
(* the counters of the two ends follow each other.                          *)
Elements(s) == {s[i] : i \in 1 .. Len(s)}
Arrived == Elements(inbox)
Before == {"inspect", "ensure", "probe", "pair", "ceremony", "retire", "verify", "subscribe",
           "attest1", "info1", "upload", "last", "attest2", "info2", "start"}
Owed == IF cp3.delivery THEN 1 ELSE 0
Began == c.hs = "APP_SECURE" \/ c.tx > 0 \/ c.rx > 0
BeforeInv ==
    /\ c.link <= gen
    /\ c.pc \in Before \cup {"connect"} => ~Began
    /\ c.pc \in Before => cp3.state = "IDLE"
BeganInv == Began /\ cur # 0 /\ c.link = cur => cp3.state \in Ended
FramesInv ==
    /\ inbox \in Seq(Frames)
    /\ \A f \in Arrived : f.type \in {"FINISHED_P", "PONG"} =>
           f.root <= gen /\ (cur # 0 /\ f.root = cur => cp3.state \in Ended)
PongsInv ==
    \A f \in Arrived : f.type = "PONG" =>
        /\ <<f.root, f.seq>> \in sealed
        /\ keys.secure /\ f.root = cur => f.seq < keys.tx + Owed
CountInv ==
    keys.secure /\ c.link = cur =>
        /\ keys.rx <= c.tx /\ (keys.pend => keys.rx < c.tx)
        /\ c.rx <= keys.tx + Owed
EarnedInv == \A n \in Nat : n < c.rx => <<c.link, n>> \in sealed
AgreeInv == BeforeInv /\ BeganInv /\ FramesInv /\ PongsInv /\ CountInv /\ EarnedInv

-----------------------------------------------------------------------------
(* What the steps of the Peripheral mean to the other end.  The secure      *)
(* session of a link is kept, or committed by FINISHED_P, or counts a PONG; *)
(* a new link has none.                                                     *)
SessionKept ==
    /\ keys.secure /\ keys'.rx = keys.rx /\ keys'.tx = keys.tx /\ (keys'.pend => keys.pend)
    /\ cp3.delivery => cp3'.delivery
SessionCommitted ==
    keys'.rx = 0 /\ keys'.tx = 0 /\ ~keys'.pend /\ cp3.state = "FINISHED_P_BUSY"
SessionCounted ==
    /\ keys.secure /\ keys.pend /\ keys'.rx = keys.rx + 1 /\ keys'.tx = keys.tx + 1
    /\ ~keys'.pend
Effect ==
    /\ (cur' = cur /\ gen' = gen) \/ (NewLink /\ ~keys'.secure)
    /\ cur # 0 /\ cur' = cur /\ cp3.state \in Ended => cp3'.state \in Ended
    /\ cp3.state = "IDLE" => cp3'.state = "IDLE"
    /\ sealed \subseteq sealed'
    /\ keys'.secure => cur' = cur /\ (SessionKept \/ SessionCommitted \/ SessionCounted)

(* A step that erases the session. *)
LEMMA WipeEffect ==
  ASSUME Inv, Wipe, cp3.state = "IDLE" => cp3'.state = "IDLE", w'.mode = "none" => w'.pc = "idle",
         w'.pc \in {"opened", "seal"} => w'.mode = "cp4"
  PROVE  PongInv' /\ Effect
<1>1. ~keys'.secure /\ ~keys'.pend /\ ~keys'.ready
  BY DEF Wipe, NoKeys
<1>2. cur \in Nat /\ gen \in Nat /\ (cur # 0 => cur = gen)
  BY HandshakeAssumption DEF Inv, Typed, HandshakeTypeOK, Conns, LinkNamed
<1>3. PongInv'
  BY <1>1 DEF Wipe, PongInv, OldJobs, ReadySealed, ResultReady, OpenedKey, Cp3Modes
<1>4. Effect
  BY <1>1, <1>2 DEF Wipe, Effect, NewLink, Ended
<1> QED BY <1>3, <1>4

(* The host and the timer erase it. *)
LEMMA HostWipeEffect ==
  ASSUME Inv,
         Connected \/ Disconnected \/ SecurityChanged \/ Unsubscribe \/ Cp4Denied
         \/ (Timeout /\ TimesOut /\ cp3.left = 0)
         \/ (InvalidateCp3(cp3, w) /\ UNCHANGED <<link, transfer, cp2, sealed>>)
  PROVE  PongInv' /\ Effect
<1>1. HostWipe
  BY HostWipes DEF Inv
<1>2. cp3 \in Cp3Recs /\ w \in Workers
  BY DEF Inv, Typed, HandshakeTypeOK, WorkerTyped, Cp3Recs
<1>3. Failed(cp3) \in Cp3Recs /\ (cp3.state = "IDLE" => Failed(cp3).state = "IDLE")
  BY <1>2, FailedTyped
<1>4. cp3' = Failed(cp3) \/ cp3' = [Failed(cp3) EXCEPT !.state = "IDLE"]
  BY DEF Connected, Disconnected, SecurityChanged, Unsubscribe, Cp4Denied, Timeout, InvalidateCp3,
         ForgetLink
<1>5. cp3.state = "IDLE" => cp3'.state = "IDLE"
  BY <1>3, <1>4 DEF Cp3Recs
<1>6. /\ w'.mode = "none" => w'.pc = "idle"
      /\ w'.pc \in {"opened", "seal"} => w'.mode = "cp4"
  BY <1>1 DEF HostWipe, WorkerKept, Inv, SlotInv, SlotTaken, SecretInv, JobOfLink
<1> QED BY <1>1, <1>5, <1>6, WipeEffect DEF HostWipe

(* The other steps of the host and the clock. *)
LEMMA HostEffect ==
  ASSUME Inv, PongInv, NEW good \in BOOLEAN,
         \/ SecurityUp \/ SecurityLost \/ Subscribe \/ TimeoutRuns \/ Tick \/ UNCHANGED vars
         \/ Timeout \/ Cp2Start(good) \/ FinishedC(good)
         \/ \E next \in {"EMPTY", "RECEIVING", "READY"} : WriteCiphertext(next)
  PROVE  PongInv' /\ Effect
<1> USE DEF PongInv, OldJobs, ReadySealed, ResultReady, OpenedKey, Effect, SessionKept
<1>1. CASE Still
  BY <1>1 DEF Still, FlagsKept
<1>2. CASE Cp2Start(good) \/ \E next \in {"EMPTY", "RECEIVING", "READY"} : WriteCiphertext(next)
  <2>1. /\ UNCHANGED <<cur, gen, cp3, keys, w, sealed>>
        /\ slot' = slot \/ slot'.mode = "cp2"
    BY <1>2 DEF Cp2Start, WriteCiphertext, Job, link
  <2> QED BY <2>1
<1>3. CASE FinishedC(good)
  <2>1. CASE Live3 /\ SlotFree /\ keys.hs # 0
    <3>1. cp3 \in Cp3Recs
      BY DEF Inv, Typed, HandshakeTypeOK, Cp3Recs
    <3>2. /\ cp3.state = "WAIT_FINISHED_C" /\ cp3'.state = "FINISHED_P_BUSY"
          /\ UNCHANGED <<cur, gen, keys, w, sealed>>
      BY <1>3, <2>1, <3>1 DEF FinishedC, Confirms, Cp3Recs, link
    <3>3. ~keys.secure
      BY <3>2 DEF Inv, SecretInv, KeysOfThisLink
    <3> QED BY <3>2, <3>3 DEF Ended
  <2>2. CASE ~(Live3 /\ SlotFree /\ keys.hs # 0)
    BY <1>3, <2>2, HostWipeEffect DEF FinishedC
  <2> QED BY <2>1, <2>2
<1>4. CASE Timeout /\ TimesOut /\ cp3.left = 0
  BY <1>4, HostWipeEffect
<1>5. CASE \/ SecurityUp \/ SecurityLost \/ Subscribe \/ TimeoutRuns \/ Tick \/ UNCHANGED vars
           \/ (Timeout /\ ~(TimesOut /\ cp3.left = 0))
  BY <1>1, <1>5, StillSteps DEF Inv
<1> QED BY <1>2, <1>3, <1>4, <1>5

(* The steps of the worker that leave the counters alone. *)
LEMMA WorkerEffect ==
  ASSUME Inv, PongInv, NEW sent \in BOOLEAN,
         \/ TakeJob \/ Cp2Compute \/ Cp3Compute \/ FinishedTake \/ FinishedStore \/ Cp4Open
         \/ Cp4Seal \/ JobDone \/ Cp2Result \/ Cp2Finish \/ Cp2Release \/ Cp2Notify(sent)
         \/ Cp3Notify(sent) \/ Cp4Notify(sent)
  PROVE  PongInv' /\ Effect
<1>0. w \in Workers /\ keys \in KeyRecs /\ slot \in Jobs /\ 0 \in Conns /\ w.mode \in Modes
  BY HandshakeAssumption
     DEF Inv, Typed, HandshakeTypeOK, WorkerTyped, Workers, KeyRecs, Conns
<1> USE DEF PongInv, OldJobs, ReadySealed, ResultReady, OpenedKey, Effect, SessionKept
<1>1. CASE TakeJob
  <2> DEFINE pc == IF slot.fresh THEN "run" ELSE "done"
  <2>1. /\ w' = [Sleeping EXCEPT !.pc = pc, !.mode = slot.mode, !.from = slot.from,
                                 !.good = slot.good, !.fresh = slot.fresh]
        /\ slot.pending /\ slot' = [slot EXCEPT !.pending = FALSE, !.active = TRUE]
        /\ UNCHANGED <<cur, gen, cp3, keys, sealed>>
    BY <1>1 DEF TakeJob, link
  <2>2. pc \in {"run", "done"}
    OBVIOUS
  <2> HIDE DEF pc
  <2>3. w'.pc = pc /\ w'.mode = slot.mode /\ w'.ok = FALSE /\ ~slot'.pending
    BY <1>0, <2>1, <2>2, SleepingTyped DEF Workers, Sleeping, Jobs
  <2> QED BY <2>1, <2>2, <2>3 DEF Delivering
<1>2. CASE Cp2Compute
  <2>1. /\ w.mode = "cp2" /\ w'.mode = "cp2" /\ w'.pc = "done"
        /\ UNCHANGED <<cur, gen, cp3, keys, slot, sealed>>
    BY <1>0, <1>2 DEF Cp2Compute, Workers, link
  <2> QED BY <2>1
<1>3. CASE Cp3Compute
  <2>1. /\ w.mode = "cp3" /\ w'.mode = "cp3" /\ w'.pc = "done" /\ w.pc = "run"
        /\ UNCHANGED <<cur, gen, cp3, slot, sealed>>
    BY <1>0, <1>3 DEF Cp3Compute, Workers, link
  <2>2. keys'.secure = keys.secure /\ keys'.pend = keys.pend /\ keys'.ready = keys.ready
    BY <1>0, <1>3 DEF Cp3Compute, KeyRecs
  <2>3. ~keys.secure
    BY <2>1
  <2> QED BY <2>1, <2>2, <2>3
<1>4. CASE FinishedTake
  <2>1. /\ w.mode = "finished" /\ w'.mode = "finished" /\ w'.pc \in {"store", "done"}
        /\ w.pc = "run" /\ UNCHANGED <<cur, gen, cp3, slot, sealed>>
    BY <1>0, <1>4 DEF FinishedTake, Workers, link
  <2>2. keys'.secure = keys.secure /\ keys'.pend = keys.pend /\ keys'.ready = keys.ready
    BY <1>0, <1>4 DEF FinishedTake, KeyRecs
  <2> QED BY <2>1, <2>2
<1>5. CASE FinishedStore
  <2>0. w.mode = "finished"
    BY <1>5 DEF FinishedStore, Inv, SecretInv, JobOfLink
  <2>1. /\ w'.mode = "finished" /\ w'.pc = "done" /\ w.pc = "store"
        /\ UNCHANGED <<cur, gen, cp3, slot, sealed>>
    BY <1>0, <1>5, <2>0 DEF FinishedStore, Workers, link
  <2>2. keys'.secure = keys.secure /\ keys'.pend = keys.pend /\ keys'.ready = keys.ready
    BY <1>0, <1>5 DEF FinishedStore, KeyRecs
  <2> QED BY <2>0, <2>1, <2>2
<1>6. CASE Cp4Open
  <2>0. w.mode = "cp4" /\ w.pc = "open"
    BY <1>6 DEF Cp4Open, Inv, SecretInv, JobOfLink
  <2>1. /\ w'.mode = "cp4" /\ w'.ok = w.ok /\ w'.pc \in {"opened", "done"}
        /\ (w'.pc = "opened" => w'.app = keys.app)
        /\ UNCHANGED <<cur, gen, cp3, keys, slot, sealed>>
    BY <1>0, <1>6, <2>0 DEF Cp4Open, Workers, link
  <2> QED BY <2>0, <2>1 DEF Delivering, Busy, Computing
<1>7. CASE Cp4Seal
  <2> DEFINE kept == w.fresh /\ keys.secure /\ keys.pend
  <2>0. w.mode = "cp4" /\ w.pc = "seal"
    BY <1>7 DEF Cp4Seal, Inv, SecretInv, JobOfLink
  <2>1. /\ w' = [w EXCEPT !.pc = "done", !.ok = kept, !.app = 0, !.tx = 0]
        /\ keys' = IF kept THEN [keys EXCEPT !.ready = TRUE] ELSE keys
        /\ UNCHANGED <<cur, gen, cp3, slot>> /\ sealed' = sealed \cup {<<w.app, w.tx>>}
    BY <1>7 DEF Cp4Seal, link
  <2>2. kept \in BOOLEAN
    BY <1>0 DEF Workers, KeyRecs
  <2>3. /\ keys'.secure = keys.secure /\ keys'.pend = keys.pend /\ keys'.rx = keys.rx
        /\ keys'.tx = keys.tx /\ keys'.app = keys.app /\ (keys'.ready <=> keys.ready \/ kept)
    BY <1>0, <2>1 DEF KeyRecs
  <2>4. kept => <<keys.app, keys.tx>> = <<w.app, w.tx>>
    BY <2>0 DEF Inv, SealInv, Sealing
  <2>5. kept => keys.secure
    OBVIOUS
  <2> HIDE DEF kept
  <2>6. w'.mode = "cp4" /\ w'.pc = "done" /\ w'.ok = kept
    BY <1>0, <2>0, <2>1, <2>2 DEF Workers
  <2> QED BY <2>0, <2>1, <2>3, <2>4, <2>5, <2>6 DEF Delivering
<1>8. CASE JobDone
  <2>1. /\ w'.mode = w.mode /\ w.pc = "done" /\ w'.pc = "result" /\ (w'.ok => w.ok)
        /\ UNCHANGED <<cur, gen, cp3, keys, sealed>>
    BY <1>0, <1>8 DEF JobDone, Workers, link
  <2>2. slot'.pending = slot.pending /\ slot'.mode = slot.mode
    BY <1>0, <1>8 DEF JobDone, Jobs
  <2> QED BY <2>1, <2>2 DEF Delivering, Busy, Computing
<1>9. CASE Cp2Result \/ Cp2Finish \/ Cp2Release \/ Cp2Notify(sent)
  <2>1. UNCHANGED <<cur, gen, cp3, keys, sealed>>
    BY <1>9 DEF Cp2Result, Cp2Finish, Cp2Release, Cp2Notify, link
  <2>2. slot'.pending = slot.pending /\ slot'.mode = slot.mode
    BY <1>0, <1>9 DEF Cp2Result, Cp2Finish, Cp2Release, Cp2Notify, Jobs
  <2>3. w'.pc = "idle" \/ (w'.mode = "cp2" /\ w'.pc \in {"notify", "finish", "release"})
    <3>1. CASE Cp2Release
      BY <3>1 DEF Cp2Release, Sleeping
    <3>2. CASE Cp2Finish \/ Cp2Notify(sent) \/ Cp2Result
      BY <1>0, <3>2 DEF Cp2Result, Cp2Finish, Cp2Notify, Workers
    <3> QED BY <1>9, <3>1, <3>2
  <2>4. OldJobs'
    BY <2>1, <2>2, <2>3
  <2>5. ReadySealed' /\ Effect
    BY <2>1
  <2> QED BY <2>1, <2>3, <2>4, <2>5 DEF Delivering, Busy, Computing
<1>10. CASE Cp3Notify(sent) \/ Cp4Notify(sent)
  <2>1. /\ UNCHANGED <<cur, gen, cp3, keys, slot, sealed>> /\ w.pc = "notify"
        /\ w'.mode = w.mode /\ w'.pc = "finish"
    BY <1>0, <1>10 DEF Cp3Notify, Cp4Notify, Workers, link
  <2> QED BY <2>1 DEF Delivering
<1> QED BY <1>1, <1>2, <1>3, <1>4, <1>5, <1>6, <1>7, <1>8, <1>9, <1>10

(* An erasure by the worker, which goes on as x. *)
LEMMA WorkerWipeEffect ==
  ASSUME Inv, NEW d \in Cp3Recs, NEW x \in Workers, InvalidateCp3(d, x), d.state = cp3.state,
         UNCHANGED <<link, sealed>>, x.pc \in {"idle", "done", "notify"},
         x.mode = "none" => x.pc = "idle"
  PROVE  PongInv' /\ Effect
<1>1. /\ cp3'.state = (IF d.state = "IDLE" THEN "IDLE" ELSE "FAILED") /\ keys' = NoKeys
      /\ w'.pc = x.pc /\ w'.mode = x.mode /\ (w'.fresh => x.mode \notin Cp3Modes)
      /\ (slot'.fresh => slot.mode \notin Cp3Modes) /\ slot'.mode = slot.mode
  BY Invalidated DEF Inv
<1>2. Wipe
  BY <1>1 DEF Wipe, link
<1> QED BY <1>1, <1>2, WipeEffect

(* The steps of the worker that check the session, or deliver. *)
LEMMA DeliverEffect ==
  ASSUME Inv, PongInv, NEW sent \in BOOLEAN, NEW late \in BOOLEAN,
         \/ Cp4Check("run", "open") \/ Cp4Check("opened", "seal") \/ Cp3Result \/ Cp3Finish
         \/ FinishedP(sent, late) \/ Cp4Result \/ Cp4Finish
  PROVE  PongInv' /\ Effect
<1>0. /\ w \in Workers /\ keys \in KeyRecs /\ cp3 \in Cp3Recs /\ 0 \in Conns
      /\ Sleeping \in Workers /\ Sleeping.pc = "idle" /\ Sleeping.mode = "none"
      /\ keys.rx \in Nat /\ keys.tx \in Nat
  BY HandshakeAssumption, SleepingTyped
     DEF Inv, Typed, HandshakeTypeOK, WorkerTyped, KeyRecs, Conns, Cp3Recs, Sleeping
<1>u. ASSUME UNCHANGED link PROVE cur' = cur /\ gen' = gen
  BY <1>u DEF link
<1> USE DEF PongInv, OldJobs, ReadySealed, ResultReady, OpenedKey, Effect, SessionKept
<1>1. CASE Cp4Check("run", "open") \/ Cp4Check("opened", "seal")
  <2>1. CASE cp3.worker /\ Live4
    <3>1. PICK to \in {"open", "seal"} :
              /\ w' = [w EXCEPT !.pc = to] /\ UNCHANGED <<link, cp3, keys, slot, sealed>>
              /\ (to = "seal" => w.pc = "opened") /\ w.pc \in {"run", "opened"}
      BY <1>1, <2>1 DEF Cp4Check
    <3>2. /\ w'.pc = to /\ w'.mode = w.mode /\ w'.fresh = w.fresh /\ w'.app = w.app
          /\ w'.ok = w.ok
      BY <1>0, <3>1 DEF Workers
    <3> QED BY <1>u, <3>1, <3>2 DEF Delivering, Busy, Computing
  <2>2. CASE ~(cp3.worker /\ Live4)
    <3> DEFINE x == [w EXCEPT !.pc = "done", !.app = 0]
    <3>1. x \in Workers /\ x.pc = "done" /\ x.mode = w.mode /\ w.mode = "cp4"
      BY <1>0, <1>1 DEF Workers, Pcs, Computing, Cp4Check
    <3>2. InvalidateCp3(cp3, x) /\ UNCHANGED <<link, sealed>>
      BY <1>1, <2>2 DEF Cp4Check
    <3> HIDE DEF x
    <3> QED BY <1>0, <3>1, <3>2, WorkerWipeEffect
  <2> QED BY <2>1, <2>2
<1>2. CASE Cp3Result
  <2>1. /\ w'.pc = "notify" /\ w'.mode = w.mode /\ w.mode \in {"cp3", "finished"}
        /\ w.pc = "result" /\ UNCHANGED <<link, keys, slot, sealed>>
    BY <1>0, <1>2 DEF Cp3Result, Workers
  <2>2. cp3'.state = cp3.state \/ (Deliver3 /\ cp3'.state = "WAIT_FINISHED_C")
    BY <1>0, <1>2 DEF Cp3Result, Cp3Recs
  <2>3. Deliver3 => cp3.state \notin {"IDLE", "APP_SECURE", "FAILED"}
    BY DEF Deliver3, Expected
  <2> QED BY <1>u, <2>1, <2>2, <2>3 DEF Ended
<1>3. CASE Cp3Finish
  <2> DEFINE d == [cp3 EXCEPT !.delivery = FALSE]
  <2>1. d \in Cp3Recs /\ d.state = cp3.state
    BY <1>0 DEF Cp3Recs
  <2>2. /\ w.pc = "finish" /\ w.mode \in {"cp3", "finished"} /\ UNCHANGED <<link, sealed>>
        /\ \/ cp3' = d /\ w' = Sleeping /\ UNCHANGED <<keys, slot>>
           \/ InvalidateCp3(d, Sleeping)
    BY <1>3 DEF Cp3Finish
  <2> HIDE DEF d, Sleeping
  <2>3. CASE InvalidateCp3(d, Sleeping)
    BY <1>0, <2>1, <2>2, <2>3, WorkerWipeEffect
  <2>4. CASE cp3' = d /\ w' = Sleeping /\ UNCHANGED <<keys, slot>>
    BY <1>0, <1>u, <2>1, <2>2, <2>4
  <2> QED BY <2>2, <2>3, <2>4
<1>4. CASE FinishedP(sent, late)
  <2>1. Delivered(cp3) \in Cp3Recs /\ Delivered(cp3).state = cp3.state
    BY <1>0 DEF Delivered, Cp3Recs
  <2>2. w.pc = "result" /\ w.mode = "finished" /\ (sent => Deliver3) /\ UNCHANGED <<link, sealed>>
    BY <1>4 DEF FinishedP
  <2>3. CASE InvalidateCp3(Delivered(cp3), Sleeping)
    <3> HIDE DEF Sleeping
    <3> QED BY <1>0, <2>1, <2>2, <2>3, WorkerWipeEffect
  <2>4. CASE sent /\ ~late /\ keys.app # 0 /\ ~keys.secure
    <3>1. /\ keys' = [keys EXCEPT !.secure = TRUE, !.rx = 0, !.tx = 0] /\ w' = Sleeping
          /\ cp3' = [Delivered(cp3) EXCEPT !.state = "APP_SECURE"] /\ slot' = slot
      BY <2>4, <1>4 DEF FinishedP
    <3>2. /\ keys'.rx = 0 /\ keys'.tx = 0 /\ ~keys'.pend /\ ~keys'.ready /\ keys'.secure
      BY <1>0, <2>4, <3>1 DEF KeyRecs
    <3>4. w'.pc = "idle" /\ w'.mode = "none"
      BY <1>0, <3>1
    <3>3. cp3.state = "FINISHED_P_BUSY" /\ cp3'.state = "APP_SECURE" /\ ~slot.pending
      BY <2>1, <2>2, <2>4, <3>1 DEF Deliver3, Expected, Cp3Recs, Inv, SlotInv, SlotTaken
    <3>5. PongInv'
      BY <2>2, <3>1, <3>2, <3>3, <3>4
    <3> QED BY <1>u, <2>2, <3>2, <3>3, <3>5 DEF SessionCommitted, Ended
  <2> QED BY <1>4, <2>3, <2>4 DEF FinishedP
<1>5. CASE Cp4Result
  <2> DEFINE d == [cp3 EXCEPT !.worker = FALSE, !.delivery = TRUE]
             x == [w EXCEPT !.pc = "notify"]
  <2>1. /\ w.pc = "result" /\ w.mode = "cp4" /\ UNCHANGED <<link, sealed>>
        /\ \/ /\ w.ok /\ Live4
              /\ cp3' = d /\ w' = [x EXCEPT !.conn = cp3.conn] /\ UNCHANGED <<keys, slot>>
           \/ InvalidateCp3(d, x)
    BY <1>5 DEF Cp4Result
  <2>2. /\ d \in Cp3Recs /\ d.state = cp3.state /\ d.delivery
        /\ x \in Workers /\ x.pc = "notify" /\ x.mode = "cp4"
    BY <1>0, <2>1 DEF Cp3Recs, Workers, Pcs, Delivering
  <2>3. [x EXCEPT !.conn = cp3.conn].pc = "notify" /\ [x EXCEPT !.conn = cp3.conn].mode = "cp4"
    BY <2>2 DEF Workers
  <2> HIDE DEF d, x
  <2>4. CASE InvalidateCp3(d, x)
    BY <2>1, <2>2, <2>4, WorkerWipeEffect
  <2>5. CASE /\ w.ok /\ Live4
             /\ cp3' = d /\ w' = [x EXCEPT !.conn = cp3.conn] /\ UNCHANGED <<keys, slot>>
    <3>1. keys.ready
      BY <2>1, <2>5 DEF Live4, Busy
    <3> QED BY <1>u, <2>1, <2>2, <2>3, <2>5, <3>1
  <2> QED BY <2>1, <2>4, <2>5
<1>6. CASE Cp4Finish
  <2> DEFINE d == [cp3 EXCEPT !.delivery = FALSE]
  <2>1. d \in Cp3Recs /\ d.state = cp3.state
    BY <1>0 DEF Cp3Recs
  <2>2. /\ UNCHANGED <<link, sealed>>
        /\ \/ Commits4 /\ keys' = Counted(keys) /\ cp3' = d /\ w' = Sleeping /\ slot' = slot
           \/ InvalidateCp3(d, Sleeping)
    BY <1>6 DEF Cp4Finish
  <2> HIDE DEF d, Sleeping
  <2>3. CASE InvalidateCp3(d, Sleeping)
    BY <1>0, <2>1, <2>2, <2>3, WorkerWipeEffect
  <2>4. CASE Commits4 /\ keys' = Counted(keys) /\ cp3' = d /\ w' = Sleeping /\ slot' = slot
    <3>1. /\ keys.secure /\ keys.pend /\ keys'.rx = keys.rx + 1 /\ keys'.tx = keys.tx + 1
          /\ ~keys'.pend /\ ~keys'.ready /\ keys'.secure
      BY <1>0, <2>4 DEF Commits4, Counted, KeyRecs
    <3> QED BY <1>0, <1>u, <2>1, <2>2, <2>4, <3>1 DEF SessionCounted
  <2> QED BY <2>2, <2>3, <2>4
<1> QED BY <1>1, <1>2, <1>3, <1>4, <1>5, <1>6

(* Every plain step of the Peripheral. *)
LEMMA PlainEffect ==
  ASSUME Inv, PongInv, [PlainNext]_vars
  PROVE  PongInv' /\ Effect
<1>1. CASE Connected \/ Disconnected \/ SecurityChanged \/ Unsubscribe \/ Cp4Denied
  BY <1>1, HostWipeEffect
<1>2. CASE \/ SecurityUp \/ SecurityLost \/ Subscribe \/ TimerNext \/ Tick \/ UNCHANGED vars
           \/ \E next \in {"EMPTY", "RECEIVING", "READY"} : WriteCiphertext(next)
           \/ \E good \in BOOLEAN : Cp2Start(good) \/ FinishedC(good)
  BY <1>2, HostEffect DEF TimerNext
<1>3. CASE WorkerNext
  BY <1>3, WorkerEffect, DeliverEffect DEF WorkerNext
<1> QED BY <1>1, <1>2, <1>3 DEF PlainNext

-----------------------------------------------------------------------------
(* How the process moves, seen from the counters: it keeps what it has,     *)
(* drops it, takes a link before its exchange, numbers a PING, or takes     *)
(* FINISHED_P or a PONG of its link.                                        *)
KeepsCounters == c'.link = c.link /\ c'.tx = c.tx /\ c'.rx = c.rx
Stays ==
    /\ KeepsCounters /\ (c'.hs = "APP_SECURE" => c.hs = "APP_SECURE")
    /\ c'.pc \in Before => c.pc \in Before \/ (Connected /\ c.pc = "connect")
    /\ c'.pc = "connect" => c.pc = "connect"
Drops ==
    c'.link = 0 /\ c'.tx = 0 /\ c'.rx = 0 /\ c'.hs # "APP_SECURE" /\ c'.pc \notin Before
Relinks ==
    /\ c.pc \in Before /\ c'.link = cur' /\ cur' # 0
    /\ c'.tx = c.tx /\ c'.rx = c.rx /\ c'.hs = c.hs /\ c'.pc # "connect"
Numbers ==
    /\ \E good \in BOOLEAN : Ping(good)
    /\ c'.link = c.link /\ c'.tx = c.tx + 1 /\ c'.rx = c.rx /\ c'.pc = "pong"
TakesFinished ==
    /\ inbox # <<>> /\ Head(inbox).type = "FINISHED_P" /\ Head(inbox).root = c.link
    /\ KeepsCounters /\ c'.pc = "quiet" /\ UNCHANGED vars
TakesPong ==
    /\ inbox # <<>> /\ Head(inbox).type = "PONG" /\ Head(inbox).root = c.link
    /\ Head(inbox).seq = c.rx /\ c'.link = c.link /\ c'.tx = c.tx /\ c'.rx = c.rx + 1
    /\ c'.pc \in {"settle", "ping"} /\ UNCHANGED vars
Moved == Stays \/ Drops \/ Relinks \/ Numbers \/ TakesFinished \/ TakesPong

(* A change of place keeps the counters; an end keeps or drops them. *)
LEMMA MoveFields ==
  ASSUME c \in Processes
  PROVE  /\ \A pc \in Places : /\ To(pc).link = c.link /\ To(pc).tx = c.tx
                                /\ To(pc).rx = c.rx /\ To(pc).hs = c.hs
         /\ \A v \in Verdicts \ {"ok"} : /\ Ends(v).link = 0 /\ Ends(v).tx = 0 /\ Ends(v).rx = 0
                                         /\ Ends(v).hs # "APP_SECURE"
         /\ /\ Ends("ok").link = c.link /\ Ends("ok").tx = c.tx /\ Ends("ok").rx = c.rx
            /\ Ends("ok").hs = c.hs
         /\ /\ Closed(c).link = c.link /\ Closed(c).tx = c.tx /\ Closed(c).rx = c.rx
            /\ Closed(c).hs # "APP_SECURE"
<1>1. \A pc \in Places : /\ To(pc).link = c.link /\ To(pc).tx = c.tx
                         /\ To(pc).rx = c.rx /\ To(pc).hs = c.hs
  BY DEF To, Processes
<1>2. /\ Ends("ok").link = c.link /\ Ends("ok").tx = c.tx /\ Ends("ok").rx = c.rx
      /\ Ends("ok").hs = c.hs
  BY DEF Ends, Processes
<1> DEFINE x == Closed(c)
           h == IF c.hs = "NEW" THEN c.hs ELSE "CLOSED"
<1>3. x = [c EXCEPT !.hs = h] /\ h # "APP_SECURE"
  BY DEF Closed
<1> HIDE DEF h
<1>4. /\ x.link = c.link /\ x.tx = c.tx /\ x.rx = c.rx /\ x.hs # "APP_SECURE"
  BY <1>3 DEF Processes
<1>5. x \in Processes
  BY MovesTyped
<1>6. ASSUME NEW v \in Verdicts \ {"ok"}
      PROVE  Ends(v).link = 0 /\ Ends(v).tx = 0 /\ Ends(v).rx = 0 /\ Ends(v).hs # "APP_SECURE"
  <2>1. Ends(v) = [Unwound EXCEPT !.pc = "cleanup", !.verdict = v]
    BY DEF Ends
  <2>2. Unwound = [x EXCEPT !.link = 0, !.tx = 0, !.rx = 0, !.cold = FALSE, !.unpair = FALSE]
    BY DEF Unwound
  <2> HIDE DEF x
  <2>3. /\ Unwound \in Processes /\ Unwound.link = 0 /\ Unwound.tx = 0 /\ Unwound.rx = 0
        /\ Unwound.hs = x.hs
    BY <1>5, <2>2 DEF Processes
  <2> QED BY <1>4, <2>1, <2>3 DEF Processes
<1> QED BY <1>1, <1>2, <1>4, <1>6

(* The end of a process. *)
LEMMA EndsMoved ==
  ASSUME c \in Processes, NEW v \in Verdicts, NEW b \in Int, NEW e \in BOOLEAN,
         c' \in {Ends(v), [Ends(v) EXCEPT !.base = b], [Ends(v) EXCEPT !.early = e]}
  PROVE  Moved
<1>1. Ends(v) \in Processes /\ Ends(v).pc = "cleanup"
  BY MovesTyped
<1>2. /\ c'.pc = "cleanup" /\ c'.link = Ends(v).link /\ c'.tx = Ends(v).tx /\ c'.rx = Ends(v).rx
      /\ c'.hs = Ends(v).hs
  BY <1>1 DEF Processes
<1>3. CASE v = "ok"
  BY <1>2, <1>3, MoveFields DEF Moved, Stays, KeepsCounters, Before
<1>4. CASE v # "ok"
  BY <1>2, <1>4, MoveFields DEF Moved, Drops, Before
<1> QED BY <1>3, <1>4

(* A change of place. *)
LEMMA ToMoved ==
  ASSUME c \in Processes, NEW pc \in Places, NEW t \in Targets, NEW h \in Sessions \ {"APP_SECURE"},
         pc # "connect", pc \in Before => c.pc \in Before,
         c' \in {To(pc), [To(pc) EXCEPT !.then = t], [To(pc) EXCEPT !.hs = h]}
  PROVE  Moved
<1>1. To(pc) \in Processes /\ To(pc).pc = pc
  BY MovesTyped
<1>2. /\ c'.pc = pc /\ c'.link = To(pc).link /\ c'.tx = To(pc).tx /\ c'.rx = To(pc).rx
      /\ c'.hs \in {To(pc).hs, h}
  BY <1>1 DEF Processes
<1> QED BY <1>2, MoveFields DEF Moved, Stays, KeepsCounters

(* Every step up to the exchange, and around it. *)
LEMMA ApproachMoved ==
  ASSUME SystemTyped,
         \/ NewRun \/ ClearDkBonds \/ AllDone \/ PairingNext \/ PeripheralNext \/ DisturbedNext
         \/ ScanAndConnect \/ Inspect \/ EnsureConnected \/ PreL4Probes \/ RetireLink
         \/ VerifyClosed \/ Pair \/ PairReturns \/ PairTimesOut \/ StopNotify \/ Report
  PROVE  Moved
<1>0. /\ c \in Processes /\ c.then \in Targets /\ c.base \in Int /\ faults \in Int /\ cur \in Nat
      /\ gen \in Nat /\ 0 \in Int /\ -1 \in Int /\ Targets \subseteq Places \cup {"none"}
  BY HandshakeAssumption
     DEF SystemTyped, Typed, HandshakeTypeOK, Conns, ProcessTyped, Processes, Targets, Places,
         Exchange
<1>e. ASSUME NEW v \in Verdicts, NEW b \in Int, c' = Ends(v) \/ c' = [Ends(v) EXCEPT !.base = b]
      PROVE  Moved
  BY <1>0, <1>e, EndsMoved
<1>v. {"passed", "error"} \subseteq Verdicts
  BY DEF Verdicts
<1>t. ASSUME NEW pc \in Places, pc # "connect", pc \in Before => c.pc \in Before,
             NEW t \in Targets, c' = To(pc) \/ c' = [To(pc) EXCEPT !.then = t]
      PROVE  Moved
  BY <1>0, <1>t, ToMoved DEF Sessions
<1>p. /\ {"inspect", "ensure", "pair", "ceremony", "retire", "report", "subscribe", "probe"}
             \subseteq Places
      /\ {"inspect", "verify", "subscribe"} \subseteq Targets
  BY DEF Places, Exchange, Targets
<1>u. ASSUME UNCHANGED vars PROVE cur' = cur
  BY <1>u DEF vars, link
<1> USE DEF Step, Calls, At
<1>1. CASE c' = c \/ c' = [c EXCEPT !.opened = TRUE] \/ c' = Closed(c)
  <2>1. /\ c'.pc = c.pc /\ KeepsCounters /\ (c'.hs = "APP_SECURE" => c.hs = "APP_SECURE")
    BY <1>0, <1>1, MovesTyped, MoveFields DEF KeepsCounters, Processes
  <2> QED BY <2>1 DEF Moved, Stays
<1>2. CASE NewRun
  <2>1. PICK mode \in Checkpoints, neg \in Negatives, unpair \in BOOLEAN :
            c' = [NoProcess EXCEPT !.pc = "connect", !.mode = mode, !.neg = neg,
                                   !.unpair = unpair]
    BY <1>2 DEF NewRun, Negatives
  <2>2. c'.pc = "connect" /\ c'.link = 0 /\ c'.tx = 0 /\ c'.rx = 0 /\ c'.hs = "NEW"
    BY <2>1 DEF NoProcess
  <2> QED BY <2>2 DEF Moved, Drops, Before
<1>3. CASE ClearDkBonds \/ AllDone \/ PairingNext
  BY <1>1, <1>3 DEF ClearDkBonds, AllDone, system, PairingNext, CeremonyStep, Pairs,
                    PairsElsewhere, Refuses
<1>4. CASE PeripheralNext
  BY <1>1, <1>4 DEF PeripheralNext, WorkerMoves, Delivers, DeliveryFails, HostMoves, Sends
<1>5. CASE DisturbedNext
  <2>1. c' = c \/ c' = Closed(c) \/ c' = Ends("error")
    BY <1>5 DEF DisturbedNext, TimePasses, FinishedLate, LinkLost, Downgraded, Aborts, Unsolicited,
                Sends
  <2> QED BY <1>0, <1>1, <1>e, <1>v, <2>1
<1>6. CASE ScanAndConnect
  <2> DEFINE b == IF AtRest THEN faults ELSE -1
  <2>1. c' = [To("inspect") EXCEPT !.base = b] /\ Connected /\ c.pc = "connect"
    BY <1>6 DEF ScanAndConnect
  <2>2. b \in Int
    BY <1>0
  <2> HIDE DEF b
  <2>3. To("inspect") \in Processes /\ To("inspect").pc = "inspect"
    BY <1>0, <1>p, MovesTyped
  <2>4. c'.pc = "inspect" /\ KeepsCounters /\ c'.hs = c.hs
    BY <1>0, <1>p, <2>1, <2>2, <2>3, MoveFields DEF Processes, KeepsCounters
  <2> QED BY <2>1, <2>4 DEF Moved, Stays
<1>7. CASE Inspect
  <2> DEFINE pc == IF bonds.pc THEN "subscribe" ELSE "probe"
             b == IF bonds.pc = bonds.dk THEN To(pc).base ELSE -1
             cold == ~bonds.pc
  <2>1. /\ c.pc = "inspect"
        /\ \/ c' = Ends("error") \/ c' = [Ends("error") EXCEPT !.base = -1]
           \/ c' = [To("ensure") EXCEPT !.then = "inspect"]
           \/ /\ cur # 0 /\ UNCHANGED vars
              /\ c' = [To(pc) EXCEPT !.cold = cold, !.link = cur, !.unpair = FALSE, !.base = b]
    BY <1>7 DEF Inspect
  <2>2. pc \in {"subscribe", "probe"} /\ pc \in Places
    BY <1>p
  <2> HIDE DEF pc, b, cold
  <2>3. CASE /\ cur # 0 /\ UNCHANGED vars
             /\ c' = [To(pc) EXCEPT !.cold = cold, !.link = cur, !.unpair = FALSE, !.base = b]
    <3>1. To(pc) \in Processes /\ To(pc).pc = pc
      BY <1>0, <2>2, MovesTyped
    <3>2. c'.pc = pc /\ c'.link = cur /\ c'.tx = c.tx /\ c'.rx = c.rx /\ c'.hs = c.hs
      BY <1>0, <2>2, <2>3, <3>1, MoveFields DEF Processes
    <3> QED BY <1>u, <2>1, <2>2, <2>3, <3>2 DEF Moved, Relinks, Before
  <2> QED BY <1>0, <1>e, <1>v, <1>t, <1>p, <2>1, <2>3 DEF Before
<1>8. CASE EnsureConnected
  <2>1. PICK n \in Nat :
            /\ n # 0 /\ n = cur' /\ c.pc = "ensure"
            /\ \/ c' = [To(c.then) EXCEPT !.link = n, !.then = "none"]
               \/ \E b \in Int : c' = [To(c.then) EXCEPT !.link = n, !.then = "none", !.base = b]
    <3>1. CASE cur # 0
      BY <1>0, <1>u, <1>8, <3>1 DEF EnsureConnected
    <3>2. CASE cur = 0
      <4> DEFINE b == IF AtRest THEN To(c.then).base ELSE -1
      <4>1. To(c.then).base \in Int
        BY <1>0 DEF To, Processes
      <4>2. b \in Int
        BY <1>0, <4>1
      <4>3. /\ c' = [To(c.then) EXCEPT !.link = gen + 1, !.then = "none", !.base = b]
            /\ c.pc = "ensure" /\ cur' = gen + 1 /\ gen + 1 \in Nat /\ gen + 1 # 0
        BY <1>0, <1>8, <3>2 DEF EnsureConnected, Connected
      <4> QED BY <4>2, <4>3
    <3> QED BY <3>1, <3>2
  <2>2. /\ c'.pc = c.then /\ c'.link = n /\ c'.tx = c.tx /\ c'.rx = c.rx /\ c'.hs = c.hs
    BY ZenonT(40), <1>0, <2>1 DEF To, Processes
  <2> QED BY <1>0, <2>1, <2>2 DEF Moved, Relinks, Before, Targets
<1>9. CASE PreL4Probes \/ VerifyClosed \/ Pair \/ PairReturns \/ PairTimesOut \/ RetireLink
  <2>1. /\ c.pc \in Before
        /\ \/ c' = Ends("error") \/ c' = Ends("passed") \/ c' = [Ends("error") EXCEPT !.base = -1]
           \/ c' = To("pair") \/ c' = To("ceremony") \/ c' = To("retire")
           \/ c' = [To("ensure") EXCEPT !.then = "subscribe"]
           \/ c' = [To("ensure") EXCEPT !.then = "verify"]
    BY <1>9 DEF PreL4Probes, VerifyClosed, Probes, Pair, PairReturns, PairTimesOut, RetireLink,
                Before
  <2> QED BY <1>0, <1>e, <1>v, <1>t, <1>p, <2>1
<1>10. CASE StopNotify
  <2>1. c' = To("report") /\ "report" \notin Before
    BY <1>10 DEF StopNotify, Before
  <2> QED BY <1>p, <1>t, <2>1
<1>11. CASE Report
  <2> DEFINE x == Closed(c)
             v == IF Reports THEN x.verdict ELSE "error"
  <2>1. c' = [x EXCEPT !.pc = "exit", !.verdict = v]
    BY <1>11 DEF Report
  <2>2. x \in Processes /\ x.link = c.link /\ x.tx = c.tx /\ x.rx = c.rx /\ x.hs # "APP_SECURE"
    BY <1>0, MovesTyped, MoveFields
  <2> HIDE DEF x, v
  <2>3. /\ c'.pc = "exit" /\ c'.link = x.link /\ c'.tx = x.tx /\ c'.rx = x.rx /\ c'.hs = x.hs
    BY <2>1, <2>2 DEF Processes
  <2> QED BY <2>2, <2>3 DEF Moved, Stays, KeepsCounters, Before
<1> QED BY <1>2, <1>3, <1>4, <1>5, <1>6, <1>7, <1>8, <1>9, <1>10, <1>11

(* Every step of the exchange. *)
LEMMA ExchangeMoved ==
  ASSUME SystemTyped,
         \/ StartNotify \/ Attest("attest1", "info1") \/ Attest("attest2", "info2") \/ Attested
         \/ Upload \/ SendStart \/ ReadyV1 \/ AcceptReady \/ SendFinishedC \/ AcceptFinishedP
         \/ Quiet \/ SendPing \/ AcceptPong \/ Settle
  PROVE  Moved
<1>0. /\ c \in Processes /\ cp3.delivery \in BOOLEAN /\ c.tx \in Nat /\ c.rx \in Nat
      /\ c.base \in Int /\ c.then \in Targets
  BY DEF SystemTyped, Typed, HandshakeTypeOK, ProcessTyped, Processes
<1>e. ASSUME NEW v \in Verdicts, c' = Ends(v) PROVE Moved
  BY <1>0, <1>e, EndsMoved
<1>h. {"NEW", "WAIT_READY_CP3", "WAIT_FINISHED_P"} \subseteq Sessions \ {"APP_SECURE"}
  BY DEF Sessions
<1>t. ASSUME NEW pc \in Exchange, pc \in Before => c.pc \in Before, c' = To(pc) PROVE Moved
  <2>1. pc \in Places /\ pc # "connect"
    BY DEF Places, Exchange
  <2> QED BY <1>0, <1>h, <1>t, <2>1, ToMoved
<1>v. {"ok", "error"} \subseteq Verdicts
  BY DEF Verdicts
<1> USE DEF Step, Calls, At
<1>1. CASE StartNotify
  <2>1. CASE c' = [c EXCEPT !.opened = TRUE]
    <3>1. c'.pc = c.pc /\ KeepsCounters /\ c'.hs = c.hs
      BY <1>0, <2>1 DEF KeepsCounters, Processes
    <3> QED BY <3>1 DEF Moved, Stays
  <2>2. CASE c' # [c EXCEPT !.opened = TRUE]
    <3>1. /\ c.pc \in Before
          /\ \/ c' = Ends("error")
             \/ c' = To(IF c.mode = "cp1" THEN "upload" ELSE "attest1")
      BY <1>1, <2>2 DEF StartNotify, Writes, Fails, Before
    <3> QED BY <1>e, <1>t, <1>v, <3>1 DEF Exchange
  <2> QED BY <2>1, <2>2
<1>2. CASE Attest("attest1", "info1") \/ Attest("attest2", "info2") \/ Upload \/ SendStart
  <2>1. /\ c.pc \in Before
        /\ \/ c' = Ends("error") \/ c' = To("info1") \/ c' = To("info2") \/ c' = To("last")
           \/ c' = To("attest2") \/ c' = To("ready")
    BY <1>2 DEF Attest, Upload, SendStart, Writes, Submits, Fails, Before
  <2> QED BY <1>e, <1>t, <1>v, <2>1 DEF Exchange
<1>3. CASE SendFinishedC \/ ReadyV1 \/ Quiet \/ Settle
  <2>1. \/ c' = Ends("error") \/ c' = Ends("ok") \/ c' = To("finished") \/ c' = To("quiet")
        \/ c' = To("ping")
    BY <1>3 DEF SendFinishedC, Submits, Fails, ReadyV1, Quiet, Settle, Receives
  <2> QED BY <1>e, <1>t, <1>v, <2>1 DEF Exchange, Before
<1>4. CASE Attested
  <2> DEFINE h == IF Handshakes THEN "WAIT_READY_CP3" ELSE To("start").hs
  <2>1. /\ c.pc \in Before
        /\ \/ c' = Ends("error") \/ c' = To("upload") \/ c' = To("quiet")
           \/ c' = [To("start") EXCEPT !.hs = h]
    BY <1>4 DEF Attested, Receives, Before
  <2>2. h = "WAIT_READY_CP3" \/ h = c.hs
    BY <1>0 DEF To, Processes
  <2> HIDE DEF h
  <2>3. CASE c' = [To("start") EXCEPT !.hs = h]
    <3>1. /\ c'.pc = "start" /\ KeepsCounters /\ c'.hs = h
      BY <1>0, <2>3 DEF To, Processes, KeepsCounters
    <3> QED BY <2>1, <2>2, <3>1 DEF Moved, Stays
  <2> QED BY <1>e, <1>t, <1>v, <2>1, <2>3 DEF Exchange
<1>5. CASE AcceptReady
  <2>1. c' = Ends("error") \/ c' = [To("confirm") EXCEPT !.hs = "WAIT_FINISHED_P"]
    BY <1>5 DEF AcceptReady, Receives
  <2>2. "confirm" \in Places /\ "confirm" \notin Before
    BY DEF Places, Exchange, Before
  <2> QED BY <1>0, <1>e, <1>h, <1>v, <2>1, <2>2, ToMoved
<1>6. CASE AcceptFinishedP
  <2>1. \/ c' = Ends("error")
        \/ /\ inbox # <<>> /\ Head(inbox).type = "FINISHED_P" /\ Head(inbox).root = c.link
           /\ c' = [To("quiet") EXCEPT !.hs = "APP_SECURE"] /\ UNCHANGED vars
    BY <1>6 DEF AcceptFinishedP, Receives, Is, Mine
  <2>2. CASE c' = [To("quiet") EXCEPT !.hs = "APP_SECURE"]
    <3>1. c'.pc = "quiet" /\ KeepsCounters
      BY <1>0, <2>2 DEF To, Processes, KeepsCounters
    <3> QED BY <1>e, <1>v, <2>1, <3>1 DEF Moved, TakesFinished
  <2> QED BY <1>e, <1>v, <2>1, <2>2
<1>7. CASE SendPing
  <2>1. \/ c' = Ends("error") \/ \E e \in BOOLEAN : c' = [Ends("error") EXCEPT !.early = e]
        \/ /\ \E good \in BOOLEAN : Ping(good)
           /\ c' = [[c EXCEPT !.tx = @ + 1] EXCEPT !.pc = "pong"]
    BY <1>0, <1>7 DEF SendPing, Fails
  <2>2. CASE c' = [[c EXCEPT !.tx = @ + 1] EXCEPT !.pc = "pong"]
    <3>1. c'.pc = "pong" /\ c'.link = c.link /\ c'.tx = c.tx + 1 /\ c'.rx = c.rx
      BY <1>0, <2>2 DEF Processes
    <3> QED BY <1>0, <1>e, <1>v, <2>1, <3>1, EndsMoved DEF Moved, Numbers
  <2> QED BY <1>0, <1>e, <1>v, <2>1, <2>2, EndsMoved
<1>8. CASE AcceptPong
  <2>1. \/ c' = Ends("error")
        \/ \E pc \in {"settle", "ping"} :
               /\ inbox # <<>> /\ Head(inbox).type = "PONG" /\ Head(inbox).root = c.link
               /\ Head(inbox).seq = c.rx /\ UNCHANGED vars
               /\ c' = [To(pc) EXCEPT !.rx = @ + 1]
    BY <1>8 DEF AcceptPong, Receives, Is, Mine
  <2>2. ASSUME NEW pc \in {"settle", "ping"}, c' = [To(pc) EXCEPT !.rx = @ + 1]
        PROVE  c'.pc = pc /\ c'.link = c.link /\ c'.tx = c.tx /\ c'.rx = c.rx + 1
    BY <1>0, <2>2 DEF To, Processes
  <2> QED BY <1>e, <1>v, <2>1, <2>2 DEF Moved, TakesPong
<1> QED BY <1>1, <1>2, <1>3, <1>4, <1>5, <1>6, <1>7, <1>8

(* Every step is such a move. *)
LEMMA CentralMoves ==
  ASSUME SystemTyped, V1Next
  PROVE  Moved
  BY ApproachMoved, ExchangeMoved DEF V1Next, ProcessNext

-----------------------------------------------------------------------------
(* What the notifications do to the inbox: it loses frames at either end    *)
(* and gains one at its end.  FINISHED_P is sent at the end of a handshake, *)
(* and a PONG while the session has it ready at its counter.                *)
NewFinished(f) == f.root = keys.app /\ cp3'.state \in Ended /\ cur' = cur /\ gen' = gen
NewPong(f) ==
    /\ f.root = keys.app /\ f.seq = keys.tx /\ keys.ready /\ keys.secure /\ cp3.delivery
    /\ UNCHANGED <<cur, gen, cp3, keys, sealed>>
NewFrame(f) ==
    /\ f \in Frames /\ (f.type = "FINISHED_P" => NewFinished(f)) /\ (f.type = "PONG" => NewPong(f))
InboxMoved ==
    \/ inbox' = inbox \/ inbox' = <<>> \/ (inbox # <<>> /\ inbox' = Tail(inbox))
    \/ \E n \in 0 .. Len(inbox) : inbox' = SubSeq(inbox, 1, n)
    \/ \E f : NewFrame(f) /\ inbox' = Append(inbox, f)

(* The elements of a sequence that was shortened or extended. *)
LEMMA InboxElements ==
  ASSUME NEW S, NEW s \in Seq(S)
  PROVE  /\ \A e \in S : Append(s, e) \in Seq(S) /\ Elements(Append(s, e)) \subseteq Elements(s) \cup {e}
         /\ s # <<>> => /\ Tail(s) \in Seq(S) /\ Elements(Tail(s)) \subseteq Elements(s)
                        /\ Head(s) \in Elements(s)
         /\ \A n \in 0 .. Len(s) : /\ SubSeq(s, 1, n) \in Seq(S)
                                   /\ Elements(SubSeq(s, 1, n)) \subseteq Elements(s)
         /\ <<>> \in Seq(S) /\ Elements(<<>>) = {}
<1>1. ASSUME NEW e \in S
      PROVE  Append(s, e) \in Seq(S) /\ Elements(Append(s, e)) \subseteq Elements(s) \cup {e}
  <2>1. /\ Append(s, e) \in Seq(S) /\ Len(Append(s, e)) = Len(s) + 1
        /\ Append(s, e)[Len(s) + 1] = e
        /\ \A i \in 1 .. Len(s) : Append(s, e)[i] = s[i]
    OBVIOUS
  <2> QED BY <2>1 DEF Elements
<1>2. ASSUME s # <<>>
      PROVE  /\ Tail(s) \in Seq(S) /\ Elements(Tail(s)) \subseteq Elements(s)
             /\ Head(s) \in Elements(s)
  <2>1. /\ Tail(s) \in Seq(S) /\ Len(Tail(s)) = Len(s) - 1 /\ Len(s) \in Nat \ {0}
        /\ Head(s) = s[1] /\ \A i \in 1 .. Len(Tail(s)) : Tail(s)[i] = s[i + 1]
    BY <1>2
  <2> QED BY <2>1 DEF Elements
<1>3. ASSUME NEW n \in 0 .. Len(s)
      PROVE  SubSeq(s, 1, n) \in Seq(S) /\ Elements(SubSeq(s, 1, n)) \subseteq Elements(s)
  <2>1. /\ SubSeq(s, 1, n) \in Seq(S) /\ Len(SubSeq(s, 1, n)) = n /\ Len(s) \in Nat
        /\ \A i \in 1 .. n : SubSeq(s, 1, n)[i] = s[i]
    OBVIOUS
  <2> QED BY <2>1 DEF Elements
<1>4. <<>> \in Seq(S) /\ Elements(<<>>) = {}
  BY DEF Elements
<1> QED BY <1>1, <1>2, <1>3, <1>4

(* The frames the Peripheral sends. *)
LEMMA SentFrames ==
  ASSUME Inv, PongInv
  PROVE  /\ \A type \in FrameTypes \ {"FINISHED_P", "PONG"}, root \in Conns : NewFrame(Frame(type, root, 0))
         /\ \A late \in BOOLEAN : FinishedP(TRUE, late) => NewFrame(Frame("FINISHED_P", keys.app, 0))
         /\ Cp4Notify(TRUE) => NewFrame(Frame("PONG", keys.app, keys.tx))
<1>0. /\ 0 \in 0 .. SEQ_MAX /\ keys.app \in Conns /\ keys.tx \in 0 .. SEQ_MAX /\ cp3 \in Cp3Recs
  BY HandshakeAssumption DEF Inv, Typed, HandshakeTypeOK, Conns, Cp3Recs
<1>1. ASSUME NEW type \in FrameTypes \ {"FINISHED_P", "PONG"}, NEW root \in Conns
      PROVE  NewFrame(Frame(type, root, 0))
  BY <1>0 DEF NewFrame, Frame, Frames
<1>2. ASSUME NEW late \in BOOLEAN, FinishedP(TRUE, late)
      PROVE  NewFrame(Frame("FINISHED_P", keys.app, 0))
  <2>1. cp3.state = "FINISHED_P_BUSY" /\ UNCHANGED link
    BY <1>2 DEF FinishedP, Deliver3, Expected
  <2>2. Delivered(cp3) \in Cp3Recs /\ Delivered(cp3).state = cp3.state
    BY <1>0 DEF Delivered, Cp3Recs
  <2>3. cp3' = [Delivered(cp3) EXCEPT !.state = "APP_SECURE"] \/ cp3' = Failed(Delivered(cp3))
    BY <1>2 DEF FinishedP, InvalidateCp3
  <2>4. cp3'.state \in Ended
    BY <2>1, <2>2, <2>3 DEF Failed, Cp3Recs, Ended
  <2> QED BY <1>0, <2>1, <2>4 DEF NewFrame, NewFinished, Frame, Frames, FrameTypes, link
<1>3. ASSUME Cp4Notify(TRUE)
      PROVE  NewFrame(Frame("PONG", keys.app, keys.tx))
  <2>1. /\ w.pc = "notify" /\ w.mode = "cp4" /\ cp3.state = "APP_SECURE"
        /\ UNCHANGED <<cur, gen, cp3, keys, sealed>>
    BY <1>3 DEF Cp4Notify, Live4, link
  <2>2. keys.ready /\ keys.secure /\ cp3.delivery
    BY <2>1 DEF PongInv, ResultReady, ReadySealed, Inv, SlotInv, DeliveryFlag, Delivering, Cp3Modes
  <2> QED BY <1>0, <2>1, <2>2 DEF NewFrame, NewPong, Frame, Frames, FrameTypes
<1> QED BY <1>1, <1>2, <1>3

(* Every step moves the inbox so. *)
LEMMA InboxMoves ==
  ASSUME Inv, PongInv, V1Next
  PROVE  InboxMoved
<1>0. 0 \in Conns /\ w.from \in Conns
  BY HandshakeAssumption DEF Inv, Typed, WorkerTyped, Workers, Conns
<1> USE DEF InboxMoved
<1>s. ASSUME NEW f, NewFrame(f), Sends(f) PROVE InboxMoved
  BY <1>s DEF Sends
<1>f. ASSUME NEW type \in {"SEC_INFO", "ERROR", "READY", "READY_CP3"}, NEW root \in Conns
      PROVE  NewFrame(Frame(type, root, 0))
  BY SentFrames DEF FrameTypes
<1>1. CASE NewRun \/ ClearDkBonds \/ AllDone
  BY <1>1 DEF NewRun, ClearDkBonds, AllDone, system
<1>2. CASE \/ ScanAndConnect \/ Inspect \/ EnsureConnected \/ PreL4Probes \/ Pair \/ PairReturns
           \/ PairTimesOut \/ RetireLink \/ VerifyClosed \/ StopNotify \/ Report
  BY <1>2 DEF ScanAndConnect, Inspect, EnsureConnected, PreL4Probes, Probes, Pair, PairReturns,
              PairTimesOut, RetireLink, VerifyClosed, StopNotify, Report, Step, Calls
<1>3. CASE StartNotify \/ Upload \/ SendStart \/ SendFinishedC \/ SendPing
  BY <1>3 DEF StartNotify, Upload, SendStart, SendFinishedC, SendPing, Writes, Submits, Fails,
              Step, Calls
<1>4. CASE Attest("attest1", "info1") \/ Attest("attest2", "info2")
  <2>1. inbox' = inbox \/ (inbox = <<>> /\ inbox' = <<SecInfo>>)
    BY <1>4 DEF Attest, Fails, Step
  <2>2. NewFrame(SecInfo)
    BY <1>0, <1>f DEF SecInfo
  <2>3. Append(<<>>, SecInfo) = <<SecInfo>>
    OBVIOUS
  <2> QED BY <2>1, <2>2, <2>3
<1>5. CASE \/ Attested \/ ReadyV1 \/ AcceptReady \/ AcceptFinishedP \/ Quiet \/ AcceptPong
           \/ Settle
  BY <1>5 DEF Attested, ReadyV1, AcceptReady, AcceptFinishedP, Quiet, AcceptPong, Settle, Receives,
              Step
<1>6. CASE PairingNext
  BY <1>6 DEF PairingNext, CeremonyStep, Pairs, PairsElsewhere, Refuses
<1>7. CASE WorkerMoves \/ DeliveryFails \/ HostMoves
  BY <1>7 DEF WorkerMoves, DeliveryFails, HostMoves
<1>8. CASE Delivers \/ FinishedLate
  <2>1. NewFrame(OrError("READY")) /\ NewFrame(OrError("READY_CP3"))
    BY <1>0, <1>f DEF OrError
  <2>2. \/ Sends(OrError("READY")) \/ Sends(OrError("READY_CP3"))
        \/ \E late \in BOOLEAN : FinishedP(TRUE, late) /\ Sends(Frame("FINISHED_P", keys.app, 0))
        \/ Cp4Notify(TRUE) /\ Sends(Frame("PONG", keys.app, keys.tx))
    BY <1>8 DEF Delivers, FinishedLate
  <2> QED BY <1>s, <2>1, <2>2, SentFrames
<1>9. CASE TimePasses \/ Downgraded \/ Aborts \/ LinkLost
  BY <1>9 DEF TimePasses, Downgraded, Aborts, LinkLost
<1>10. CASE Unsolicited
  BY <1>0, <1>f, <1>10 DEF Unsolicited
<1> QED BY <1>1, <1>2, <1>3, <1>4, <1>5, <1>6, <1>7, <1>8, <1>9, <1>10
        DEF V1Next, ProcessNext, PeripheralNext, DisturbedNext

-----------------------------------------------------------------------------
(* The effect of a step on both ends: as that of a plain step, and a PING   *)
(* is numbered by the Central, a handshake started by it.                   *)
SessionPinged ==
    /\ keys.secure /\ keys'.rx = keys.rx /\ keys'.tx = keys.tx /\ c.tx = keys.rx
    /\ c'.tx = c.tx + 1 /\ (cp3.delivery => cp3'.delivery)
BothEffect ==
    /\ (cur' = cur /\ gen' = gen) \/ (NewLink /\ ~keys'.secure)
    /\ cur # 0 /\ cur' = cur /\ cp3.state \in Ended => cp3'.state \in Ended
    /\ cp3.state = "IDLE" => cp3'.state = "IDLE" \/ (cp3'.state = "CRYPTO_BUSY" /\ c'.pc \notin Before)
    /\ sealed \subseteq sealed'
    /\ keys'.secure =>
           cur' = cur /\ (SessionKept \/ SessionCommitted \/ SessionCounted \/ SessionPinged)

(* START_CP3 and PING keep the session's invariant and have that effect. *)
LEMMA StepEffect ==
  ASSUME Inv, PongInv, SystemTyped, V1Next
  PROVE  /\ PongInv' /\ BothEffect
         /\ (\E good \in BOOLEAN : Ping(good)) => SessionPinged /\ cp3'.state = "APP_SECURE"
<1>0. /\ w \in Workers /\ keys \in KeyRecs /\ cp3 \in Cp3Recs /\ c \in Processes /\ c.tx \in Nat
  BY DEF Inv, Typed, HandshakeTypeOK, WorkerTyped, KeyRecs, Cp3Recs, SystemTyped, ProcessTyped,
         Processes
<1> USE DEF PongInv, OldJobs, ReadySealed, ResultReady, OpenedKey
<1>1. CASE SendStart /\ \E good \in BOOLEAN : Cp3Start(good)
  <2>1. /\ cp3.state = "IDLE" /\ cp3'.state = "CRYPTO_BUSY" /\ ~keys.secure
        /\ UNCHANGED <<cur, gen, keys, w, sealed>>
    BY <1>1 DEF Cp3Start, Starts3, link
  <2>2. vars' # vars
    <3>1. cp3' # cp3
      BY <2>1
    <3> QED BY <3>1 DEF vars
  <2>3. c' = To("ready") \/ c' = Ends("error")
    BY <1>1, <2>2 DEF SendStart, Submits, Fails, Step
  <2>4. c'.pc \notin Before
    BY <1>0, <2>3, MovesTyped DEF Before, Places, Exchange, Verdicts
  <2>5. ~\E good \in BOOLEAN : Ping(good)
    BY <2>1 DEF Ping, Cp4Ping, Accepts4
  <2> QED BY <2>1, <2>4, <2>5 DEF BothEffect, Ended
<1>2. CASE \E good \in BOOLEAN : Ping(good)
  <2>1. PICK good \in BOOLEAN : Cp4Ping(c.tx, good)
    BY <1>2 DEF Ping
  <2>2. /\ cp3'.state = "APP_SECURE" /\ cp3.state = "APP_SECURE" /\ cp3'.delivery = cp3.delivery
        /\ ~cp3.worker /\ ~cp3.delivery /\ slot'.mode = "cp4" /\ c.tx = keys.rx
        /\ UNCHANGED <<cur, gen, w, sealed>>
    BY <1>0, <2>1 DEF Cp4Ping, Accepts4, Live4, Draining, Job, Cp3Recs, link
  <2>3. /\ keys'.secure /\ keys.secure /\ keys'.rx = keys.rx /\ keys'.tx = keys.tx /\ keys'.pend
        /\ ~keys'.ready /\ keys'.app = keys.app /\ ~keys.pend
    BY <1>0, <2>1 DEF Cp4Ping, Accepts4, KeyRecs
  <2>4. vars' # vars
    <3>1. keys' # keys
      BY <2>3
    <3> QED BY <3>1 DEF vars
  <2>5. SendPing
    <3>1. ~SendStart \/ ~\E g \in BOOLEAN : Cp3Start(g)
      BY <2>2 DEF Cp3Start, Starts3
    <3>2. ~[PlainNext]_vars
      <4>1. ASSUME [PlainNext]_vars PROVE FALSE
        BY <2>2, <2>3, <4>1, PlainEffect
           DEF Effect, SessionKept, SessionCommitted, SessionCounted
      <4> QED BY <4>1
    <3> QED BY <3>1, <3>2, PlainOrSent
  <2>6. c' = [[c EXCEPT !.tx = @ + 1] EXCEPT !.pc = "pong"]
    <3>1. Takes4
      BY <2>1 DEF Takes4, Cp4Ping
    <3> QED BY <2>4, <2>5, <3>1 DEF SendPing, Fails, Step
  <2>7. c'.tx = c.tx + 1
    BY <1>0, <2>6 DEF Processes
  <2>8. ~(w.mode = "cp4" /\ (w.pc \in Delivering \/ w.pc \in Busy))
    BY <2>2 DEF Inv, SlotInv, WorkerFlag, DeliveryFlag, Works, Cp3Modes
  <2>9. OldJobs' /\ ReadySealed' /\ ResultReady' /\ OpenedKey'
    BY <2>2, <2>3, <2>8
  <2> QED BY <2>2, <2>3, <2>7, <2>9 DEF BothEffect, SessionPinged, Ended
<1>3. CASE [PlainNext]_vars /\ ~\E good \in BOOLEAN : Ping(good)
  BY <1>3, PlainEffect DEF Effect, BothEffect
<1> QED BY <1>1, <1>2, <1>3, PlainOrSent

(* The counters, the frames and the sealed PONGs of both ends are kept in   *)
(* step by every step.                                                      *)
LEMMA AgreeStep ==
  ASSUME Inv, Inv', PongInv, SystemTyped, SystemTyped', AgreeInv, V1Next
  PROVE  PongInv' /\ AgreeInv'
<1>0. /\ c.tx \in Nat /\ c.rx \in Nat /\ c.link \in Nat /\ cur \in Nat /\ gen \in Nat
      /\ keys.rx \in Nat /\ keys.tx \in Nat /\ keys'.rx \in Nat /\ keys'.tx \in Nat
      /\ (cur # 0 => cur = gen) /\ (cur' # 0 => cur' = gen') /\ gen' \in Nat /\ cur' \in Nat
      /\ Owed \in {0, 1} /\ Owed' \in {0, 1}
  BY HandshakeAssumption
     DEF SystemTyped, ProcessTyped, Processes, Inv, Typed, HandshakeTypeOK, Conns, LinkNamed, Owed
<1>1. /\ PongInv' /\ BothEffect
      /\ (\E good \in BOOLEAN : Ping(good)) => SessionPinged /\ cp3'.state = "APP_SECURE"
  BY StepEffect
<1>2. Moved
  BY CentralMoves
<1>3. InboxMoved
  BY InboxMoves
<1>4. /\ keys'.secure => cur' # 0 /\ cp3'.state = "APP_SECURE" /\ keys'.app = cur'
      /\ keys.secure => cur # 0 /\ cp3.state = "APP_SECURE" /\ keys.app = cur
      /\ keys.app \in {0, cur}
  BY DEF Inv, SecretInv, KeysOfThisLink, SealInv, SecureKeyed
<1>5. (cur' = cur /\ gen' = gen) \/ (gen' = gen + 1 /\ cur' \in {0, gen + 1} /\ ~keys'.secure)
  BY <1>1 DEF BothEffect, NewLink
<1>6. ASSUME cp3.delivery => cp3'.delivery PROVE Owed <= Owed'
  BY <1>6 DEF Owed
<1>7. inbox' \in Seq(Frames) /\ \A f \in Arrived' : f \in Arrived \/ NewFrame(f)
  <2>1. inbox \in Seq(Frames)
    BY DEF AgreeInv, FramesInv
  <2>2. inbox' \in Seq(Frames) /\ \A f \in Elements(inbox') : f \in Elements(inbox) \/ NewFrame(f)
    <3>1. CASE inbox' = inbox \/ inbox' = <<>> \/ (inbox # <<>> /\ inbox' = Tail(inbox))
      <4>1. CASE inbox' = inbox
        BY <2>1, <4>1
      <4>2. CASE inbox' = <<>>
        BY <2>1, <4>2, InboxElements
      <4>3. CASE inbox # <<>> /\ inbox' = Tail(inbox)
        <5>1. Tail(inbox) \in Seq(Frames) /\ Elements(Tail(inbox)) \subseteq Elements(inbox)
          BY <2>1, <4>3, InboxElements
        <5> QED BY <4>3, <5>1
      <4> QED BY <3>1, <4>1, <4>2, <4>3
    <3>2. CASE \E n \in 0 .. Len(inbox) : inbox' = SubSeq(inbox, 1, n)
      BY <2>1, <3>2, InboxElements
    <3>3. ASSUME NEW f, NewFrame(f), inbox' = Append(inbox, f)
          PROVE  inbox' \in Seq(Frames) /\ \A g \in Elements(inbox') : g \in Elements(inbox) \/ NewFrame(g)
      <4>1. f \in Frames
        BY <3>3 DEF NewFrame
      <4>2. inbox' \in Seq(Frames) /\ Elements(inbox') \subseteq Elements(inbox) \cup {f}
        BY <2>1, <3>3, <4>1, InboxElements
      <4> QED BY <3>3, <4>2
    <3> QED BY <1>3, <3>1, <3>2, <3>3 DEF InboxMoved
  <2> QED BY <2>2 DEF Arrived
<1>8. ASSUME inbox # <<>> PROVE Head(inbox) \in Arrived
  BY <1>8, InboxElements DEF AgreeInv, FramesInv, Arrived
<1>9. BeforeInv'
  <2>1. Connected => cp3'.state = "IDLE"
    <3>1. cp3 \in Cp3Recs
      BY DEF Inv, Typed, HandshakeTypeOK, Cp3Recs
    <3>2. Failed(cp3) \in Cp3Recs
      BY <3>1, FailedTyped
    <3> QED BY <3>2 DEF Connected, ForgetLink, Cp3Recs
  <2>2. c'.link <= gen'
    BY <1>0, <1>2, <1>5 DEF Moved, Stays, Drops, Relinks, Numbers, TakesFinished, TakesPong,
                            KeepsCounters, AgreeInv, BeforeInv
  <2>3. c'.pc \in Before \cup {"connect"} => ~Began'
    BY <1>0, <1>2 DEF Moved, Stays, Drops, Relinks, Numbers, TakesFinished, TakesPong,
                      KeepsCounters, AgreeInv, BeforeInv, Began, Before
  <2>4. c'.pc \in Before => cp3'.state = "IDLE"
    BY <1>1, <1>2, <2>1 DEF Moved, Stays, Drops, Relinks, Numbers, TakesFinished, TakesPong,
                            AgreeInv, BeforeInv, Before, BothEffect
  <2> QED BY <2>2, <2>3, <2>4 DEF BeforeInv
<1>10. BeganInv'
  <2> SUFFICES ASSUME Began', cur' # 0, c'.link = cur' PROVE cp3'.state \in Ended
    BY DEF BeganInv
  <2>1. CASE Stays
    <3>1. Began /\ c.link = cur'
      BY <2>1 DEF Stays, KeepsCounters, Began
    <3>2. cur' = cur
      BY <1>0, <1>5, <3>1 DEF AgreeInv, BeforeInv
    <3> QED BY <1>1, <3>1, <3>2 DEF AgreeInv, BeganInv, BothEffect
  <2>2. CASE Drops
    BY <1>0, <2>2 DEF Drops
  <2>3. CASE Relinks
    BY <1>0, <2>3 DEF Relinks, AgreeInv, BeforeInv, Began
  <2>4. CASE Numbers
    BY <1>1, <2>4 DEF Numbers, Ended
  <2>5. CASE TakesFinished \/ TakesPong
    <3>1. UNCHANGED <<cur, cp3>> /\ inbox # <<>> /\ Head(inbox).root = cur
          /\ Head(inbox).type \in {"FINISHED_P", "PONG"}
      BY <2>5 DEF TakesFinished, TakesPong, KeepsCounters, vars, link
    <3> QED BY <1>8, <3>1 DEF AgreeInv, FramesInv
  <2> QED BY <1>2, <2>1, <2>2, <2>3, <2>4, <2>5 DEF Moved
<1>11. FramesInv'
  <2> SUFFICES ASSUME NEW f \in Arrived', f.type \in {"FINISHED_P", "PONG"}
               PROVE  f.root <= gen' /\ (cur' # 0 /\ f.root = cur' => cp3'.state \in Ended)
    BY <1>7 DEF FramesInv
  <2>1. CASE f \in Arrived
    <3>0. f.root \in Nat /\ f.root <= gen /\ (cur # 0 /\ f.root = cur => cp3.state \in Ended)
      <4>1. f \in Frames
        BY <2>1 DEF AgreeInv, FramesInv, Arrived, Elements
      <4> QED BY SMTT(20), <2>1, <4>1, HandshakeAssumption DEF AgreeInv, FramesInv, Frames, Conns
    <3> QED BY <1>0, <1>1, <1>5, <3>0 DEF BothEffect
  <2>2. CASE NewFrame(f)
    <3>1. f.root = keys.app /\ cur' = cur /\ gen' = gen /\ cp3'.state \in Ended
      BY <1>4, <2>2 DEF NewFrame, NewFinished, NewPong, Ended
    <3> QED BY <1>0, <1>4, <3>1
  <2> QED BY <1>7, <2>1, <2>2
<1>12. PongsInv'
  <2> SUFFICES ASSUME NEW f \in Arrived', f.type = "PONG"
               PROVE  /\ <<f.root, f.seq>> \in sealed'
                      /\ keys'.secure /\ f.root = cur' => f.seq < keys'.tx + Owed'
    BY DEF PongsInv
  <2>1. CASE f \in Arrived
    <3>0. f.seq \in Nat
      <4>1. f \in Frames
        BY <2>1 DEF AgreeInv, FramesInv, Arrived, Elements
      <4> QED BY <4>1, HandshakeAssumption DEF Frames
    <3>1. <<f.root, f.seq>> \in sealed'
      BY <1>1, <2>1 DEF AgreeInv, PongsInv, BothEffect
    <3>2. ASSUME keys'.secure, f.root = cur' PROVE f.seq < keys'.tx + Owed'
      <4>1. cur' = cur /\ cur # 0 /\ f.root = cur
        BY <1>1, <1>4, <3>2 DEF BothEffect
      <4>2. cp3.state \in Ended
        BY <2>1, <4>1 DEF AgreeInv, FramesInv
      <4>3. keys.secure => f.seq < keys.tx + Owed
        BY <2>1, <4>1 DEF AgreeInv, PongsInv
      <4>4. CASE SessionKept \/ SessionPinged
        BY <1>0, <1>6, <3>0, <4>3, <4>4 DEF SessionKept, SessionPinged
      <4>5. CASE SessionCounted
        BY <1>0, <3>0, <4>3, <4>5 DEF SessionCounted
      <4>6. CASE SessionCommitted
        BY <4>2, <4>6 DEF SessionCommitted, Ended
      <4> QED BY <1>1, <3>2, <4>4, <4>5, <4>6 DEF BothEffect
    <3> QED BY <3>1, <3>2
  <2>2. CASE NewFrame(f)
    <3>1. NewPong(f)
      BY <2>2 DEF NewFrame
    <3>2. Owed' = 1 /\ keys' = keys /\ f.seq = keys.tx
      BY <3>1 DEF NewPong, Owed
    <3>3. <<f.root, f.seq>> \in sealed'
      BY <3>1 DEF NewPong, PongInv, ReadySealed
    <3> QED BY <1>0, <3>2, <3>3
  <2> QED BY <1>7, <2>1, <2>2
<1>13. CountInv'
  <2> SUFFICES ASSUME keys'.secure, c'.link = cur'
               PROVE  /\ keys'.rx <= c'.tx /\ (keys'.pend => keys'.rx < c'.tx)
                      /\ c'.rx <= keys'.tx + Owed'
    BY DEF CountInv
  <2>0. cur' = cur /\ cur # 0 /\ cp3'.state = "APP_SECURE"
    BY <1>1, <1>4 DEF BothEffect
  <2>1. CASE Stays
    <3>1. c.link = cur /\ c'.tx = c.tx /\ c'.rx = c.rx
      BY <2>0, <2>1 DEF Stays, KeepsCounters
    <3>2. CASE SessionKept
      BY <1>0, <1>6, <3>1, <3>2 DEF SessionKept, AgreeInv, CountInv
    <3>3. CASE SessionCommitted
      <4>1. ~Began
        BY <2>0, <3>1, <3>3 DEF SessionCommitted, AgreeInv, BeganInv, Ended
      <4> QED BY <1>0, <3>1, <3>3, <4>1 DEF SessionCommitted, Began
    <3>4. CASE SessionCounted
      BY <1>0, <3>1, <3>4 DEF SessionCounted, AgreeInv, CountInv
    <3>5. CASE SessionPinged
      BY <1>0, <3>1, <3>5 DEF SessionPinged
    <3> QED BY <1>1, <3>2, <3>3, <3>4, <3>5 DEF BothEffect
  <2>2. CASE Drops
    BY <2>0, <2>2 DEF Drops
  <2>3. CASE Relinks
    BY <1>1, <2>0, <2>3 DEF Relinks, AgreeInv, BeforeInv, BothEffect
  <2>4. CASE Numbers
    <3>1. SessionPinged /\ c.link = cur /\ c'.rx = c.rx
      BY <1>1, <2>0, <2>4 DEF Numbers
    <3> QED BY <1>0, <1>6, <3>1 DEF SessionPinged, AgreeInv, CountInv
  <2>5. CASE TakesFinished \/ TakesPong
    <3>1. UNCHANGED <<cur, cp3, keys>> /\ c.link = cur /\ c'.tx = c.tx
      BY <2>0, <2>5 DEF TakesFinished, TakesPong, KeepsCounters, vars, link
    <3>2. Owed' = Owed /\ (TakesFinished => c'.rx = c.rx)
      BY <3>1 DEF Owed, TakesFinished, KeepsCounters
    <3>3. TakesPong => c'.rx = c.rx + 1 /\ c.rx < keys.tx + Owed
      BY <1>8, <3>1 DEF TakesPong, AgreeInv, PongsInv
    <3> QED BY <1>0, <2>5, <3>1, <3>2, <3>3 DEF AgreeInv, CountInv
  <2> QED BY <1>2, <2>1, <2>2, <2>3, <2>4, <2>5 DEF Moved
<1>14. EarnedInv'
  <2> SUFFICES ASSUME NEW n \in Nat, n < c'.rx PROVE <<c'.link, n>> \in sealed'
    BY DEF EarnedInv
  <2>0. \A e : e \in sealed => e \in sealed'
    BY <1>1 DEF BothEffect
  <2>1. CASE c'.link = c.link /\ c'.rx = c.rx
    BY <2>0, <2>1 DEF AgreeInv, EarnedInv
  <2>2. CASE Drops \/ Relinks
    BY <1>0, <2>2 DEF Drops, Relinks, AgreeInv, BeforeInv, Began
  <2>3. CASE TakesPong
    <3>1. <<c.link, c.rx>> \in sealed
      BY <1>8, <2>3 DEF TakesPong, AgreeInv, PongsInv
    <3>2. c'.link = c.link /\ c'.rx = c.rx + 1
      BY <2>3 DEF TakesPong
    <3> QED BY <1>0, <2>0, <3>1, <3>2 DEF AgreeInv, EarnedInv
  <2> QED BY <1>2, <2>1, <2>2, <2>3 DEF Moved, Stays, Numbers, TakesFinished, KeepsCounters
<1> QED BY <1>1, <1>9, <1>10, <1>11, <1>12, <1>13, <1>14 DEF AgreeInv

(* The invariant that ties the two ends together, in every state.           *)
THEOREM AgreementInvariant == V1Spec => [](Inv /\ SystemTyped /\ PongInv /\ AgreeInv)
<1>1. V1Init => PongInv /\ AgreeInv
  <2> SUFFICES ASSUME V1Init PROVE PongInv /\ AgreeInv
    OBVIOUS
  <2> USE DEF V1Init, Init, NoCp3, NoKeys, NoJob, Sleeping, NoProcess
  <2>1. PongInv
    BY DEF PongInv, OldJobs, ReadySealed, ResultReady, OpenedKey, Delivering, Busy, Computing
  <2>2. BeforeInv /\ BeganInv /\ CountInv /\ EarnedInv
    BY DEF BeforeInv, BeganInv, CountInv, EarnedInv, Began, Before
  <2>3. inbox \in Seq(Frames) /\ Arrived = {}
    BY DEF Arrived, Elements
  <2> QED BY <2>1, <2>2, <2>3 DEF AgreeInv, FramesInv, PongsInv
<1>2. /\ Inv /\ Inv' /\ SystemTyped /\ SystemTyped' /\ PongInv /\ AgreeInv /\ [V1Next]_system
      => PongInv' /\ AgreeInv'
  <2> SUFFICES ASSUME Inv, Inv', SystemTyped, SystemTyped', PongInv, AgreeInv, [V1Next]_system
               PROVE  PongInv' /\ AgreeInv'
    OBVIOUS
  <2>1. CASE UNCHANGED system
    <3>1. UNCHANGED <<cur, gen, cp3, keys, slot, w, sealed, c, inbox>>
      BY <2>1 DEF system, vars, link
    <3> QED BY <3>1 DEF PongInv, OldJobs, ReadySealed, ResultReady, OpenedKey, AgreeInv, BeforeInv,
                        BeganInv, FramesInv, PongsInv, CountInv, EarnedInv, Began, Owed, Arrived
  <2>2. CASE V1Next
    BY <2>2, AgreeStep
  <2> QED BY <2>1, <2>2
<1>3. V1Spec => []Inv
  BY PeripheralImplemented, HandshakeInvariant, PTL
<1>4. V1Spec => []SystemTyped
  <2>1. CentralInv => SystemTyped
    BY DEF CentralInv
  <2> QED BY <2>1, CentralInvariant, PTL
<1> QED BY <1>1, <1>2, <1>3, <1>4, PTL DEF V1Spec

(* While both ends are in APP_SECURE on the link, CentralHandshake and the  *)
(* firmware hold the keys of this link, the Peripheral has counted no PING  *)
(* that CentralApplication did not number, and the Central no PONG that     *)
(* v1_cp4_result_ready has not at least queued, whatever was lost, delayed  *)
(* or disturbed before.                                                     *)
THEOREM EndsAgreeSafe == V1Spec => []EndsAgree
<1>1. Inv /\ SystemTyped /\ PongInv /\ AgreeInv => EndsAgree
  BY DEF Inv, SecretInv, KeysOfThisLink, SealInv, SecureKeyed, AgreeInv, CountInv, Owed, EndsAgree
<1> QED BY <1>1, AgreementInvariant, PTL

-----------------------------------------------------------------------------
(* The gate in a process.  It is closed until the pairing, which then did   *)
(* not fail, and for good in a process that passed a negative test; a       *)
(* verdict is given at the end only; CP4 is no negative test, and reports   *)
(* what it counted: a PONG for every PING, Rounds of them at most.          *)
Done == {"cleanup", "report", "exit"}
Gated ==
    \/ c.pc \in {"connect", "inspect", "probe", "pair", "retire", "verify"}
    \/ At("ensure") /\ c.then # "subscribe"
PairedHere == ReportedSuccess /\ os.state # "running"
GateInv ==
    /\ Gated => ~c.opened
    /\ At("ceremony") /\ c.opened => PairedHere
    /\ c.verdict # "none" => c.pc \in Done
    /\ c.verdict = "passed" => ~c.opened
CountedInv == At("exit") /\ c.verdict = "ok" /\ c.mode = "cp4" => c.rx = Rounds
TestInv == c.neg # "none" => c.mode # "cp4"
Early == Before \cup {"connect", "ready", "confirm", "finished", "quiet"}
RoundInv ==
    /\ c.tx <= Rounds /\ c.rx <= Rounds
    /\ c.pc \in Early => c.tx = 0 /\ c.rx = 0
    /\ At("ping") => c.tx = c.rx /\ c.rx < Rounds
    /\ At("pong") => c.tx = c.rx + 1 /\ c.rx < Rounds
PassInv == GateInv /\ CountedInv /\ TestInv /\ RoundInv

(* How the process moves, seen from its rounds and from the gate. *)
Rounded ==
    \/ /\ c'.tx = c.tx /\ c'.rx = c.rx
       /\ \/ c'.pc = c.pc \/ c'.pc \notin Early \cup {"ping", "pong"}
          \/ c.pc \in Early /\ c'.pc \in Early \cup {"ping"}
    \/ c'.tx = 0 /\ c'.rx = 0 /\ c'.pc \notin {"ping", "pong"}
    \/ At("ping") /\ c'.tx = c.tx + 1 /\ c'.rx = c.rx /\ c'.pc = "pong"
    \/ /\ At("pong") /\ c'.tx = c.tx /\ c'.rx = c.rx + 1
       /\ c'.pc = IF c'.rx = Rounds THEN "settle" ELSE "ping"
SameTest == c'.mode = c.mode /\ c'.neg = c.neg
KeepsGate == c'.opened = c.opened /\ c'.verdict = c.verdict
EndsRun == c'.pc = "cleanup" /\ c'.opened = c.opened /\ (c'.verdict = "passed" => ~c.opened)
ToExchange ==
    /\ c.pc \notin Done /\ c'.verdict = c.verdict
    /\ c'.pc \in Exchange \/ (c'.pc = "ensure" /\ c'.then = "subscribe")
StaysClosed == c.pc \notin Done /\ c'.verdict = c.verdict /\ c'.pc \notin Done /\ ~c'.opened
StaysHere ==
    /\ KeepsGate /\ c'.pc = c.pc /\ c'.then = c.then /\ c'.rx = c.rx
    /\ At("ceremony") /\ PairedHere => PairedHere'
OpensHere == At("ceremony") /\ c'.pc = "ceremony" /\ c'.verdict = c.verdict /\ PairedHere'
Leaves ==
    /\ c.pc \in Done /\ c'.opened = c.opened
    /\ \/ c'.pc = "report" /\ c'.verdict = c.verdict
       \/ /\ c'.pc = "exit" /\ c'.verdict \in {c.verdict, "error"}
          /\ c'.verdict = "ok" /\ c.mode = "cp4" => c'.rx = Rounds
Restarts ==
    /\ c'.pc = "connect" /\ c'.verdict = "none" /\ ~c'.opened
    /\ c'.neg # "none" => c'.mode # "cp4"
Turned ==
    /\ Rounded
    /\ \/ /\ SameTest
          /\ EndsRun \/ ToExchange \/ StaysClosed \/ StaysHere \/ OpensHere \/ Leaves
       \/ Restarts

(* Such a move keeps the gate's invariant. *)
LEMMA TurnedInv ==
  ASSUME ProcessTyped, PassInv, Turned
  PROVE  PassInv'
<1>0. c.pc \in Places /\ c.verdict \in Verdicts /\ c.tx \in Nat /\ c.rx \in Nat
  BY DEF ProcessTyped, Processes
<1>8. RoundInv'
  BY <1>0 DEF PassInv, RoundInv, Turned, Rounded, Rounds, Early, Before, At
<1> USE DEF PassInv, GateInv, CountedInv, TestInv, SameTest, Gated, At, Done
<1>1. CASE SameTest /\ EndsRun
  BY <1>8, <1>1 DEF EndsRun
<1>2. CASE SameTest /\ ToExchange
  BY <1>8, <1>0, <1>2 DEF ToExchange, Exchange
<1>3. CASE SameTest /\ StaysClosed
  BY <1>8, <1>0, <1>3 DEF StaysClosed
<1>4. CASE SameTest /\ StaysHere
  BY <1>8, <1>4 DEF StaysHere, KeepsGate
<1>5. CASE SameTest /\ OpensHere
  BY <1>8, <1>5 DEF OpensHere
<1>6. CASE SameTest /\ Leaves
  BY <1>8, <1>6 DEF Leaves
<1>7. CASE Restarts
  BY <1>8, <1>7 DEF Restarts
<1> QED BY <1>1, <1>2, <1>3, <1>4, <1>5, <1>6, <1>7, <1>8 DEF Turned

(* A change of place keeps gate and verdict, an end the gate. *)
LEMMA TurnFields ==
  ASSUME c \in Processes
  PROVE  /\ \A pc \in Places : /\ To(pc).opened = c.opened /\ To(pc).verdict = c.verdict
                               /\ To(pc).mode = c.mode /\ To(pc).neg = c.neg
         /\ \A v \in Verdicts : /\ Ends(v).opened = c.opened /\ Ends(v).verdict = v
                                 /\ Ends(v).mode = c.mode /\ Ends(v).neg = c.neg
         /\ /\ Closed(c).opened = c.opened /\ Closed(c).verdict = c.verdict
            /\ Closed(c).mode = c.mode /\ Closed(c).rx = c.rx
<1>1. \A pc \in Places : /\ To(pc).opened = c.opened /\ To(pc).verdict = c.verdict
                         /\ To(pc).mode = c.mode /\ To(pc).neg = c.neg
  BY DEF To, Processes
<1> DEFINE x == Closed(c)
           h == IF c.hs = "NEW" THEN c.hs ELSE "CLOSED"
<1>2. x = [c EXCEPT !.hs = h]
  BY DEF Closed
<1> HIDE DEF h
<1>3. /\ x.opened = c.opened /\ x.verdict = c.verdict /\ x.mode = c.mode /\ x.rx = c.rx
      /\ x.neg = c.neg
  BY <1>2 DEF Processes
<1>4. x \in Processes
  BY MovesTyped
<1>5. Unwound = [x EXCEPT !.link = 0, !.tx = 0, !.rx = 0, !.cold = FALSE, !.unpair = FALSE]
  BY DEF Unwound
<1>6. ASSUME NEW v \in Verdicts
      PROVE  /\ Ends(v).opened = c.opened /\ Ends(v).verdict = v
             /\ Ends(v).mode = c.mode /\ Ends(v).neg = c.neg
  <2> DEFINE y == IF v = "ok" THEN c ELSE Unwound
  <2>1. Ends(v) = [y EXCEPT !.pc = "cleanup", !.verdict = v]
    BY DEF Ends
  <2> HIDE DEF x
  <2>2. /\ Unwound \in Processes /\ Unwound.opened = c.opened /\ Unwound.mode = c.mode
        /\ Unwound.neg = c.neg
    BY <1>3, <1>4, <1>5 DEF Processes
  <2>3. y \in Processes /\ y.opened = c.opened /\ y.mode = c.mode /\ y.neg = c.neg
    BY <2>2
  <2> HIDE DEF y
  <2> QED BY <2>1, <2>3 DEF Processes
<1> QED BY <1>1, <1>3, <1>6

(* The end of a run. *)
LEMMA EndsTurned ==
  ASSUME c \in Processes, NEW v \in Verdicts, v = "passed" => ~c.opened,
         NEW b \in Int, NEW e \in BOOLEAN,
         c' \in {Ends(v), [Ends(v) EXCEPT !.base = b], [Ends(v) EXCEPT !.early = e]}
  PROVE  Turned
<1>1. /\ Ends(v) \in Processes /\ Ends(v).pc = "cleanup" /\ Ends(v).opened = c.opened
      /\ Ends(v).verdict = v /\ Ends(v).mode = c.mode /\ Ends(v).neg = c.neg
  BY MovesTyped, TurnFields
<1>2. /\ c'.pc = "cleanup" /\ c'.opened = c.opened /\ c'.verdict = v /\ SameTest
      /\ c'.tx = Ends(v).tx /\ c'.rx = Ends(v).rx
  BY <1>1 DEF Processes, SameTest
<1>3. Rounded
  <2>1. (c'.tx = c.tx /\ c'.rx = c.rx) \/ (c'.tx = 0 /\ c'.rx = 0)
    BY <1>2, MoveFields
  <2> QED BY <1>2, <2>1 DEF Rounded, Early, Before
<1> QED BY <1>2, <1>3 DEF Turned, EndsRun

(* A change of place, in the exchange or while the gate is closed. *)
LEMMA ToTurned ==
  ASSUME c \in Processes, c.pc \in Early, NEW pc \in Early \cup {"ping"}, ~c.opened \/ pc \in Exchange,
         NEW t \in Targets, NEW h \in Sessions, NEW b \in Int,
         c' \in {To(pc), [To(pc) EXCEPT !.then = t], [To(pc) EXCEPT !.hs = h],
                 [To(pc) EXCEPT !.base = b]}
  PROVE  Turned
<1>0. pc \in Places \ Done /\ c.pc \notin Done
  BY DEF Early, Before, Places, Exchange, Done
<1>1. /\ To(pc) \in Processes /\ To(pc).pc = pc /\ To(pc).opened = c.opened
      /\ To(pc).verdict = c.verdict /\ To(pc).mode = c.mode /\ To(pc).neg = c.neg
      /\ To(pc).tx = c.tx /\ To(pc).rx = c.rx
  BY <1>0, MovesTyped, TurnFields, MoveFields
<1>2. /\ c'.pc = pc /\ c'.opened = c.opened /\ c'.verdict = c.verdict /\ SameTest
      /\ c'.tx = c.tx /\ c'.rx = c.rx
  BY <1>1 DEF Processes, SameTest
<1> QED BY <1>0, <1>2 DEF Turned, Rounded, ToExchange, StaysClosed

(* Every step of the exchange. *)
LEMMA ExchangeTurned ==
  ASSUME SystemTyped,
         \/ StartNotify \/ Attest("attest1", "info1") \/ Attest("attest2", "info2") \/ Attested
         \/ Upload \/ SendStart \/ ReadyV1 \/ AcceptReady \/ SendFinishedC \/ AcceptFinishedP
         \/ Quiet \/ SendPing \/ AcceptPong \/ Settle
  PROVE  Turned
<1>0. /\ c \in Processes /\ cp3.delivery \in BOOLEAN /\ c.tx \in Nat /\ c.rx \in Nat
      /\ c.base \in Int /\ c.then \in Targets /\ c.hs \in Sessions
  BY DEF SystemTyped, Typed, HandshakeTypeOK, ProcessTyped, Processes
<1>v. {"ok", "error"} \subseteq Verdicts \ {"passed"}
  BY DEF Verdicts
<1>x. Exchange \subseteq Places \ Done
  BY DEF Places, Exchange, Done
<1>e. ASSUME NEW v \in {"ok", "error"}, c' = Ends(v) PROVE Turned
  BY <1>0, <1>e, <1>v, EndsTurned
<1>t. ASSUME c.pc \in Early, NEW pc \in Exchange \ {"pong", "settle"}, NEW h \in Sessions,
             c' = To(pc) \/ c' = [To(pc) EXCEPT !.hs = h]
      PROVE  Turned
  <2>1. pc \in Early \cup {"ping"}
    BY DEF Early, Before, Exchange
  <2> QED BY <1>0, <1>t, <2>1, ToTurned
<1> USE DEF Step, Calls, At
<1>1. CASE StartNotify
  <2>1. CASE c' = [c EXCEPT !.opened = TRUE]
    <3>1. /\ c'.pc = c.pc /\ c'.verdict = c.verdict /\ SameTest /\ c.pc \in Exchange
          /\ c'.tx = c.tx /\ c'.rx = c.rx
      BY <1>0, <1>1, <2>1 DEF Processes, SameTest, StartNotify, Exchange
    <3> QED BY <1>x, <3>1 DEF Turned, Rounded, ToExchange
  <2>2. CASE c' # [c EXCEPT !.opened = TRUE]
    <3>1. /\ c.pc \in Early
          /\ \/ c' = Ends("error")
             \/ c' = To(IF c.mode = "cp1" THEN "upload" ELSE "attest1")
      BY <1>1, <2>2 DEF StartNotify, Writes, Fails, Early, Before
    <3> QED BY <1>0, <1>e, <1>t, <3>1 DEF Exchange
  <2> QED BY <2>1, <2>2
<1>2. CASE Attest("attest1", "info1") \/ Attest("attest2", "info2") \/ Upload \/ SendStart
  <2>1. /\ c.pc \in Early
        /\ \/ c' = Ends("error") \/ c' = To("info1") \/ c' = To("info2") \/ c' = To("last")
           \/ c' = To("attest2") \/ c' = To("ready")
    BY <1>2 DEF Attest, Upload, SendStart, Writes, Submits, Fails, Early, Before
  <2> QED BY <1>0, <1>e, <1>t, <2>1 DEF Exchange
<1>3. CASE SendFinishedC \/ ReadyV1 \/ Quiet \/ Settle
  <2>1. \/ c' = Ends("error") \/ c' = Ends("ok")
        \/ c.pc \in Early /\ (c' = To("finished") \/ c' = To("quiet") \/ c' = To("ping"))
    BY <1>3 DEF SendFinishedC, Submits, Fails, ReadyV1, Quiet, Settle, Receives, Early
  <2> QED BY <1>0, <1>e, <1>t, <2>1 DEF Exchange
<1>4. CASE Attested
  <2> DEFINE h == IF Handshakes THEN "WAIT_READY_CP3" ELSE To("start").hs
  <2>1. /\ c.pc \in Early
        /\ \/ c' = Ends("error") \/ c' = To("upload") \/ c' = To("quiet")
           \/ c' = [To("start") EXCEPT !.hs = h]
    BY <1>4 DEF Attested, Receives, Early, Before
  <2>2. h \in Sessions
    BY <1>0 DEF To, Processes, Sessions
  <2>3. {"upload", "quiet", "start"} \subseteq Exchange \ {"pong", "settle"}
    BY DEF Exchange
  <2> HIDE DEF h
  <2> QED BY <1>e, <1>t, <2>1, <2>2, <2>3
<1>5. CASE AcceptReady \/ AcceptFinishedP
  <2>1. /\ c.pc \in Early
        /\ \/ c' = Ends("error") \/ c' = [To("confirm") EXCEPT !.hs = "WAIT_FINISHED_P"]
           \/ c' = [To("quiet") EXCEPT !.hs = "APP_SECURE"]
    BY <1>5 DEF AcceptReady, AcceptFinishedP, Receives, Early
  <2>2. /\ {"confirm", "quiet"} \subseteq Exchange \ {"pong", "settle"}
        /\ {"WAIT_FINISHED_P", "APP_SECURE"} \subseteq Sessions
    BY DEF Exchange, Sessions
  <2> QED BY <1>e, <1>t, <2>1, <2>2
<1>6. CASE SendPing
  <2>1. /\ c.pc = "ping"
        /\ \/ c' = Ends("error") \/ \E e \in BOOLEAN : c' = [Ends("error") EXCEPT !.early = e]
           \/ c' = [[c EXCEPT !.tx = @ + 1] EXCEPT !.pc = "pong"]
    BY <1>0, <1>6 DEF SendPing, Fails
  <2>2. CASE c' = [[c EXCEPT !.tx = @ + 1] EXCEPT !.pc = "pong"]
    <3>1. /\ c'.pc = "pong" /\ c'.verdict = c.verdict /\ SameTest
          /\ c'.tx = c.tx + 1 /\ c'.rx = c.rx
      BY <1>0, <2>2 DEF Processes, SameTest
    <3> QED BY <1>x, <2>1, <3>1 DEF Turned, Rounded, ToExchange, Exchange
  <2> QED BY <1>0, <1>e, <1>v, <2>1, <2>2, EndsTurned
<1>7. CASE AcceptPong
  <2> DEFINE pc == IF c.rx + 1 = Rounds THEN "settle" ELSE "ping"
  <2>1. /\ c.pc = "pong"
        /\ c' = Ends("error") \/ c' = [To(pc) EXCEPT !.rx = @ + 1]
    BY <1>7 DEF AcceptPong, Receives
  <2>2. ASSUME c' = [To(pc) EXCEPT !.rx = @ + 1]
        PROVE  /\ c'.pc = pc /\ c'.verdict = c.verdict /\ SameTest
               /\ c'.tx = c.tx /\ c'.rx = c.rx + 1
    BY <1>0, <2>2 DEF To, Processes, SameTest
  <2> QED BY <1>e, <1>x, <2>1, <2>2 DEF Turned, Rounded, ToExchange, Exchange
<1> QED BY <1>1, <1>2, <1>3, <1>4, <1>5, <1>6, <1>7

(* Every step up to the exchange, and around it.  The pairing opens the     *)
(* gate, and its outcome then proves no refusal.                            *)
LEMMA ApproachTurned ==
  ASSUME SystemTyped, PassInv,
         \/ NewRun \/ ClearDkBonds \/ AllDone \/ PairingNext \/ PeripheralNext \/ DisturbedNext
         \/ ScanAndConnect \/ Inspect \/ EnsureConnected \/ PreL4Probes \/ RetireLink
         \/ VerifyClosed \/ Pair \/ PairReturns \/ PairTimesOut \/ StopNotify \/ Report
  PROVE  Turned
<1>0. /\ c \in Processes /\ c.then \in Targets /\ c.base \in Int /\ faults \in Int /\ cur \in Nat
      /\ gen \in Nat /\ 0 \in Int /\ -1 \in Int /\ Targets \subseteq Places \cup {"none"}
      /\ os \in Operations /\ c.opened \in BOOLEAN /\ c.rx \in Nat
  BY HandshakeAssumption
     DEF SystemTyped, Typed, HandshakeTypeOK, Conns, ProcessTyped, Processes, Targets, Places,
         Exchange, PairingTyped
<1>v. {"passed", "error"} \subseteq Verdicts
  BY DEF Verdicts
<1>e. ASSUME NEW v \in {"passed", "error"}, v = "passed" => ~c.opened, NEW b \in Int,
             c' = Ends(v) \/ c' = [Ends(v) EXCEPT !.base = b]
      PROVE  Turned
  BY <1>0, <1>e, <1>v, EndsTurned
<1>t. ASSUME NEW pc \in Early, c.pc \in Early, ~c.opened, NEW t \in Targets, NEW b \in Int,
             \/ c' = To(pc) \/ c' = [To(pc) EXCEPT !.then = t] \/ c' = [To(pc) EXCEPT !.base = b]
      PROVE  Turned
  BY <1>0, <1>t, ToTurned DEF Sessions
<1>p. /\ {"inspect", "ensure", "pair", "ceremony", "retire", "subscribe", "probe"}
             \subseteq Early
      /\ {"inspect", "verify", "subscribe"} \subseteq Targets /\ Early \subseteq Places \ Done
  BY DEF Early, Before, Exchange, Targets, Places, Done
<1>g. Gated => ~c.opened /\ c.pc \in Early
  BY DEF PassInv, GateInv, Gated, At, Early, Before
<1>h. ASSUME c' = c \/ c' = Closed(c), At("ceremony") /\ PairedHere => PairedHere' PROVE Turned
  <2>1. /\ KeepsGate /\ c'.pc = c.pc /\ c'.then = c.then /\ SameTest /\ c'.rx = c.rx
        /\ c'.tx = c.tx
    BY <1>0, <1>h, MovesTyped, TurnFields, MoveFields DEF KeepsGate, SameTest
  <2> QED BY <1>h, <2>1 DEF Turned, Rounded, StaysHere
<1>o. ASSUME UNCHANGED pairing PROVE PairedHere => PairedHere'
  BY <1>o DEF pairing, PairedHere, ReportedSuccess
<1> USE DEF Step, Calls, At
<1>2. CASE NewRun
  <2>1. PICK mode \in Checkpoints, neg \in Negatives, unpair \in BOOLEAN :
            /\ neg # "none" => mode = "cp1"
            /\ c' = [NoProcess EXCEPT !.pc = "connect", !.mode = mode, !.neg = neg,
                                      !.unpair = unpair]
    BY <1>2 DEF NewRun, Negatives
  <2>2. /\ c'.pc = "connect" /\ c'.verdict = "none" /\ ~c'.opened
        /\ c'.neg = neg /\ c'.mode = mode /\ c'.tx = 0 /\ c'.rx = 0
    BY <2>1 DEF NoProcess
  <2> QED BY <2>1, <2>2 DEF Turned, Rounded, Restarts
<1>3. CASE ClearDkBonds \/ AllDone
  <2>1. c' = c /\ UNCHANGED os
    BY <1>3 DEF ClearDkBonds, AllDone, system, pairing
  <2> QED BY <1>h, <2>1 DEF PairedHere, ReportedSuccess
<1>4. CASE PeripheralNext
  <2>1. c' = c /\ UNCHANGED pairing
    BY <1>4 DEF PeripheralNext, WorkerMoves, Delivers, DeliveryFails, HostMoves, Sends
  <2> QED BY <1>h, <1>o, <2>1
<1>5. CASE DisturbedNext
  <2>1. (c' = c \/ c' = Closed(c) \/ c' = Ends("error")) /\ UNCHANGED pairing
    BY <1>5 DEF DisturbedNext, TimePasses, FinishedLate, LinkLost, Downgraded, Aborts, Unsolicited,
                Sends
  <2> QED BY <1>0, <1>e, <1>h, <1>o, <2>1
<1>6. CASE PairingNext
  <2>1. CASE CeremonyStep
    <3>1. c' = c /\ os'.state = os.state /\ os'.status = os.status
      BY <1>0, <2>1 DEF CeremonyStep, PairingRequested, StartDecision, Decide, Operations
    <3> QED BY <1>h, <3>1 DEF PairedHere, ReportedSuccess
  <2>2. CASE Pairs \/ PairsElsewhere
    <3>1. /\ c' = [c EXCEPT !.opened = TRUE] /\ c.pc = "ceremony"
          /\ \E status \in {"PAIRED", "ALREADY_PAIRED"} :
                 os' = [os EXCEPT !.state = "returned", !.status = status]
      BY <2>2 DEF Pairs, PairsElsewhere, OsPairs, OsPairsElsewhere
    <3>2. os'.state = "returned" /\ os'.status \in {"PAIRED", "ALREADY_PAIRED"}
      BY <1>0, <3>1 DEF Operations
    <3>3. /\ c'.pc = "ceremony" /\ c'.verdict = c.verdict /\ SameTest
          /\ c'.tx = c.tx /\ c'.rx = c.rx
      BY <1>0, <3>1 DEF Processes, SameTest
    <3> QED BY <3>1, <3>2, <3>3 DEF Turned, Rounded, OpensHere, PairedHere, ReportedSuccess
  <2>3. CASE Refuses
    <3>1. c' = c /\ os.state = "running"
      BY <2>3 DEF Refuses, OsRefuses
    <3> QED BY <1>h, <3>1 DEF PairedHere
  <2> QED BY <1>6, <2>1, <2>2, <2>3 DEF PairingNext
<1>7. CASE ScanAndConnect
  <2> DEFINE b == IF AtRest THEN faults ELSE -1
  <2>1. c' = [To("inspect") EXCEPT !.base = b] /\ Gated
    BY <1>7 DEF ScanAndConnect, Gated
  <2>2. b \in Int
    BY <1>0
  <2> HIDE DEF b
  <2> QED BY <1>0, <1>g, <1>p, <1>t, <2>1, <2>2
<1>8. CASE Inspect
  <2> DEFINE pc == IF bonds.pc THEN "subscribe" ELSE "probe"
             b == IF bonds.pc = bonds.dk THEN To(pc).base ELSE -1
             cold == ~bonds.pc
  <2>1. /\ Gated
        /\ \/ c' = Ends("error") \/ c' = [Ends("error") EXCEPT !.base = -1]
           \/ c' = [To("ensure") EXCEPT !.then = "inspect"]
           \/ c' = [To(pc) EXCEPT !.cold = cold, !.link = cur, !.unpair = FALSE, !.base = b]
    BY <1>8 DEF Inspect, Gated
  <2>2. pc \in {"subscribe", "probe"} /\ pc \in Early /\ pc \in Places \ Done
    BY <1>p
  <2> HIDE DEF pc, b, cold
  <2>3. CASE c' = [To(pc) EXCEPT !.cold = cold, !.link = cur, !.unpair = FALSE, !.base = b]
    <3>1. To(pc) \in Processes /\ To(pc).pc = pc
      BY <1>0, <2>2, MovesTyped
    <3>2. /\ c'.pc = pc /\ c'.opened = c.opened /\ c'.verdict = c.verdict /\ SameTest
          /\ c'.tx = c.tx /\ c'.rx = c.rx
      BY <1>0, <2>2, <2>3, <3>1, TurnFields, MoveFields DEF Processes, SameTest
    <3> QED BY <1>g, <1>p, <2>1, <2>2, <3>2 DEF Turned, Rounded, StaysClosed
  <2> QED BY <1>0, <1>e, <1>g, <1>t, <1>p, <2>1, <2>3
<1>9. CASE EnsureConnected
  <2>1. /\ c.pc = "ensure"
        /\ \E n \in Nat, b \in Int :
               \/ c' = [To(c.then) EXCEPT !.link = n, !.then = "none"]
               \/ c' = [To(c.then) EXCEPT !.link = n, !.then = "none", !.base = b]
    <3>1. CASE cur # 0
      BY <1>0, <1>9, <3>1 DEF EnsureConnected
    <3>2. CASE cur = 0
      <4> DEFINE b == IF AtRest THEN To(c.then).base ELSE -1
      <4>1. b \in Int
        BY <1>0 DEF To, Processes
      <4>2. /\ c' = [To(c.then) EXCEPT !.link = gen + 1, !.then = "none", !.base = b]
            /\ c.pc = "ensure" /\ gen + 1 \in Nat
        BY <1>0, <1>9, <3>2 DEF EnsureConnected
      <4> QED BY <4>1, <4>2
    <3> QED BY <3>1, <3>2
  <2>2. /\ c'.pc = c.then /\ c'.opened = c.opened /\ c'.verdict = c.verdict /\ SameTest
        /\ c'.tx = c.tx /\ c'.rx = c.rx
    BY ZenonT(40), <1>0, <2>1 DEF To, Processes, SameTest
  <2>5. Rounded
    BY <1>0, <1>p, <2>1, <2>2 DEF Rounded, Targets, Early, Before
  <2>3. CASE c.then = "subscribe"
    BY <2>1, <2>2, <2>3, <2>5 DEF Turned, ToExchange, Exchange, Done
  <2>4. CASE c.then # "subscribe"
    BY <1>0, <1>g, <2>1, <2>2, <2>4, <2>5 DEF Turned, StaysClosed, Gated, Done, Targets
  <2> QED BY <2>3, <2>4
<1>10. CASE PreL4Probes \/ VerifyClosed \/ Pair \/ RetireLink
  <2>1. /\ Gated
        /\ \/ c' = Ends("error") \/ c' = Ends("passed") \/ c' = To("pair") \/ c' = To("ceremony")
           \/ c' = [To("ensure") EXCEPT !.then = "verify"]
    BY <1>10 DEF PreL4Probes, VerifyClosed, Probes, Pair, RetireLink, Gated
  <2> QED BY <1>0, <1>e, <1>g, <1>t, <1>p, <2>1
<1>11. CASE PairReturns \/ PairTimesOut
  <2>1. /\ c.pc = "ceremony"
        /\ \/ c' = Ends("error") \/ c' = [Ends("error") EXCEPT !.base = -1]
           \/ c' = To("retire") /\ Evidence
           \/ c' = [To("ensure") EXCEPT !.then = "subscribe"]
    BY <1>11 DEF PairReturns, PairTimesOut
  <2>2. Evidence => ~c.opened
    BY <2>1 DEF Evidence, OutcomePaired, PassInv, GateInv, PairedHere
  <2>3. CASE c' = [To("ensure") EXCEPT !.then = "subscribe"]
    <3>1. /\ c'.pc = "ensure" /\ c'.then = "subscribe" /\ c'.verdict = c.verdict /\ SameTest
          /\ c'.tx = c.tx /\ c'.rx = c.rx
      BY <1>0, <2>3 DEF To, Processes, SameTest
    <3> QED BY <1>p, <2>1, <3>1 DEF Turned, Rounded, ToExchange, Done
  <2> QED BY <1>0, <1>e, <1>p, <1>t, <2>1, <2>2, <2>3
<1>12. CASE StopNotify
  <2>1. c.pc \in Done /\ c' = To("report") /\ "report" \in Places
    BY <1>12 DEF StopNotify, Done, Places
  <2>2. /\ c'.pc = "report" /\ c'.opened = c.opened /\ c'.verdict = c.verdict /\ SameTest
        /\ c'.tx = c.tx /\ c'.rx = c.rx
    BY <1>0, <2>1, MovesTyped, TurnFields, MoveFields DEF SameTest
  <2> QED BY <2>1, <2>2 DEF Turned, Rounded, Leaves, Early, Before
<1>13. CASE Report
  <2> DEFINE x == Closed(c)
             v == IF Reports THEN x.verdict ELSE "error"
  <2>1. c' = [x EXCEPT !.pc = "exit", !.verdict = v] /\ c.pc \in Done
    BY <1>13 DEF Report, Done
  <2>2. /\ x \in Processes /\ x.opened = c.opened /\ x.verdict = c.verdict /\ x.mode = c.mode
        /\ x.rx = c.rx /\ x.tx = c.tx /\ x.neg = c.neg
    BY <1>0, MovesTyped, TurnFields, MoveFields
  <2>3. v \in {c.verdict, "error"} /\ (v = "ok" /\ c.mode = "cp4" => c.rx = Rounds)
    BY <2>2 DEF Reports, Handshakes
  <2> HIDE DEF x, v
  <2>4. /\ c'.pc = "exit" /\ c'.opened = c.opened /\ c'.verdict = v /\ SameTest /\ c'.rx = c.rx
        /\ c'.tx = c.tx
    BY <2>1, <2>2 DEF Processes, SameTest
  <2> QED BY <2>1, <2>3, <2>4 DEF Turned, Rounded, Leaves, Early, Before
<1> QED BY <1>2, <1>3, <1>4, <1>5, <1>6, <1>7, <1>8, <1>9, <1>10, <1>11, <1>12, <1>13

(* The gate, the verdict and what was counted, in every state. *)
THEOREM PassInvariant == V1Spec => []PassInv
<1>1. V1Init => PassInv
  BY DEF V1Init, NoProcess, PassInv, GateInv, CountedInv, TestInv, RoundInv, Rounds, Early, Before,
         Gated, At, Done
<1>2. SystemTyped /\ PassInv /\ [V1Next]_system => PassInv'
  <2> SUFFICES ASSUME SystemTyped, PassInv, [V1Next]_system PROVE PassInv'
    OBVIOUS
  <2>1. CASE UNCHANGED system
    <3>1. UNCHANGED <<os, c>>
      BY <2>1 DEF system, pairing
    <3> QED BY <3>1 DEF PassInv, GateInv, CountedInv, TestInv, RoundInv, Gated, At, PairedHere,
                        ReportedSuccess
  <2>2. CASE V1Next
    <3>1. Turned
      BY <2>2, ApproachTurned, ExchangeTurned DEF V1Next, ProcessNext
    <3> QED BY <3>1, TurnedInv DEF SystemTyped
  <2> QED BY <2>1, <2>2
<1>3. Inv /\ SystemTyped /\ PongInv /\ AgreeInv => SystemTyped
  OBVIOUS
<1> QED BY <1>1, <1>2, <1>3, AgreementInvariant, PTL DEF V1Spec

(* PASS is earned, whatever was disturbed: _run_v1_smp_l4_mlkem_cli prints  *)
(* it for CP4 only if the Peripheral sealed both PONGs under the keys of    *)
(* this link, and for a negative test of the pairing only if the gate never *)
(* opened in it.                                                            *)
THEOREM PassSafe == V1Spec => []PassIsEarned
<1>1. SystemTyped /\ AgreeInv /\ PassInv => PassIsEarned
  <2> SUFFICES ASSUME SystemTyped, AgreeInv, PassInv, At("exit"), ExitZero
               PROVE  /\ c.mode = "cp4" => {<<c.link, 0>>, <<c.link, 1>>} \subseteq sealed
                      /\ c.neg # "none" => ~c.opened
    BY DEF PassIsEarned
  <2>1. ASSUME c.mode = "cp4" PROVE {<<c.link, 0>>, <<c.link, 1>>} \subseteq sealed
    <3>1. c.rx = 2
      BY <2>1 DEF PassInv, CountedInv, TestInv, ExitZero, Rounds
    <3>2. <<c.link, 0>> \in sealed /\ <<c.link, 1>> \in sealed
      BY <3>1 DEF AgreeInv, EarnedInv
    <3> QED BY <3>2
  <2>2. ASSUME c.neg # "none" PROVE ~c.opened
    BY <2>2 DEF PassInv, GateInv, ExitZero
  <2> QED BY <2>1, <2>2
<1> QED BY <1>1, AgreementInvariant, PassInvariant, PTL
(* The invariant of the composed system: its types, that the two ends agree *)
(* on keys and counters, and that no exchange goes without consent.         *)
THEOREM CentralSafe == V1Spec => []V1CentralInv
<1>1. SystemTyped /\ AgreeInv /\ PassInv => V1TypeOK
  BY DEF SystemTyped, ProcessTyped, Processes, Sessions, Verdicts, AgreeInv, FramesInv, PassInv,
         RoundInv, Rounds, V1TypeOK
<1> QED BY <1>1, AgreementInvariant, PassInvariant, EndsAgreeSafe, ConsentSafe, PTL
        DEF V1CentralInv
-----------------------------------------------------------------------------
(* What keeps the Peripheral busy: each flag has its job, in the slot or in *)
(* the worker.                                                              *)
FlagsEarned ==
    /\ cp3.worker => \E mode \in Cp3Modes : HasJob(mode) \/ Works(mode)
    /\ cp3.delivery => w.pc \in Delivering /\ w.mode \in Cp3Modes
    /\ cp2.active => HasJob("cp2") \/ (w.mode = "cp2" /\ w.pc \notin {"idle", "release"})
    /\ cp2.conn # 0 => HasJob("cp2") \/ Works("cp2")

(* A process begins and ends without a link and with an empty queue, it     *)
(* begins without a session, only its end is early, and base never runs     *)
(* ahead of the disturbances.                                               *)
BoundaryClear ==
    /\ c.pc \in {"exit", "connect"} => cur = 0 /\ inbox = <<>>
    /\ At("connect") => c.base = -1 /\ c.hs = "NEW"
    /\ c.early => c.pc \in Done
    /\ c.base <= faults /\ (notify => cur # 0)
    /\ bonds \in [pc : BOOLEAN, dk : BOOLEAN]

(* The stages of the Peripheral in an undisturbed run.  Nothing has begun;  *)
(* nothing more is to be sent; a job goes well and its answer is still to   *)
(* come; FINISHED_C is awaited; the session is secure and idle, has a PING, *)
(* or is about to count its PONG.                                           *)
Fresh ==
    /\ AtRest /\ ~Draining /\ cp2.conn = 0 /\ cp3.state = "IDLE"
    /\ ct # "BUSY" /\ notice = "no"
Up == cur # 0 /\ l4 /\ notify /\ notice = "no"
Over == ~slot.pending /\ w.pc \in {"idle", "finish", "release"}
Queued(mode) == HasJob(mode) /\ slot.good /\ slot.fresh
Going(mode) ==
    /\ Works(mode) /\ w.good /\ w.fresh /\ ~slot.pending
    /\ w.pc \in {"done", "result"} => w.ok
Telling(mode) == w.pc = "notify" /\ w.mode = mode /\ w.ok /\ w.conn = cur /\ ~slot.pending
Doing2 ==
    /\ cp2.valid /\ cp2.gen = gen /\ cp3.state = "IDLE"
    /\ \/ Queued("cp2") /\ slot.from = cur /\ w.pc = "idle" /\ cp2.active /\ cp2.conn = cur
       \/ Going("cp2") /\ w.from = cur /\ cp2.active /\ cp2.conn = cur
       \/ Telling("cp2") /\ w.from = cur
Hand == cp3.conn = cur /\ cp3.gen = gen /\ cp3.left > 0 /\ ~cp2.active /\ cp2.conn = 0
Finishing == w.pc = "finish" /\ w.mode = "cp3" /\ w.ok /\ w.sent /\ w.conn = cur
Doing3 ==
    /\ Hand
    /\ \/ cp3.state = "CRYPTO_BUSY" /\ Queued("cp3") /\ slot.from = cur /\ w.pc = "idle"
       \/ /\ cp3.state = "CRYPTO_BUSY" /\ Going("cp3") /\ w.from = cur
          /\ w.pc \in {"done", "result"} => keys.hs = cur
       \/ cp3.state = "WAIT_FINISHED_C" /\ Telling("cp3") /\ w.from = cur /\ ~cp3.worker /\ keys.hs = cur
          /\ ~slot.active
Await ==
    /\ Hand /\ cp3.state = "WAIT_FINISHED_C" /\ ~cp3.worker /\ keys.hs = cur /\ SlotFree
    /\ w.pc = "idle" \/ Finishing
DoingF ==
    /\ Hand /\ cp3.state = "FINISHED_P_BUSY"
    /\ \/ Queued("finished") /\ keys.hs = cur /\ (w.pc = "idle" \/ Finishing)
       \/ /\ Going("finished")
          /\ w.pc = "run" => keys.hs = cur
          /\ w.pc = "store" => w.hs = cur
          /\ w.pc \in {"done", "result"} => keys.app = cur
Secure(k) ==
    /\ cp3.state = "APP_SECURE" /\ cp3.conn = cur /\ cp3.gen = gen /\ ~cp2.active /\ cp2.conn = 0
    /\ keys.app = cur /\ keys.rx = k /\ keys.tx = k
Rests(k) == Secure(k) /\ ~keys.pend /\ ~cp3.worker /\ ~cp3.delivery /\ AtRest
Pinged(k) ==
    /\ Secure(k) /\ keys.pend /\ slot.fresh
    /\ \/ Queued("cp4") /\ w.pc = "idle" /\ cp3.worker /\ ~keys.ready
       \/ /\ Going("cp4") /\ cp3.worker
          /\ keys.ready <=> w.pc \in {"done", "result"}
       \/ Telling("cp4") /\ keys.ready /\ ~cp3.worker /\ cp3.delivery
Counts(k) ==
    /\ Secure(k) /\ keys.pend /\ keys.ready /\ slot.fresh /\ SlotFree
    /\ w.pc = "finish" /\ w.mode = "cp4" /\ w.sent /\ w.conn = cur /\ ~cp3.worker /\ cp3.delivery
Settled(k) == Rests(k) \/ (k > 0 /\ Counts(k - 1))

(* Where an undisturbed process stands, place by place.  Waits: nothing of  *)
(* the handshake has begun on either side; Up1: the exchange has its link   *)
(* and its subscription.                                                    *)
Undisturbed == c.base = faults /\ ~c.early
Waits == Fresh /\ inbox = <<>> /\ c.hs = "NEW"
Unheard == Waits /\ ~notify
Gated1 == Unheard /\ cur # 0 /\ ~l4
Unbonded == Gated1 /\ ~bonds.pc /\ ~bonds.dk
Refused1 == ~bonds.pc /\ c.neg # "none"
Bonded == bonds.pc /\ bonds.dk /\ c.neg = "none"
EnsureAt ==
    /\ Unheard
    /\ c.then = "inspect" => ~l4
    /\ c.then = "verify" => ~l4 /\ Refused1
    /\ c.then = "subscribe" => Bonded
Met ==
    /\ cer.received <=> os.events # 0
    /\ cer.received => cer.ceremony = cer.kind
    /\ ~cer.received => cer.task = "none" /\ ~cer.accepted /\ cer.decision = "none"
Answered ==
    IF cer.kind = "CONFIRM_ONLY"
    THEN cer.decision = "none" /\ cer.task = "none" /\ (cer.received => cer.accepted)
    ELSE /\ cer.accepted <=> cer.decision = "yes"
         /\ cer.received /\ ~cer.deferral => cer.decision # "none"
         /\ cer.decision = "yes" => c.neg = "none"
         /\ cer.decision = "no" => c.neg = "nc-reject"
Returned ==
    \/ os.state = "running" /\ os.status = "none" /\ ~bonds.pc /\ ~l4
    \/ os.state = "returned" /\ os.status = "PAIRED" /\ bonds.pc /\ bonds.dk /\ cer.decision = "yes"
    \/ /\ os.state = "returned" /\ ~bonds.pc /\ ~l4 /\ cer.received
       /\ IF cer.kind = "CONFIRM_ONLY" THEN os.status \in {"SECURITY", "FAILED"} /\ cer.accepted
          ELSE os.status \in Refusals /\ cer.decision = "no"
CeremonyAt ==
    /\ Unheard /\ cur # 0 /\ cer.active /\ ~cer.error /\ c.neg # "pre-l4-only"
    /\ Met /\ Answered /\ Returned
OnLink == Same /\ c.neg = "none"
Up1 == OnLink /\ Up
Answer(type, seq) == inbox = <<Frame(type, cur, seq)>>
StartAt ==
    /\ Fresh /\ inbox = <<>> /\ Up1 /\ ct = "READY" /\ c.mode # "cp1"
    /\ Handshakes => c.hs = "WAIT_READY_CP3"
ReadyAt ==
    /\ Up1 /\ c.mode # "cp1"
    /\ IF Handshakes
       THEN /\ c.hs = "WAIT_READY_CP3"
            /\ (inbox = <<>> /\ Doing3) \/ (Answer("READY_CP3", 0) /\ Await)
       ELSE (inbox = <<>> /\ Doing2) \/ (Answer("READY", 0) /\ Over)
ConfirmAt == Up1 /\ Handshakes /\ c.hs = "WAIT_FINISHED_P" /\ inbox = <<>> /\ Await
FinishedAt ==
    /\ Up1 /\ Handshakes /\ c.hs = "WAIT_FINISHED_P"
    /\ (inbox = <<>> /\ DoingF) \/ (Answer("FINISHED_P", 0) /\ Rests(0))
QuietAt == Up1 /\ inbox = <<>> /\ Over /\ (Handshakes => c.hs = "APP_SECURE" /\ Rests(0))
InApp == Up1 /\ c.mode = "cp4" /\ c.hs = "APP_SECURE"
PingAt == InApp /\ inbox = <<>> /\ Settled(c.tx)
PongAt == InApp /\ ((inbox = <<>> /\ Pinged(c.rx)) \/ (Answer("PONG", c.rx) /\ Settled(c.tx)))
Complete1 == c.tx = Rounds /\ c.rx = Rounds
SettleAt == PingAt /\ Complete1
CleanupAt ==
    /\ ExitZero
    /\ Handshakes /\ c.verdict = "ok" =>
           Same /\ c.hs = "APP_SECURE" /\ inbox = <<>> /\ Over /\ (c.mode = "cp4" => Complete1)
ApproachAt ==
    /\ At("inspect") => Gated1
    /\ At("ensure") => EnsureAt
    /\ At("probe") => Unbonded
    /\ At("pair") => Unbonded /\ c.neg # "pre-l4-only"
    /\ At("ceremony") => CeremonyAt
    /\ At("retire") => Gated1 /\ Refused1
    /\ At("verify") => Gated1 /\ Refused1
    /\ At("subscribe") => Unheard /\ OnLink /\ Bonded
UploadAt ==
    /\ At("attest1") => Waits /\ Up1
    /\ At("info1") => Fresh /\ c.hs = "NEW" /\ Up1 /\ inbox = <<SecInfo>>
    /\ At("upload") => Waits /\ Up1
    /\ At("last") => Waits /\ Up1 /\ ct = "RECEIVING"
    /\ At("attest2") => Waits /\ Up1 /\ ct = "READY"
    /\ At("info2") => Fresh /\ c.hs = "NEW" /\ Up1 /\ ct = "READY" /\ inbox = <<SecInfo>>
ExchangeAt ==
    /\ At("start") => StartAt
    /\ At("ready") => ReadyAt
    /\ At("confirm") => ConfirmAt
    /\ At("finished") => FinishedAt
    /\ At("quiet") => QuietAt
    /\ At("ping") => PingAt
    /\ At("pong") => PongAt
    /\ At("settle") => SettleAt
EndAt ==
    /\ At("cleanup") \/ At("report") => CleanupAt
    /\ At("exit") => ExitZero
CleanAt == ApproachAt /\ UploadAt /\ ExchangeAt /\ EndAt
CleanInv == Undisturbed => CleanAt

-----------------------------------------------------------------------------
(* A step that erases the session, as the host and the timer do it, leaves  *)
(* the flags and the jobs; the job's connection is kept or dropped.          *)
LEMMA FlagsWiped ==
  ASSUME FlagsEarned, HostWipe \/ Still, cp2'.conn \in {0, cp2.conn}
  PROVE  FlagsEarned'
  BY DEF FlagsEarned, HostWipe, Still, FlagsKept, JobKept, WorkerKept, HasJob, Works, Wipe

(* Every step of the Peripheral keeps each flag with its job. *)
LEMMA FlagsStep ==
  ASSUME Inv, FlagsEarned, [Next]_vars
  PROVE  FlagsEarned'
<1>0. /\ cp2 \in Cp2Recs /\ cp3 \in Cp3Recs /\ slot \in Jobs /\ w \in Workers /\ SlotTaken
  BY DEF Inv, Typed, HandshakeTypeOK, WorkerTyped, Cp2Recs, Cp3Recs, SlotInv
<1>k. /\ Busy = {"run", "store", "open", "opened", "seal", "done", "result"} /\ Delivering = {"notify", "finish"}
      /\ Computing = {"run", "store", "open", "opened", "seal", "done"}
      /\ Cp3Modes = {"cp3", "finished", "cp4"}
  BY DEF Busy, Computing, Delivering, Cp3Modes
<1>1. CASE Connected \/ Disconnected \/ SecurityChanged \/ Unsubscribe \/ Cp4Denied
  <2>1. HostWipe
    BY <1>1, HostWipes DEF Inv
  <2>2. cp2'.conn \in {0, cp2.conn}
    BY <1>0, <1>1 DEF Connected, Disconnected, SecurityChanged, Unsubscribe, Cp4Denied, ForgetLink, Cp2Recs
  <2> QED BY <2>1, <2>2, FlagsWiped
<1>2. CASE SecurityUp \/ SecurityLost \/ Subscribe \/ TimeoutRuns \/ Tick \/ UNCHANGED vars
  <2>1. Still
    BY <1>2, StillSteps DEF Inv
  <2> QED BY <2>1, FlagsWiped DEF Still
<1>3. CASE Timeout
  <2>1. HostWipe \/ Still
    BY <1>3, HostWipes, StillSteps DEF Inv
  <2>2. cp2' = cp2
    BY <1>3 DEF Timeout
  <2> QED BY <2>1, <2>2, FlagsWiped
<1>4. CASE \E next \in {"EMPTY", "RECEIVING", "READY"} : WriteCiphertext(next)
  BY <1>4 DEF WriteCiphertext, FlagsEarned, HasJob, Works
<1>5. CASE \E good \in BOOLEAN : Cp2Start(good)
  <2>1. /\ cp2'.conn = cur /\ slot'.pending /\ slot'.mode = "cp2" /\ cp3' = cp3 /\ w' = w
        /\ ~cp3.worker /\ ~cp3.delivery
    BY <1>5 DEF Cp2Start, Starts2, Draining, Job
  <2> QED BY <2>1 DEF FlagsEarned, HasJob
<1>6. CASE \E good \in BOOLEAN : Cp3Start(good)
  <2>1. /\ cp2' = cp2 /\ slot'.pending /\ slot'.mode = "cp3" /\ ~cp3'.delivery /\ w' = w
        /\ ~cp2.active /\ cp2.conn = 0
    BY <1>6 DEF Cp3Start, Starts3, Draining, Job
  <2> QED BY <2>1 DEF FlagsEarned, HasJob, Cp3Modes
<1>7. CASE \E good \in BOOLEAN : FinishedC(good)
  <2>1. PICK good \in BOOLEAN : FinishedC(good)
    BY <1>7
  <2>2. CASE Live3 /\ SlotFree /\ keys.hs # 0
    <3>1. /\ cp2' = cp2 /\ slot'.pending /\ slot'.mode = "finished" /\ cp3'.delivery = cp3.delivery /\ w' = w
          /\ ~slot.pending
      <4>1. /\ cp3' = [cp3 EXCEPT !.state = "FINISHED_P_BUSY", !.worker = TRUE] /\ cp2' = cp2 /\ w' = w
            /\ slot' = Job("finished", cur, good) /\ ~slot.pending
        BY <2>1, <2>2 DEF FinishedC, SlotFree
      <4> QED BY <1>0, <4>1 DEF Job, Cp3Recs
    <3> QED BY <3>1 DEF FlagsEarned, HasJob, Cp3Modes, Works
  <2>3. CASE ~(Live3 /\ SlotFree /\ keys.hs # 0)
    <3>1. InvalidateCp3(cp3, w) /\ UNCHANGED <<link, transfer, cp2, sealed>>
      BY <2>1, <2>3 DEF FinishedC
    <3>2. HostWipe
      BY <3>1, HostWipes DEF Inv
    <3> QED BY <3>1, <3>2, FlagsWiped
  <2> QED BY <2>2, <2>3
<1>8. CASE \E seq \in 0 .. SEQ_MAX, good \in BOOLEAN : Cp4Ping(seq, good)
  <2>1. /\ cp2' = cp2 /\ slot'.pending /\ slot'.mode = "cp4" /\ cp3'.delivery = cp3.delivery /\ w' = w
        /\ ~slot.pending
    BY <1>0, <1>8 DEF Cp4Ping, Accepts4, SlotFree, Job, Cp3Recs
  <2> QED BY <2>1 DEF FlagsEarned, HasJob, Cp3Modes, Works
<1>9. CASE TakeJob
  <2>1. /\ w.pc = "idle" /\ slot.pending /\ w'.pc \in {"run", "done"} /\ w'.mode = slot.mode
        /\ UNCHANGED <<cp2, cp3>>
    BY <1>0, <1>9 DEF TakeJob, Sleeping
  <2> QED BY <1>k, <2>1 DEF FlagsEarned, HasJob, Works
<1>10. CASE Cp2Compute \/ Cp3Compute \/ FinishedTake \/ FinishedStore \/ Cp4Open \/ Cp4Seal
  <2>1. /\ w.pc \in Computing /\ w'.pc \in Computing /\ w'.mode = w.mode /\ UNCHANGED <<cp2, cp3, slot>>
    BY <1>0, <1>10, <1>k DEF Cp2Compute, Cp3Compute, FinishedTake, FinishedStore, Cp4Open, Cp4Seal, Workers
  <2> QED BY <1>k, <2>1 DEF FlagsEarned, HasJob, Works
<1>11. CASE Cp4Check("run", "open") \/ Cp4Check("opened", "seal")
  <2>1. /\ w.pc \in Computing /\ w.mode = "cp4" /\ cp2' = cp2
    BY <1>11, <1>k DEF Cp4Check
  <2>2. CASE cp3.worker /\ Live4
    <3>1. w'.pc \in Computing /\ w'.mode = w.mode /\ UNCHANGED <<cp3, slot>>
      BY <1>0, <1>11, <1>k, <2>2 DEF Cp4Check, Workers
    <3> QED BY <1>k, <2>1, <3>1 DEF FlagsEarned, HasJob, Works
  <2>3. CASE ~(cp3.worker /\ Live4)
    <3> DEFINE x == [w EXCEPT !.pc = "done", !.app = 0]
    <3>1. x \in Workers /\ x.pc = "done" /\ x.mode = "cp4"
      <4>1. 0 \in Conns BY HandshakeAssumption DEF Conns
      <4> QED BY <1>0, <2>1, <4>1 DEF Workers, Pcs, Computing
    <3>2. InvalidateCp3(cp3, x)
      BY <1>11, <2>3 DEF Cp4Check
    <3> HIDE DEF x
    <3>3. /\ cp3'.worker = cp3.worker /\ cp3'.delivery = cp3.delivery /\ slot'.pending = slot.pending
          /\ slot'.mode = slot.mode /\ w'.pc = "done" /\ w'.mode = "cp4"
      BY <1>0, <3>1, <3>2, Invalidated DEF Inv
    <3> QED BY <1>k, <2>1, <3>3 DEF FlagsEarned, HasJob, Works
  <2> QED BY <2>2, <2>3
<1>12. CASE JobDone
  <2>1. /\ w.pc = "done" /\ w'.pc = "result" /\ w'.mode = w.mode /\ slot'.pending = slot.pending
        /\ slot'.mode = slot.mode /\ UNCHANGED <<cp2, cp3>>
    BY <1>0, <1>12 DEF JobDone, Workers, Jobs
  <2> QED BY <1>k, <2>1 DEF FlagsEarned, HasJob, Works
<1>13. CASE Cp2Result
  <2>1. /\ cp2'.conn = 0 /\ cp2'.active = cp2.active /\ w'.pc = "notify" /\ w'.mode = "cp2" /\ w.mode = "cp2"
        /\ w.pc = "result" /\ UNCHANGED <<cp3, slot>>
    BY <1>0, <1>13 DEF Cp2Result, Cp2Recs, Workers
  <2> QED BY <1>k, <2>1 DEF FlagsEarned, HasJob, Works
<1>14. CASE \E sent \in BOOLEAN : Cp2Notify(sent) \/ Cp3Notify(sent) \/ Cp4Notify(sent)
  <2>1. /\ w.pc = "notify" /\ w'.pc = "finish" /\ w'.mode = w.mode /\ UNCHANGED <<cp2, cp3, slot>>
    BY <1>0, <1>14 DEF Cp2Notify, Cp3Notify, Cp4Notify, Workers
  <2> QED BY <1>k, <2>1 DEF FlagsEarned, HasJob, Works
<1>15. CASE Cp2Finish
  <2>1. /\ w.pc = "finish" /\ w.mode = "cp2" /\ w'.pc = "release" /\ w'.mode = "cp2" /\ ~cp2'.active
        /\ cp2'.conn = cp2.conn /\ UNCHANGED <<cp3, slot>>
    BY <1>0, <1>15 DEF Cp2Finish, Workers, Cp2Recs
  <2> QED BY <1>k, <2>1 DEF FlagsEarned, HasJob, Works
<1>16. CASE Cp2Release
  <2>1. /\ w.pc = "release" /\ w.mode = "cp2" /\ slot'.pending = slot.pending /\ slot'.mode = slot.mode
        /\ UNCHANGED <<cp2, cp3>>
    BY <1>0, <1>16 DEF Cp2Release, Jobs, SlotTaken
  <2> QED BY <1>k, <2>1 DEF FlagsEarned, HasJob, Works
<1>17. CASE Cp3Result
  <2>1. /\ w.pc = "result" /\ w.mode \in {"cp3", "finished"} /\ w'.pc = "notify" /\ w'.mode = w.mode
        /\ ~cp3'.worker /\ UNCHANGED <<cp2, slot>>
    BY <1>0, <1>17 DEF Cp3Result, Workers, Cp3Recs
  <2> QED BY <1>k, <2>1 DEF FlagsEarned, HasJob, Works
<1>18. CASE Cp4Result
  <2> DEFINE d == [cp3 EXCEPT !.worker = FALSE, !.delivery = TRUE]
             x == [w EXCEPT !.pc = "notify"]
  <2>1. d \in Cp3Recs /\ ~d.worker /\ x \in Workers /\ x.pc = "notify" /\ x.mode = w.mode
    BY <1>0 DEF Cp3Recs, Workers, Pcs, Delivering
  <2>2. w.pc = "result" /\ w.mode = "cp4" /\ cp2' = cp2
    BY <1>18 DEF Cp4Result
  <2>3. \/ cp3' = d /\ w' = [x EXCEPT !.conn = cp3.conn] /\ slot' = slot
        \/ InvalidateCp3(d, x)
    BY <1>18 DEF Cp4Result
  <2> HIDE DEF d, x
  <2>4. /\ ~cp3'.worker /\ w'.pc = "notify" /\ w'.mode = "cp4" /\ slot'.pending = slot.pending
        /\ slot'.mode = slot.mode
    <3>1. CASE InvalidateCp3(d, x)
      BY <2>1, <2>2, <3>1, Invalidated DEF Inv
    <3>2. CASE cp3' = d /\ w' = [x EXCEPT !.conn = cp3.conn] /\ slot' = slot
      BY <2>1, <2>2, <3>2 DEF Workers
    <3> QED BY <2>3, <3>1, <3>2
  <2> QED BY <1>k, <2>2, <2>4 DEF FlagsEarned, HasJob, Works
<1>19. CASE Cp3Finish \/ Cp4Finish
  <2> DEFINE d == [cp3 EXCEPT !.delivery = FALSE]
  <2>1. d \in Cp3Recs /\ ~d.delivery /\ d.worker = cp3.worker
    BY <1>0 DEF Cp3Recs
  <2>2. w.pc = "finish" /\ w.mode \in Cp3Modes /\ cp2' = cp2
    BY <1>19, <1>k DEF Cp3Finish, Cp4Finish
  <2>3. \/ cp3' = d /\ w' = Sleeping /\ slot' = slot
        \/ InvalidateCp3(d, Sleeping)
    BY <1>19 DEF Cp3Finish, Cp4Finish
  <2> HIDE DEF d
  <2>4. /\ ~cp3'.delivery /\ cp3'.worker = cp3.worker /\ slot'.pending = slot.pending /\ slot'.mode = slot.mode
    <3>1. CASE InvalidateCp3(d, Sleeping)
      BY <2>1, <3>1, Invalidated, SleepingTyped DEF Inv
    <3> QED BY <2>1, <2>3, <3>1
  <2> QED BY <1>k, <2>2, <2>4 DEF FlagsEarned, HasJob, Works
<1>20. CASE \E sent, late \in BOOLEAN : FinishedP(sent, late)
  <2> DEFINE d == Delivered(cp3)
             e == [d EXCEPT !.state = "APP_SECURE"]
  <2>1. d \in Cp3Recs /\ ~d.delivery /\ ~d.worker
    BY <1>0 DEF Cp3Recs, Delivered
  <2>2. w.pc = "result" /\ w.mode = "finished" /\ cp2' = cp2
    BY <1>20 DEF FinishedP
  <2>3. (cp3' = e /\ slot' = slot) \/ InvalidateCp3(d, Sleeping)
    BY <1>20 DEF FinishedP
  <2> HIDE DEF d
  <2>4. /\ ~cp3'.delivery /\ ~cp3'.worker /\ slot'.pending = slot.pending /\ slot'.mode = slot.mode
    <3>1. CASE InvalidateCp3(d, Sleeping)
      BY <2>1, <3>1, Invalidated, SleepingTyped DEF Inv
    <3>2. CASE cp3' = e /\ slot' = slot
      BY <2>1, <3>2 DEF Cp3Recs
    <3> QED BY <2>3, <3>1, <3>2
  <2> QED BY <1>k, <2>2, <2>4 DEF FlagsEarned, HasJob, Works
<1>21. Next => \/ Connected \/ Disconnected \/ SecurityChanged \/ Unsubscribe \/ Cp4Denied
               \/ SecurityUp \/ SecurityLost \/ Subscribe \/ TimeoutRuns \/ Tick \/ Timeout
               \/ \E next \in {"EMPTY", "RECEIVING", "READY"} : WriteCiphertext(next)
               \/ \E good \in BOOLEAN : Cp2Start(good)
               \/ \E good \in BOOLEAN : Cp3Start(good)
               \/ \E good \in BOOLEAN : FinishedC(good)
               \/ \E seq \in 0 .. SEQ_MAX, good \in BOOLEAN : Cp4Ping(seq, good)
               \/ WorkerNext
  BY DEF Next, HostNext, TimerNext
<1> QED BY <1>1, <1>2, <1>3, <1>4, <1>5, <1>6, <1>7, <1>8, <1>9, <1>10, <1>11, <1>12, <1>13, <1>14, <1>15,
           <1>16, <1>17, <1>18, <1>19, <1>20, <1>21 DEF WorkerNext
-----------------------------------------------------------------------------
(* What a process keeps when it moves on, and when it ends. *)
Kept(d) == d.base = c.base /\ d.early = c.early /\ d.mode = c.mode /\ d.neg = c.neg
KeptAll(d) ==
    /\ Kept(d) /\ d.link = c.link /\ d.hs = c.hs /\ d.tx = c.tx /\ d.rx = c.rx /\ d.verdict = c.verdict
LEMMA KeptFields ==
  ASSUME c \in Processes
  PROVE  /\ \A pc \in Places : To(pc).pc = pc /\ To(pc).then = c.then /\ KeptAll(To(pc))
         /\ \A v \in Verdicts : Ends(v).pc = "cleanup" /\ Ends(v).verdict = v /\ Kept(Ends(v))
         /\ /\ Ends("ok").link = c.link /\ Ends("ok").hs = c.hs /\ Ends("ok").tx = c.tx
            /\ Ends("ok").rx = c.rx
         /\ /\ Closed(c) \in Processes /\ Kept(Closed(c)) /\ Closed(c).pc = c.pc /\ Closed(c).verdict = c.verdict
            /\ Closed(c).then = c.then
<1>1. \A pc \in Places : To(pc).pc = pc /\ To(pc).then = c.then /\ KeptAll(To(pc))
  BY DEF To, Processes, Kept, KeptAll
<1> DEFINE x == Closed(c)
           h == IF c.hs = "NEW" THEN c.hs ELSE "CLOSED"
<1>2. x = [c EXCEPT !.hs = h]
  BY DEF Closed
<1> HIDE DEF h
<1>3. Kept(x) /\ x.pc = c.pc /\ x.verdict = c.verdict /\ x.then = c.then
  BY <1>2 DEF Processes, Kept
<1>4. x \in Processes
  BY MovesTyped
<1>5. Unwound = [x EXCEPT !.link = 0, !.tx = 0, !.rx = 0, !.cold = FALSE, !.unpair = FALSE]
  BY DEF Unwound
<1>6. ASSUME NEW v \in Verdicts
      PROVE  Ends(v).pc = "cleanup" /\ Ends(v).verdict = v /\ Kept(Ends(v))
  <2> DEFINE y == IF v = "ok" THEN c ELSE Unwound
  <2>1. Ends(v) = [y EXCEPT !.pc = "cleanup", !.verdict = v]
    BY DEF Ends
  <2> HIDE DEF x
  <2>2. Unwound \in Processes /\ Kept(Unwound)
    BY <1>3, <1>4, <1>5 DEF Processes, Kept
  <2>3. y \in Processes /\ Kept(y)
    BY <2>2 DEF Kept
  <2> HIDE DEF y
  <2> QED BY <2>1, <2>3 DEF Processes, Kept
<1>7. /\ Ends("ok").link = c.link /\ Ends("ok").hs = c.hs /\ Ends("ok").tx = c.tx
      /\ Ends("ok").rx = c.rx
  BY DEF Ends, Processes
<1> QED BY <1>1, <1>3, <1>4, <1>6, <1>7

(* A link is dropped, begun, or goes on; only a live one has a subscription. *)
LEMMA LinkMoves ==
  ASSUME [Next]_vars
  PROVE  \/ cur' = cur /\ (notify' => notify \/ cur # 0)
         \/ ~notify' /\ (Connected \/ Disconnected)
<1>1. UNCHANGED link => cur' = cur /\ notify' = notify
  BY DEF link
<1>2. HostNext \/ TimerNext \/ Tick \/ UNCHANGED vars => UNCHANGED link \/ Connected \/ Disconnected
          \/ SecurityUp \/ SecurityLost \/ SecurityChanged \/ Subscribe \/ Unsubscribe
  BY DEF HostNext, TimerNext, Tick, TimeoutRuns, Timeout, WriteCiphertext, Cp2Start, Cp3Start, FinishedC, Cp4Ping,
         Cp4Denied, vars
<1>3. WorkerNext => UNCHANGED link
  BY DEF WorkerNext, TakeJob, Cp2Compute, Cp3Compute, FinishedTake, FinishedStore, Cp4Check, Cp4Open, Cp4Seal,
         JobDone, Cp2Result, Cp2Notify, Cp2Finish, Cp2Release, Cp3Result, Cp3Notify, Cp3Finish, FinishedP,
         Cp4Result, Cp4Notify, Cp4Finish
<1>4. SecurityUp \/ SecurityLost \/ SecurityChanged \/ Subscribe \/ Unsubscribe
      => cur' = cur /\ (notify' => notify \/ cur # 0)
  BY DEF SecurityUp, SecurityLost, SecurityChanged, Subscribe, Unsubscribe, HostFree
<1>5. Connected \/ Disconnected => ~notify'
  BY DEF Connected, Disconnected
<1> QED BY <1>1, <1>2, <1>3, <1>4, <1>5 DEF Next

-----------------------------------------------------------------------------
(* The Peripheral's own steps in an undisturbed run: host and clock, and    *)
(* the worker, by the place where it is.                                    *)
HostTime == HostMoves \/ TimePasses
Quietly(A) == A /\ inbox' = inbox
LEMMA MovesByPlace ==
  ASSUME PeripheralNext \/ TimePasses
  PROVE  /\ UNCHANGED <<pairing, c, runs>>
         /\ w.pc = "idle" => HostTime \/ Quietly(TakeJob)
         /\ w.pc = "run" =>
                HostTime \/ Quietly(Cp2Compute \/ Cp3Compute \/ FinishedTake \/ Cp4Check("run", "open"))
         /\ w.pc = "store" => HostTime \/ Quietly(FinishedStore)
         /\ w.pc = "open" => HostTime \/ Quietly(Cp4Open)
         /\ w.pc = "opened" => HostTime \/ Quietly(Cp4Check("opened", "seal"))
         /\ w.pc = "seal" => HostTime \/ Quietly(Cp4Seal)
         /\ w.pc = "done" => HostTime \/ Quietly(JobDone)
         /\ w.pc = "result" => \/ HostTime \/ Quietly(Cp2Result \/ Cp3Result \/ Cp4Result)
                               \/ FinishedP(TRUE, FALSE) /\ Sends(Frame("FINISHED_P", keys.app, 0))
                               \/ FinishedP(FALSE, FALSE) /\ Expected1(~Deliver3)
         /\ w.pc = "notify" =>
                \/ HostTime
                \/ Cp2Notify(TRUE) /\ Sends(OrError("READY"))
                \/ Cp3Notify(TRUE) /\ Sends(OrError("READY_CP3"))
                \/ Cp4Notify(TRUE) /\ Sends(Frame("PONG", keys.app, keys.tx))
                \/ Cp2Notify(FALSE) /\ Expected1(~(w.conn # 0 /\ Current2 /\ l4))
                \/ Cp3Notify(FALSE) /\ Expected1(~(w.conn # 0 /\ w.conn = cur /\ l4 /\ notify))
                \/ Cp4Notify(FALSE) /\ Expected1(~(w.conn # 0 /\ w.conn = cp3.conn /\ Live4))
         /\ w.pc = "finish" => HostTime \/ Quietly(Cp2Finish \/ Cp3Finish \/ Cp4Finish)
         /\ w.pc = "release" => HostTime \/ Quietly(Cp2Release)
<1>1. CASE HostMoves \/ TimePasses
  BY <1>1 DEF HostTime, HostMoves, TimePasses
<1>2. CASE WorkerMoves
  BY <1>2 DEF Quietly, WorkerMoves, TakeJob, Cp2Compute, Cp3Compute, FinishedTake, FinishedStore, Cp4Check,
              Cp4Open, Cp4Seal, JobDone, Cp2Result, Cp2Finish, Cp2Release, Cp3Result, Cp3Finish, Cp4Result, Cp4Finish
<1>3. CASE Delivers
  BY <1>3 DEF Delivers, Sends, Cp2Notify, Cp3Notify, FinishedP, Cp4Notify
<1>4. CASE DeliveryFails
  BY <1>4 DEF DeliveryFails, Cp2Notify, Cp3Notify, FinishedP, Cp4Notify
<1> QED BY <1>1, <1>2, <1>3, <1>4 DEF PeripheralNext

(* Host and clock disturb nothing while no notice is due and the deadline   *)
(* of a handshake lies ahead.                                               *)
Unmoved ==
    /\ UNCHANGED <<link, transfer, cp2, keys, slot, w, inbox>>
    /\ cp3'.state = cp3.state /\ cp3'.conn = cp3.conn /\ cp3'.gen = cp3.gen /\ cp3'.worker = cp3.worker
    /\ cp3'.delivery = cp3.delivery /\ (cp3.state \in Handshaking => cp3'.left = cp3.left)
LEMMA HostTimeUnmoved ==
  ASSUME Typed, HostTime, faults \in Int, faults' = faults, notice = "no",
         cp3.state \in Handshaking => cp3.left > 0
  PROVE  Unmoved
<1>0. cp3 \in Cp3Recs
  BY DEF Typed, HandshakeTypeOK, Cp3Recs
<1>1. CASE TimePasses
  <2>1. Tick /\ cp3.state \notin Handshaking /\ inbox' = inbox
    BY <1>1 DEF TimePasses, Expected1, Disturbs
  <2>2. /\ cp3'.state = cp3.state /\ cp3'.conn = cp3.conn /\ cp3'.gen = cp3.gen /\ cp3'.worker = cp3.worker
        /\ cp3'.delivery = cp3.delivery
    BY <1>0, <2>1 DEF Tick, Cp3Recs
  <2> QED BY <2>1, <2>2 DEF Tick, Unmoved
<1>2. CASE HostMoves
  <2>1. TimeoutRuns \/ (Timeout /\ ~(TimesOut /\ cp3.left = 0))
    BY <1>2 DEF HostMoves, SecurityChanged, TimerNext, TimesOut
  <2>2. UNCHANGED <<link, transfer, cp2, cp3, keys, slot, w, inbox>>
    BY <1>2, <2>1 DEF HostMoves, TimeoutRuns, Timeout
  <2> QED BY <2>2 DEF Unmoved
<1> QED BY <1>1, <1>2 DEF HostTime

(* Nothing has begun: the worker has nothing to do. *)
LEMMA FreshMoves ==
  ASSUME Inv, Fresh, PeripheralNext \/ TimePasses, faults \in Int, faults' = faults
  PROVE  Fresh' /\ Unmoved
<1>1. w.pc = "idle" /\ ~slot.pending /\ notice = "no" /\ cp3.state = "IDLE"
  BY DEF Fresh, AtRest, SlotFree
<1>2. HostTime
  BY <1>1, MovesByPlace DEF Quietly, TakeJob
<1>3. Unmoved
  BY <1>1, <1>2, HostTimeUnmoved DEF Inv, Handshaking
<1> QED BY <1>3 DEF Fresh, AtRest, SlotFree, Draining, Unmoved, link, transfer

(* Nothing more is to be sent. *)
LEMMA OverMoves ==
  ASSUME Inv, Over, PeripheralNext \/ TimePasses
  PROVE  Over' /\ inbox' = inbox
<1>0. w \in Workers /\ slot \in Jobs /\ cp3 \in Cp3Recs /\ SlotTaken
  BY DEF Inv, Typed, HandshakeTypeOK, WorkerTyped, Cp3Recs, SlotInv
<1>1. CASE HostTime
  <2>1. Still \/ HostWipe
    BY <1>1, HostWipes, StillSteps DEF Inv, HostTime, HostMoves, TimePasses, TimerNext
  <2> QED BY <1>1, <2>1 DEF Still, HostWipe, JobKept, WorkerKept, Over, HostTime, HostMoves, TimePasses
<1>2. CASE ~HostTime
  <2>1. \/ w.pc = "finish" /\ Quietly(Cp2Finish \/ Cp3Finish \/ Cp4Finish)
        \/ w.pc = "release" /\ Quietly(Cp2Release)
    BY <1>2, MovesByPlace DEF Over, Quietly, TakeJob
  <2>2. CASE Cp2Release \/ Cp2Finish
    BY <1>0, <2>1, <2>2 DEF Over, Quietly, Cp2Release, Cp2Finish, Sleeping, Workers, Jobs
  <2>3. CASE Cp3Finish \/ Cp4Finish
    <3> DEFINE d == [cp3 EXCEPT !.delivery = FALSE]
    <3>1. d \in Cp3Recs
      BY <1>0 DEF Cp3Recs
    <3>2. (w' = Sleeping /\ slot' = slot) \/ InvalidateCp3(d, Sleeping)
      BY <2>3 DEF Cp3Finish, Cp4Finish
    <3> HIDE DEF d
    <3>3. w'.pc = "idle" /\ slot'.pending = slot.pending
      <4>1. CASE InvalidateCp3(d, Sleeping)
        BY <3>1, <4>1, Invalidated, SleepingTyped DEF Inv, Sleeping
      <4> QED BY <3>2, <4>1 DEF Sleeping
    <3> QED BY <2>1, <3>3 DEF Over, Quietly
  <2> QED BY <2>1, <2>2, <2>3 DEF Quietly
<1> QED BY <1>1, <1>2
-----------------------------------------------------------------------------
(* One job after another.  The worker's place within a job, and the steps   *)
(* that lead on; a step that would go wrong is a disturbance.               *)
Sent(type, seq) == inbox' = Append(inbox, Frame(type, cur, seq))
JobTypes ==
    w \in Workers /\ slot \in Jobs /\ cp2 \in Cp2Recs /\ cp3 \in Cp3Recs /\ keys \in KeyRecs /\ SlotTaken
LEMMA JobTyped == ASSUME Inv PROVE JobTypes
  BY DEF Inv, Typed, HandshakeTypeOK, WorkerTyped, Cp2Recs, Cp3Recs, KeyRecs, SlotInv, JobTypes

(* The worker has taken a fresh job. *)
LEMMA TakenGoing ==
  ASSUME Inv, NEW mode \in Cp3Modes \cup {"cp2"}, Queued(mode), w.pc = "idle", TakeJob
  PROVE  /\ Going(mode)' /\ w'.pc = "run" /\ w'.from = slot.from /\ slot'.fresh /\ slot'.active
         /\ UNCHANGED <<link, transfer, cp2, cp3, keys>>
<1>1. slot.pending /\ slot.mode = mode /\ slot.good /\ slot.fresh /\ slot \in Jobs
  BY JobTyped DEF Queued, HasJob, JobTypes
<1>2. w' = [Sleeping EXCEPT !.pc = "run", !.mode = slot.mode, !.from = slot.from, !.good = slot.good,
                            !.fresh = slot.fresh]
  BY <1>1 DEF TakeJob
<1>3. w'.pc = "run" /\ w'.mode = mode /\ w'.from = slot.from /\ w'.good /\ w'.fresh
  BY <1>1, <1>2 DEF Sleeping
<1>4. ~slot'.pending /\ slot'.fresh /\ slot'.active
  BY <1>1 DEF TakeJob, Jobs
<1> QED BY <1>3, <1>4 DEF TakeJob, Going, Works, Busy, Computing

(* And reports its result. *)
LEMMA DoneGoing ==
  ASSUME Inv, NEW mode, Going(mode), w.pc = "done", JobDone
  PROVE  /\ Going(mode)' /\ w'.pc = "result" /\ w'.from = w.from /\ slot'.fresh = slot.fresh
         /\ slot'.active = (mode = "cp2")
         /\ UNCHANGED <<link, transfer, cp2, cp3, keys>>
<1>1. w \in Workers /\ slot \in Jobs
  BY JobTyped DEF JobTypes
<1>2. /\ w'.pc = "result" /\ w'.mode = w.mode /\ w'.from = w.from /\ w'.good = w.good /\ w'.fresh = w.fresh
      /\ w'.ok
  BY <1>1 DEF JobDone, Going, Works, Workers
<1>3. ~slot'.pending /\ slot'.fresh = slot.fresh /\ slot'.active = (mode = "cp2")
  BY <1>1 DEF JobDone, Going, Works, Jobs
<1> QED BY <1>2, <1>3 DEF JobDone, Going, Works, Busy

(* The CP2 diagnostic of an undisturbed run comes to its READY_V1. *)
LEMMA Doing2Moves ==
  ASSUME Inv, Up, Doing2, PeripheralNext \/ TimePasses, faults \in Int, faults' = faults
  PROVE  UNCHANGED link /\ ((inbox' = inbox /\ Doing2') \/ (Sent("READY", 0) /\ Over'))
<1>0. JobTypes /\ JobOfLink /\ cur # 0 /\ l4 /\ notify /\ notice = "no"
  BY JobTyped DEF Inv, SecretInv, Up
<1> USE DEF JobTypes
<1>1. CASE HostTime
  <2>1. Unmoved
    BY <1>0, <1>1, HostTimeUnmoved DEF Doing2, Handshaking, Inv
  <2> QED BY <2>1 DEF Unmoved, Doing2, Queued, Going, Telling, HasJob, Works, link
<1>2. CASE ~HostTime /\ Queued("cp2") /\ slot.from = cur /\ w.pc = "idle" /\ cp2.active /\ cp2.conn = cur
  <2>1. TakeJob /\ inbox' = inbox
    BY <1>2, MovesByPlace DEF Quietly
  <2>2. Going("cp2")' /\ w'.from = cur /\ UNCHANGED <<link, cp2, cp3>>
    BY <1>2, <2>1, TakenGoing
  <2> QED BY <1>2, <2>1, <2>2 DEF Doing2, link
<1>3. CASE ~HostTime /\ Going("cp2") /\ w.from = cur /\ cp2.active /\ cp2.conn = cur
  <2>1. w.pc \in {"run", "done", "result"} /\ w.mode = "cp2" /\ w.good /\ w.fresh /\ ~slot.pending
    BY <1>0, <1>3 DEF Going, Works, Busy, Computing, JobOfLink
  <2>2. CASE w.pc = "run"
    <3>1. Cp2Compute /\ inbox' = inbox
      BY <1>3, <2>1, <2>2, MovesByPlace DEF Quietly, Cp3Compute, FinishedTake, Cp4Check
    <3>2. /\ w'.pc = "done" /\ w'.mode = "cp2" /\ w'.good /\ w'.fresh /\ w'.ok /\ w'.from = cur
          /\ UNCHANGED <<link, cp2, cp3, slot>>
      BY <1>0, <1>3, <2>1, <3>1 DEF Cp2Compute, Workers
    <3> QED BY <1>3, <2>1, <3>1, <3>2 DEF Doing2, Going, Works, Busy, Computing, link
  <2>3. CASE w.pc = "done"
    <3>1. JobDone /\ inbox' = inbox
      BY <1>3, <2>3, MovesByPlace DEF Quietly
    <3>2. Going("cp2")' /\ w'.from = cur /\ UNCHANGED <<link, cp2, cp3>>
      BY <1>3, <2>3, <3>1, DoneGoing
    <3> QED BY <1>3, <3>1, <3>2 DEF Doing2, link
  <2>4. CASE w.pc = "result"
    <3>1. Cp2Result /\ inbox' = inbox /\ w.ok
      BY <1>3, <2>1, <2>4, MovesByPlace DEF Quietly, Cp3Result, Cp4Result, FinishedP, Going
    <3>2. cp2.active /\ cp2.valid /\ cp2.conn # 0 /\ cp2.conn = cur /\ cp2.gen = gen /\ notify
      BY <1>0, <1>3 DEF Doing2
    <3>3. /\ w'.pc = "notify" /\ w'.mode = "cp2" /\ w'.ok /\ w'.conn = cur /\ w'.from = cur
          /\ cp2'.valid /\ cp2'.gen = gen /\ UNCHANGED <<link, cp3, slot>>
      <4>1. w' = [w EXCEPT !.pc = "notify", !.conn = cp2.conn] /\ cp2' = [cp2 EXCEPT !.conn = 0]
            /\ UNCHANGED <<link, cp3, slot>>
        BY <3>1, <3>2 DEF Cp2Result
      <4> QED BY <1>0, <1>3, <2>1, <3>1, <3>2, <4>1 DEF Workers, Cp2Recs
    <3> QED BY <2>1, <3>1, <3>3 DEF Doing2, Telling, link
  <2> QED BY <2>1, <2>2, <2>3, <2>4
<1>4. CASE ~HostTime /\ Telling("cp2") /\ w.from = cur
  <2>1. w.pc = "notify" /\ w.mode = "cp2" /\ w.ok /\ w.conn = cur /\ ~slot.pending
    BY <1>4 DEF Telling
  <2>2. w.conn # 0 /\ Current2 /\ l4
    BY <1>0, <2>1 DEF Current2, Doing2
  <2>3. Cp2Notify(TRUE) /\ Sends(OrError("READY"))
    <3>1. ~Expected1(~(w.conn # 0 /\ Current2 /\ l4))
      BY <2>2 DEF Expected1, Disturbs
    <3>2. ~Cp3Notify(TRUE) /\ ~Cp3Notify(FALSE) /\ ~Cp4Notify(TRUE) /\ ~Cp4Notify(FALSE)
      BY <2>1 DEF Cp3Notify, Cp4Notify
    <3> QED BY <1>4, <2>1, <3>1, <3>2, MovesByPlace
  <2>4. Sent("READY", 0)
    BY <1>4, <2>1, <2>3 DEF Sends, OrError, Sent
  <2>5. w'.pc = "finish" /\ UNCHANGED <<link, slot>>
    BY <1>0, <2>3 DEF Cp2Notify, Workers
  <2> QED BY <2>1, <2>4, <2>5 DEF Over
<1> QED BY <1>1, <1>2, <1>3, <1>4 DEF Doing2
(* START_CP3 of an undisturbed run comes to its READY_CP3. *)
LEMMA Doing3Moves ==
  ASSUME Inv, Up, Doing3, PeripheralNext \/ TimePasses, faults \in Int, faults' = faults
  PROVE  UNCHANGED link /\ ((inbox' = inbox /\ Doing3') \/ (Sent("READY_CP3", 0) /\ Await'))
<1>0. JobTypes /\ JobOfLink /\ cur # 0 /\ l4 /\ notify /\ notice = "no" /\ Hand
  BY JobTyped DEF Inv, SecretInv, Up, Doing3
<1> USE DEF JobTypes
<1>1. CASE HostTime
  <2>1. Unmoved /\ cp3'.left = cp3.left
    <3>1. cp3.state \in Handshaking /\ cp3.left > 0
      BY DEF Doing3, Hand, Handshaking
    <3>2. Unmoved
      BY <1>0, <1>1, <3>1, HostTimeUnmoved DEF Inv
    <3> QED BY <3>1, <3>2 DEF Unmoved
  <2> QED BY <2>1 DEF Unmoved, Doing3, Hand, Queued, Going, Telling, HasJob, Works, link
<1>2. CASE ~HostTime /\ cp3.state = "CRYPTO_BUSY" /\ Queued("cp3") /\ slot.from = cur /\ w.pc = "idle"
  <2>1. TakeJob /\ inbox' = inbox
    BY <1>2, MovesByPlace DEF Quietly
  <2>2. Going("cp3")' /\ w'.pc = "run" /\ w'.from = cur /\ UNCHANGED <<link, cp2, cp3>>
    BY <1>2, <2>1, TakenGoing DEF Cp3Modes
  <2> QED BY <1>0, <1>2, <2>1, <2>2 DEF Doing3, Hand, link
<1>3. CASE /\ ~HostTime /\ cp3.state = "CRYPTO_BUSY" /\ Going("cp3") /\ w.from = cur
           /\ w.pc \in {"done", "result"} => keys.hs = cur
  <2>1. w.pc \in {"run", "done", "result"} /\ w.mode = "cp3" /\ w.good /\ w.fresh /\ ~slot.pending
    BY <1>0, <1>3 DEF Going, Works, Busy, Computing, JobOfLink
  <2>2. CASE w.pc = "run"
    <3>1. Cp3Compute /\ inbox' = inbox
      BY <1>3, <2>1, <2>2, MovesByPlace DEF Quietly, Cp2Compute, FinishedTake, Cp4Check
    <3>2. /\ w'.pc = "done" /\ w'.mode = "cp3" /\ w'.good /\ w'.fresh /\ w'.ok /\ w'.from = cur
          /\ UNCHANGED <<link, cp2, cp3, slot>>
      BY <1>0, <1>3, <2>1, <3>1 DEF Cp3Compute, Workers
    <3>3. keys'.hs = cur
      BY <1>0, <1>3, <2>1, <3>1 DEF Cp3Compute, KeyRecs
    <3> QED BY <1>0, <1>3, <2>1, <3>1, <3>2, <3>3 DEF Doing3, Hand, Going, Works, Busy, Computing, link
  <2>3. CASE w.pc = "done"
    <3>1. JobDone /\ inbox' = inbox
      BY <1>3, <2>3, MovesByPlace DEF Quietly
    <3>2. Going("cp3")' /\ w'.from = cur /\ UNCHANGED <<link, cp2, cp3, keys>>
      BY <1>3, <2>3, <3>1, DoneGoing
    <3> QED BY <1>0, <1>3, <2>3, <3>1, <3>2 DEF Doing3, Hand, link
  <2>4. CASE w.pc = "result"
    <3>1. Cp3Result /\ inbox' = inbox /\ w.ok
      BY <1>3, <2>1, <2>4, MovesByPlace DEF Quietly, Cp2Result, Cp4Result, FinishedP, Going
    <3>2. Deliver3 /\ cp3.conn = cur
      BY <1>0, <1>3, <2>1 DEF Hand, Deliver3, Live3, Linked, Expected
    <3>3. /\ cp3' = [cp3 EXCEPT !.worker = FALSE, !.delivery = TRUE, !.state = "WAIT_FINISHED_C"]
          /\ w' = [w EXCEPT !.pc = "notify", !.conn = cp3.conn] /\ UNCHANGED <<link, cp2, keys, slot>>
      BY <3>1, <3>2 DEF Cp3Result
    <3>4. w'.pc = "notify" /\ w'.mode = "cp3" /\ w'.ok /\ w'.conn = cur /\ w'.from = cur
      BY <1>0, <1>3, <2>1, <3>1, <3>2, <3>3 DEF Workers
    <3>5. /\ cp3'.state = "WAIT_FINISHED_C" /\ ~cp3'.worker /\ cp3'.conn = cp3.conn /\ cp3'.gen = cp3.gen
          /\ cp3'.left = cp3.left
      BY <1>0, <3>3 DEF Cp3Recs
    <3>6. ~slot.active
      BY <1>0, <2>1, <2>4 DEF SlotTaken, Computing
    <3> QED BY <1>0, <1>3, <2>1, <2>4, <3>1, <3>3, <3>4, <3>5, <3>6 DEF Doing3, Hand, Telling, link
  <2> QED BY <2>1, <2>2, <2>3, <2>4
<1>4. CASE /\ ~HostTime /\ cp3.state = "WAIT_FINISHED_C" /\ Telling("cp3") /\ w.from = cur
           /\ ~cp3.worker /\ keys.hs = cur /\ ~slot.active
  <2>1. w.pc = "notify" /\ w.mode = "cp3" /\ w.ok /\ w.conn = cur /\ ~slot.pending
    BY <1>4 DEF Telling
  <2>2. w.conn # 0 /\ w.conn = cur /\ l4 /\ notify
    BY <1>0, <2>1
  <2>3. Cp3Notify(TRUE) /\ Sends(OrError("READY_CP3"))
    <3>1. ~Expected1(~(w.conn # 0 /\ w.conn = cur /\ l4 /\ notify))
      BY <2>2 DEF Expected1, Disturbs
    <3>2. ~Cp2Notify(TRUE) /\ ~Cp2Notify(FALSE) /\ ~Cp4Notify(TRUE) /\ ~Cp4Notify(FALSE)
      BY <2>1 DEF Cp2Notify, Cp4Notify
    <3> QED BY <1>4, <2>1, <3>1, <3>2, MovesByPlace
  <2>4. Sent("READY_CP3", 0)
    BY <1>4, <2>1, <2>3 DEF Sends, OrError, Sent
  <2>5. /\ w'.pc = "finish" /\ w'.mode = "cp3" /\ w'.ok /\ w'.sent /\ w'.conn = cur
        /\ UNCHANGED <<link, cp2, cp3, keys, slot>>
    BY <1>0, <2>1, <2>3 DEF Cp3Notify, Workers
  <2> QED BY <1>0, <1>4, <2>1, <2>4, <2>5 DEF Await, Hand, Finishing, SlotFree, link
<1> QED BY <1>1, <1>2, <1>3, <1>4 DEF Doing3

(* The end of the delivery of READY_CP3 leaves the handshake as it is, also *)
(* when FINISHED_C has come meanwhile.                                      *)
LEMMA FinishingMoves ==
  ASSUME Inv, Up, Hand, Finishing, cp3.state \in {"WAIT_FINISHED_C", "FINISHED_P_BUSY"},
         PeripheralNext \/ TimePasses, ~HostTime
  PROVE  /\ inbox' = inbox /\ w'.pc = "idle" /\ UNCHANGED <<link, cp2, keys, slot>> /\ Hand'
         /\ cp3'.state = cp3.state /\ cp3'.worker = cp3.worker
<1>0. JobTypes /\ cur # 0 /\ l4 /\ notify /\ notice = "no"
  BY JobTyped DEF Up
<1> USE DEF JobTypes
<1>1. Cp3Finish /\ inbox' = inbox
  BY MovesByPlace DEF Finishing, Quietly, Cp2Finish, Cp4Finish
<1>2. Current3 /\ w.sent /\ w.ok /\ Live3
  BY <1>0 DEF Current3, Live3, Linked, Finishing, Hand
<1>3. cp3' = [cp3 EXCEPT !.delivery = FALSE] /\ w' = Sleeping /\ UNCHANGED <<keys, slot, link, cp2>>
  BY <1>1, <1>2 DEF Cp3Finish
<1>4. /\ cp3'.state = cp3.state /\ cp3'.worker = cp3.worker /\ cp3'.conn = cp3.conn /\ cp3'.gen = cp3.gen
      /\ cp3'.left = cp3.left /\ w'.pc = "idle"
  BY <1>0, <1>3 DEF Cp3Recs, Sleeping
<1> QED BY <1>1, <1>3, <1>4 DEF Hand, link

(* FINISHED_C is awaited until it comes. *)
LEMMA AwaitMoves ==
  ASSUME Inv, Up, Await, PeripheralNext \/ TimePasses, faults \in Int, faults' = faults
  PROVE  UNCHANGED link /\ inbox' = inbox /\ Await'
<1>0. JobTypes /\ cur # 0 /\ l4 /\ notify /\ notice = "no" /\ Hand
  BY JobTyped DEF Up, Await
<1>1. CASE HostTime
  <2>1. Unmoved /\ cp3'.left = cp3.left
    <3>1. cp3.state \in Handshaking /\ cp3.left > 0
      BY DEF Await, Hand, Handshaking
    <3>2. Unmoved
      BY <1>0, <1>1, <3>1, HostTimeUnmoved DEF Inv
    <3> QED BY <3>1, <3>2 DEF Unmoved
  <2> QED BY <2>1 DEF Unmoved, Await, Hand, Finishing, SlotFree, link
<1>2. CASE ~HostTime /\ w.pc = "idle"
  BY <1>2, MovesByPlace DEF Await, SlotFree, Quietly, TakeJob
<1>3. CASE ~HostTime /\ Finishing
  <2>1. /\ inbox' = inbox /\ w'.pc = "idle" /\ UNCHANGED <<link, cp2, keys, slot>> /\ Hand'
        /\ cp3'.state = cp3.state /\ cp3'.worker = cp3.worker
    BY <1>0, <1>3, FinishingMoves DEF Await
  <2> QED BY <2>1 DEF Await, SlotFree, link
<1> QED BY <1>1, <1>2, <1>3 DEF Await
(* FINISHED_C of an undisturbed run comes to its FINISHED_P. *)
LEMMA DoingFMoves ==
  ASSUME Inv, PongInv, Up, DoingF, PeripheralNext \/ TimePasses, faults \in Int, faults' = faults
  PROVE  UNCHANGED link /\ ((inbox' = inbox /\ DoingF') \/ (Sent("FINISHED_P", 0) /\ Rests(0)'))
<1>0. JobTypes /\ JobOfLink /\ cur # 0 /\ l4 /\ notify /\ notice = "no" /\ Hand
      /\ cp3.state = "FINISHED_P_BUSY" /\ ~keys.secure /\ ~keys.pend
  BY JobTyped DEF Inv, SecretInv, KeysOfThisLink, Up, DoingF, PongInv, ReadySealed
<1> USE DEF JobTypes
<1>1. CASE HostTime
  <2>1. Unmoved /\ cp3'.left = cp3.left
    <3>1. cp3.state \in Handshaking /\ cp3.left > 0
      BY <1>0 DEF Hand, Handshaking
    <3>2. Unmoved
      BY <1>0, <1>1, <3>1, HostTimeUnmoved DEF Inv
    <3> QED BY <3>1, <3>2 DEF Unmoved
  <2> QED BY <2>1 DEF Unmoved, DoingF, Hand, Queued, Going, Finishing, HasJob, Works, link
<1>2. CASE ~HostTime /\ Queued("finished") /\ keys.hs = cur /\ w.pc = "idle"
  <2>1. TakeJob /\ inbox' = inbox
    BY <1>2, MovesByPlace DEF Quietly
  <2>2. Going("finished")' /\ w'.pc = "run" /\ UNCHANGED <<link, cp2, cp3, keys>>
    BY <1>2, <2>1, TakenGoing DEF Cp3Modes
  <2> QED BY <1>0, <1>2, <2>1, <2>2 DEF DoingF, Hand, link
<1>3. CASE ~HostTime /\ Queued("finished") /\ keys.hs = cur /\ Finishing
  <2>1. /\ inbox' = inbox /\ w'.pc = "idle" /\ UNCHANGED <<link, cp2, keys, slot>> /\ Hand'
        /\ cp3'.state = cp3.state /\ cp3'.worker = cp3.worker
    BY <1>0, <1>3, FinishingMoves
  <2> QED BY <1>0, <1>3, <2>1 DEF DoingF, Queued, HasJob, link
<1>4. CASE /\ ~HostTime /\ Going("finished")
           /\ w.pc = "run" => keys.hs = cur
           /\ w.pc = "store" => w.hs = cur
           /\ w.pc \in {"done", "result"} => keys.app = cur
  <2>1. /\ w.pc \in {"run", "store", "done", "result"} /\ w.mode = "finished" /\ w.good /\ w.fresh
        /\ ~slot.pending
    BY <1>0, <1>4 DEF Going, Works, Busy, Computing, JobOfLink
  <2>2. CASE w.pc = "run"
    <3>1. FinishedTake /\ inbox' = inbox /\ keys.hs = cur
      BY <1>4, <2>1, <2>2, MovesByPlace DEF Quietly, Cp2Compute, Cp3Compute, Cp4Check
    <3>2. /\ w'.pc = "store" /\ w'.mode = "finished" /\ w'.good /\ w'.fresh /\ w'.hs = cur
          /\ UNCHANGED <<link, cp2, cp3, slot>>
      BY <1>0, <2>1, <3>1 DEF FinishedTake, Workers
    <3> QED BY <1>0, <2>1, <3>1, <3>2 DEF DoingF, Hand, Going, Works, Busy, Computing, link
  <2>3. CASE w.pc = "store"
    <3>1. FinishedStore /\ inbox' = inbox /\ w.hs = cur
      BY <1>4, <2>3, MovesByPlace DEF Quietly
    <3>2. /\ w'.pc = "done" /\ w'.mode = "finished" /\ w'.good /\ w'.fresh /\ w'.ok
          /\ UNCHANGED <<link, cp2, cp3, slot>>
      BY <1>0, <2>1, <3>1 DEF FinishedStore, Workers
    <3>3. keys'.app = cur
      BY <1>0, <2>1, <3>1 DEF FinishedStore, KeyRecs
    <3> QED BY <1>0, <2>1, <3>1, <3>2, <3>3 DEF DoingF, Hand, Going, Works, Busy, Computing, link
  <2>4. CASE w.pc = "done"
    <3>1. JobDone /\ inbox' = inbox
      BY <1>4, <2>4, MovesByPlace DEF Quietly
    <3>2. Going("finished")' /\ w'.pc = "result" /\ UNCHANGED <<link, cp2, cp3, keys>>
      BY <1>4, <2>4, <3>1, DoneGoing
    <3> QED BY <1>0, <1>4, <2>4, <3>1, <3>2 DEF DoingF, Hand, link
  <2>5. CASE w.pc = "result"
    <3>1. Deliver3 /\ keys.app = cur /\ w.ok
      BY <1>0, <1>4, <2>1, <2>5 DEF Hand, Deliver3, Live3, Linked, Expected, Going
    <3>2. FinishedP(TRUE, FALSE) /\ Sends(Frame("FINISHED_P", keys.app, 0))
      <4>1. ~Expected1(~Deliver3)
        BY <3>1 DEF Expected1, Disturbs
      <4> QED BY <1>4, <2>1, <2>5, <3>1, <4>1, MovesByPlace DEF Quietly, Cp2Result, Cp3Result, Cp4Result
    <3>3. /\ keys' = [keys EXCEPT !.secure = TRUE, !.rx = 0, !.tx = 0]
          /\ cp3' = [Delivered(cp3) EXCEPT !.state = "APP_SECURE"]
          /\ w' = Sleeping /\ UNCHANGED <<slot, link, cp2>>
      BY <1>0, <3>1, <3>2 DEF FinishedP
    <3>4. keys'.app = cur /\ keys'.rx = 0 /\ keys'.tx = 0 /\ ~keys'.pend
      BY <1>0, <3>1, <3>3 DEF KeyRecs
    <3>5. /\ cp3'.state = "APP_SECURE" /\ cp3'.conn = cp3.conn /\ cp3'.gen = cp3.gen /\ ~cp3'.worker
          /\ ~cp3'.delivery /\ w'.pc = "idle"
      BY <1>0, <3>3 DEF Cp3Recs, Delivered, Sleeping
    <3>6. ~slot.active
      BY <1>0, <2>1, <2>5 DEF SlotTaken, Computing
    <3>7. Sent("FINISHED_P", 0)
      BY <3>1, <3>2 DEF Sent, Sends
    <3> QED BY <1>0, <2>1, <3>3, <3>4, <3>5, <3>6, <3>7 DEF Rests, Secure, Hand, AtRest, SlotFree, link
  <2> QED BY <2>1, <2>2, <2>3, <2>4, <2>5
<1> QED BY <1>1, <1>2, <1>3, <1>4 DEF DoingF

(* A secure session rests until a PING comes. *)
LEMMA RestsMoves ==
  ASSUME Inv, Up, NEW k \in Nat, Rests(k), PeripheralNext \/ TimePasses, faults \in Int, faults' = faults
  PROVE  UNCHANGED link /\ inbox' = inbox /\ Rests(k)'
<1>1. HostTime
  BY MovesByPlace DEF Rests, AtRest, SlotFree, Quietly, TakeJob
<1>2. Unmoved
  BY <1>1, HostTimeUnmoved DEF Inv, Up, Rests, Secure, Handshaking
<1> QED BY <1>2 DEF Unmoved, Rests, Secure, AtRest, SlotFree, link
(* A PING of an undisturbed run comes to its PONG. *)
LEMMA PingedMoves ==
  ASSUME Inv, Up, NEW k \in Nat, Pinged(k), PeripheralNext \/ TimePasses, faults \in Int, faults' = faults
  PROVE  UNCHANGED link /\ ((inbox' = inbox /\ Pinged(k)') \/ (Sent("PONG", k) /\ Counts(k)'))
<1>0. JobTypes /\ JobOfLink /\ cur # 0 /\ l4 /\ notify /\ notice = "no" /\ keys.secure /\ keys.pend
      /\ Secure(k) /\ slot.fresh
  BY JobTyped DEF Inv, SecretInv, KeysOfThisLink, Up, Pinged, Secure
<1>l. Live4
  BY <1>0 DEF Live4, Linked, Secure
<1> USE DEF JobTypes
<1>1. CASE HostTime
  <2>1. Unmoved
    BY <1>0, <1>1, HostTimeUnmoved DEF Inv, Secure, Handshaking
  <2> QED BY <2>1 DEF Unmoved, Pinged, Secure, Queued, Going, Telling, HasJob, Works, link
<1>2. CASE ~HostTime /\ Queued("cp4") /\ w.pc = "idle" /\ cp3.worker /\ ~keys.ready
  <2>1. TakeJob /\ inbox' = inbox
    BY <1>2, MovesByPlace DEF Quietly
  <2>2. Going("cp4")' /\ w'.pc = "run" /\ slot'.fresh /\ UNCHANGED <<link, cp2, cp3, keys>>
    BY <1>2, <2>1, TakenGoing DEF Cp3Modes
  <2> QED BY <1>0, <1>2, <2>1, <2>2 DEF Pinged, Secure, link
<1>3. CASE ~HostTime /\ Going("cp4") /\ cp3.worker /\ (keys.ready <=> w.pc \in {"done", "result"})
  <2>1. /\ w.pc \in {"run", "open", "opened", "seal", "done", "result"} /\ w.mode = "cp4" /\ w.good /\ w.fresh
        /\ ~slot.pending
    BY <1>0, <1>3 DEF Going, Works, Busy, Computing, JobOfLink
  <2>k. /\ w' \in Workers /\ w'.pc \in {"open", "opened", "seal"} /\ w'.mode = "cp4" /\ w'.good /\ w'.fresh
        /\ ~keys.ready /\ inbox' = inbox /\ UNCHANGED <<link, cp2, cp3, keys, slot>>
        => inbox' = inbox /\ UNCHANGED link /\ Pinged(k)'
    BY <1>0, <1>3, <2>1 DEF Pinged, Secure, Going, Works, Busy, Computing, link
  <2>2. CASE w.pc = "run"
    <3>1. Cp4Check("run", "open") /\ inbox' = inbox
      BY <1>3, <2>1, <2>2, MovesByPlace DEF Quietly, Cp2Compute, Cp3Compute, FinishedTake
    <3>2. w' = [w EXCEPT !.pc = "open"] /\ UNCHANGED <<link, cp2, cp3, keys, slot>>
      BY <1>3, <1>l, <3>1 DEF Cp4Check
    <3> QED BY <1>0, <1>3, <2>1, <2>2, <2>k, <3>1, <3>2 DEF Workers, Pcs, Computing
  <2>3. CASE w.pc = "open"
    <3>1. Cp4Open /\ inbox' = inbox
      BY <1>3, <2>3, MovesByPlace DEF Quietly
    <3>2. w' = [w EXCEPT !.pc = "opened", !.app = keys.app, !.tx = keys.tx]
          /\ UNCHANGED <<link, cp2, cp3, keys, slot>>
      BY <1>0, <1>3, <2>1, <2>3, <3>1 DEF Cp4Open
    <3> QED BY <1>0, <1>3, <2>1, <2>3, <2>k, <3>1, <3>2 DEF Workers, Pcs, Computing, KeyRecs
  <2>4. CASE w.pc = "opened"
    <3>1. Cp4Check("opened", "seal") /\ inbox' = inbox
      BY <1>3, <2>4, MovesByPlace DEF Quietly
    <3>2. w' = [w EXCEPT !.pc = "seal"] /\ UNCHANGED <<link, cp2, cp3, keys, slot>>
      BY <1>3, <1>l, <3>1 DEF Cp4Check
    <3> QED BY <1>0, <1>3, <2>1, <2>4, <2>k, <3>1, <3>2 DEF Workers, Pcs, Computing
  <2>5. CASE w.pc = "seal"
    <3>1. Cp4Seal /\ inbox' = inbox
      BY <1>3, <2>5, MovesByPlace DEF Quietly
    <3>2. /\ keys' = [keys EXCEPT !.ready = TRUE]
          /\ w' = [w EXCEPT !.pc = "done", !.ok = TRUE, !.app = 0, !.tx = 0]
          /\ UNCHANGED <<link, cp2, cp3, slot>>
      BY <1>0, <2>1, <3>1 DEF Cp4Seal
    <3>3. w'.pc = "done" /\ w'.mode = "cp4" /\ w'.good /\ w'.fresh /\ w'.ok
      BY <1>0, <2>1, <3>2 DEF Workers
    <3>4. keys'.ready /\ keys'.pend /\ keys'.app = keys.app /\ keys'.rx = keys.rx /\ keys'.tx = keys.tx
      BY <1>0, <3>2 DEF KeyRecs
    <3> QED BY <1>0, <1>3, <2>1, <3>1, <3>2, <3>3, <3>4 DEF Pinged, Secure, Going, Works, Busy, Computing, link
  <2>6. CASE w.pc = "done"
    <3>1. JobDone /\ inbox' = inbox
      BY <1>3, <2>6, MovesByPlace DEF Quietly
    <3>2. Going("cp4")' /\ w'.pc = "result" /\ slot'.fresh /\ UNCHANGED <<link, cp2, cp3, keys>>
      BY <1>0, <1>3, <2>6, <3>1, DoneGoing
    <3> QED BY <1>0, <1>3, <2>6, <3>1, <3>2 DEF Pinged, Secure, link
  <2>7. CASE w.pc = "result"
    <3>1. Cp4Result /\ inbox' = inbox /\ w.ok
      BY <1>3, <2>1, <2>7, MovesByPlace DEF Quietly, Cp2Result, Cp3Result, FinishedP, Going
    <3>2. /\ cp3' = [cp3 EXCEPT !.worker = FALSE, !.delivery = TRUE]
          /\ w' = [[w EXCEPT !.pc = "notify"] EXCEPT !.conn = cp3.conn] /\ UNCHANGED <<link, cp2, keys, slot>>
      BY <1>3, <1>l, <3>1 DEF Cp4Result
    <3>3. w'.pc = "notify" /\ w'.mode = "cp4" /\ w'.ok /\ w'.conn = cur
      BY <1>0, <2>1, <3>1, <3>2 DEF Workers, Secure
    <3>4. /\ ~cp3'.worker /\ cp3'.delivery /\ cp3'.state = cp3.state /\ cp3'.conn = cp3.conn
          /\ cp3'.gen = cp3.gen
      BY <1>0, <3>2 DEF Cp3Recs
    <3> QED BY <1>0, <1>3, <2>1, <2>7, <3>1, <3>2, <3>3, <3>4 DEF Pinged, Secure, Telling, link
  <2> QED BY <2>1, <2>2, <2>3, <2>4, <2>5, <2>6, <2>7
<1>4. CASE ~HostTime /\ Telling("cp4") /\ keys.ready /\ ~cp3.worker /\ cp3.delivery
  <2>1. w.pc = "notify" /\ w.mode = "cp4" /\ w.conn = cur /\ ~slot.pending
    BY <1>4 DEF Telling
  <2>2. Cp4Notify(TRUE) /\ Sends(Frame("PONG", keys.app, keys.tx))
    <3>1. ~Expected1(~(w.conn # 0 /\ w.conn = cp3.conn /\ Live4))
      BY <1>0, <1>l, <2>1 DEF Expected1, Disturbs, Secure
    <3>2. ~Cp2Notify(TRUE) /\ ~Cp2Notify(FALSE) /\ ~Cp3Notify(TRUE) /\ ~Cp3Notify(FALSE)
      BY <2>1 DEF Cp2Notify, Cp3Notify
    <3> QED BY <1>4, <2>1, <3>1, <3>2, MovesByPlace
  <2>3. Sent("PONG", k)
    BY <1>0, <2>2 DEF Sends, Sent, Secure
  <2>4. w'.pc = "finish" /\ w'.mode = "cp4" /\ w'.sent /\ w'.conn = cur /\ UNCHANGED <<link, cp2, cp3, keys, slot>>
    BY <1>0, <2>1, <2>2 DEF Cp4Notify, Workers
  <2>5. ~slot.active
    BY <1>0, <2>1 DEF SlotTaken, Computing
  <2> QED BY <1>0, <1>4, <2>1, <2>3, <2>4, <2>5 DEF Counts, Secure, SlotFree, link
<1> QED BY <1>1, <1>2, <1>3, <1>4 DEF Pinged

(* And is counted, once its PONG has been queued. *)
LEMMA CountsMoves ==
  ASSUME Inv, Up, NEW k \in Nat, k < SEQ_MAX, Counts(k), PeripheralNext \/ TimePasses,
         faults \in Int, faults' = faults
  PROVE  UNCHANGED link /\ inbox' = inbox /\ (Counts(k)' \/ Rests(k + 1)')
<1>0. JobTypes /\ cur # 0 /\ l4 /\ notify /\ notice = "no" /\ keys.secure /\ keys.pend
      /\ Secure(k) /\ slot.fresh
  BY JobTyped DEF Inv, SecretInv, KeysOfThisLink, Up, Counts, Secure
<1>l. Live4
  BY <1>0 DEF Live4, Linked, Secure
<1> USE DEF JobTypes
<1>1. CASE HostTime
  <2>1. Unmoved
    BY <1>0, <1>1, HostTimeUnmoved DEF Inv, Secure, Handshaking
  <2> QED BY <2>1 DEF Unmoved, Counts, Secure, SlotFree, link
<1>2. CASE ~HostTime
  <2>1. Cp4Finish /\ inbox' = inbox
    BY <1>2, MovesByPlace DEF Counts, Quietly, Cp2Finish, Cp3Finish
  <2>2. Commits4
    BY <1>0, <1>l DEF Commits4, Counts, Secure
  <2>3. /\ keys' = Counted(keys) /\ cp3' = [cp3 EXCEPT !.delivery = FALSE] /\ w' = Sleeping
        /\ UNCHANGED <<slot, link, cp2>>
    BY <2>1, <2>2 DEF Cp4Finish
  <2>4. keys'.rx = k + 1 /\ keys'.tx = k + 1 /\ ~keys'.pend /\ keys'.app = keys.app
    BY <1>0, <2>3 DEF Counted, KeyRecs, Secure
  <2>5. /\ cp3'.state = cp3.state /\ cp3'.conn = cp3.conn /\ cp3'.gen = cp3.gen /\ cp3'.worker = cp3.worker
        /\ ~cp3'.delivery /\ w'.pc = "idle"
    BY <1>0, <2>3 DEF Cp3Recs, Sleeping
  <2> QED BY <1>0, <2>1, <2>3, <2>4, <2>5 DEF Counts, Rests, Secure, AtRest, SlotFree, link
<1> QED BY <1>1, <1>2
-----------------------------------------------------------------------------
(* What a step carries over: base stays or is given up, only a PING that is *)
(* denied sets early, and a process that has ended stays so.                *)
Carried ==
    /\ c'.base \in {c.base, -1} /\ faults' \in {faults, faults + 1}
    /\ c'.early = c.early \/ (c.pc \notin Done /\ c'.pc = "cleanup")
    /\ c.pc \in Done => c'.pc \in Done
    /\ c'.pc \in {"exit", "connect"} => c' = c \/ Report

(* The end of a run. *)
LEMMA EndsCarried ==
  ASSUME c \in Processes, c.pc \notin Done, faults' \in {faults, faults + 1}, NEW v \in Verdicts, NEW e,
         c' \in {Ends(v), [Ends(v) EXCEPT !.base = -1], [Ends(v) EXCEPT !.early = e]}
  PROVE  Carried
<1>1. Ends(v) \in Processes /\ Ends(v).pc = "cleanup" /\ Ends(v).base = c.base
  BY MovesTyped, KeptFields DEF Kept
<1>2. c'.pc = "cleanup" /\ c'.base \in {c.base, -1}
  BY <1>1 DEF Processes
<1> QED BY <1>2 DEF Carried

(* A change of place. *)
LEMMA ToCarried ==
  ASSUME c \in Processes, c.pc \notin Done, faults' \in {faults, faults + 1},
         NEW pc \in Places, pc \notin {"exit", "connect"}, NEW t, NEW h, NEW n, NEW l, NEW f, NEW b \in {c.base, -1},
         c' \in {To(pc), [To(pc) EXCEPT !.then = t], [To(pc) EXCEPT !.hs = h], [To(pc) EXCEPT !.rx = n],
                 [To(pc) EXCEPT !.link = l, !.then = t], [To(pc) EXCEPT !.link = l, !.then = t, !.base = b],
                 [To(pc) EXCEPT !.cold = f, !.link = l, !.unpair = FALSE, !.base = b],
                 [[c EXCEPT !.tx = n] EXCEPT !.pc = pc]}
  PROVE  Carried
<1> DEFINE d == To(pc)
<1>1. d \in Processes /\ d.pc = pc /\ d.base = c.base /\ d.early = c.early
  BY MovesTyped, KeptFields DEF KeptAll, Kept
<1>2. c' = [[c EXCEPT !.tx = n] EXCEPT !.pc = pc] => c'.pc = pc /\ c'.base = c.base /\ c'.early = c.early
  BY DEF Processes
<1> HIDE DEF d
<1>3. c'.pc = pc /\ c'.base \in {c.base, -1} /\ c'.early = c.early
  <2>1. CASE c' \in {d, [d EXCEPT !.then = t], [d EXCEPT !.hs = h], [d EXCEPT !.rx = n]}
    BY <1>1, <2>1 DEF Processes
  <2>2. CASE c' = [d EXCEPT !.link = l, !.then = t]
    BY <1>1, <2>2 DEF Processes
  <2>3. CASE c' = [d EXCEPT !.link = l, !.then = t, !.base = b]
    BY <1>1, <2>3 DEF Processes
  <2>4. CASE c' = [d EXCEPT !.cold = f, !.link = l, !.unpair = FALSE, !.base = b]
    BY <1>1, <2>4 DEF Processes
  <2> QED BY <1>2, <2>1, <2>2, <2>3, <2>4 DEF d
<1> QED BY <1>3 DEF Carried

(* Nothing of the process. *)
LEMMA StillCarried ==
  ASSUME c' = c, faults' \in {faults, faults + 1}
  PROVE  Carried
  BY DEF Carried

(* Every step of the exchange carries base and early over. *)
LEMMA ExchangeCarried ==
  ASSUME SystemTyped, faults' \in {faults, faults + 1},
         \/ StartNotify \/ Attest("attest1", "info1") \/ Attest("attest2", "info2") \/ Attested
         \/ Upload \/ SendStart \/ ReadyV1 \/ AcceptReady \/ SendFinishedC \/ AcceptFinishedP
         \/ Quiet \/ SendPing \/ AcceptPong \/ Settle
  PROVE  Carried
<1>0. c \in Processes
  BY DEF SystemTyped, ProcessTyped
<1>1. \A v \in Verdicts : c' = Ends(v) => c.pc \in Done \/ Carried
  BY <1>0, EndsCarried
<1>2. \A pc \in Exchange : c' = To(pc) => c.pc \in Done \/ Carried
  <2> TAKE pc \in Exchange
  <2>1. pc \in Places /\ pc \notin {"exit", "connect"}
    BY DEF Places, Exchange
  <2> QED BY <1>0, <2>1, ToCarried
<1>3. \A pc \in Exchange, h \in Sessions : c' = [To(pc) EXCEPT !.hs = h] => c.pc \in Done \/ Carried
  <2> TAKE pc \in Exchange, h \in Sessions
  <2>1. pc \in Places /\ pc \notin {"exit", "connect"}
    BY DEF Places, Exchange
  <2> QED BY <1>0, <2>1, ToCarried
<1>v. {"error", "ok", "passed"} \subseteq Verdicts
  BY DEF Verdicts
<1>4. CASE StartNotify
  <2>1. c.pc \notin Done
    BY <1>4 DEF StartNotify, At, Done
  <2>2. CASE c' = [c EXCEPT !.opened = TRUE]
    <3>1. c'.pc = c.pc /\ c'.base = c.base /\ c'.early = c.early
      BY <1>0, <2>2 DEF Processes
    <3> QED BY <2>1, <3>1, <1>4 DEF Carried, StartNotify, At
  <2>3. \/ c' = [c EXCEPT !.opened = TRUE] \/ c' = To(IF c.mode = "cp1" THEN "upload" ELSE "attest1")
        \/ c' = Ends("error")
    BY <1>4 DEF StartNotify, Writes, Fails, Calls, Step
  <2> QED BY <1>1, <1>2, <1>v, <2>1, <2>2, <2>3 DEF Exchange
<1>5. CASE Attest("attest1", "info1") \/ Attest("attest2", "info2")
  BY <1>1, <1>2, <1>v, <1>5 DEF Attest, Fails, Step, Exchange, At, Done
<1>6. CASE Attested
  <2>1. c' \in {To("upload"), To("quiet"), Ends("error")} \/ \E h \in Sessions : c' = [To("start") EXCEPT !.hs = h]
    <3>1. CASE c' = [To("start") EXCEPT !.hs = IF Handshakes THEN "WAIT_READY_CP3" ELSE @]
      <4>1. To("start").hs \in Sessions /\ "WAIT_READY_CP3" \in Sessions
        <5>1. To("start") \in Processes
          BY <1>0, MovesTyped DEF Places, Exchange
        <5> QED BY <5>1 DEF Processes, Sessions
      <4> QED BY <3>1, <4>1
    <3> QED BY <1>6, <3>1 DEF Attested, Receives, Step
  <2>2. c.pc \notin Done
    BY <1>6 DEF Attested, At, Done
  <2> QED BY <1>1, <1>2, <1>3, <1>v, <2>1, <2>2 DEF Exchange
<1>7. CASE Upload
  BY <1>1, <1>2, <1>v, <1>7 DEF Upload, Writes, Fails, Calls, Step, Exchange, At, Done
<1>8. CASE SendStart \/ SendFinishedC
  BY <1>1, <1>2, <1>v, <1>8 DEF SendStart, SendFinishedC, Submits, Fails, Step, Exchange, At, Done
<1>9. CASE ReadyV1 \/ Quiet \/ Settle
  BY <1>1, <1>2, <1>v, <1>9 DEF ReadyV1, Quiet, Settle, Receives, Step, Exchange, At, Done
<1>10. CASE AcceptReady \/ AcceptFinishedP
  BY <1>1, <1>3, <1>v, <1>10 DEF AcceptReady, AcceptFinishedP, Receives, Step, Exchange, At, Done, Sessions
<1>11. CASE SendPing
  <2>0. c.pc \notin Done /\ "pong" \in Places
    BY <1>11 DEF SendPing, At, Done, Places, Exchange
  <2>1. \/ c' = [[c EXCEPT !.tx = @ + 1] EXCEPT !.pc = "pong"]
        \/ c' = [Ends("error") EXCEPT !.early = cp3.delivery] \/ c' = Ends("error")
    BY <1>11 DEF SendPing, Fails, Calls, Step
  <2>2. CASE c' = [[c EXCEPT !.tx = @ + 1] EXCEPT !.pc = "pong"]
    BY <1>0, <2>0, <2>2, ToCarried
  <2>3. CASE c' = [Ends("error") EXCEPT !.early = cp3.delivery] \/ c' = Ends("error")
    BY <1>0, <1>v, <2>0, <2>3, EndsCarried
  <2> QED BY <2>1, <2>2, <2>3
<1>12. CASE AcceptPong
  <2> DEFINE p == IF c.rx + 1 = Rounds THEN "settle" ELSE "ping"
  <2>0. c.pc \notin Done /\ p \in Places /\ p \notin {"exit", "connect"}
    BY <1>12 DEF AcceptPong, At, Done, Places, Exchange
  <2>1. c' = [To(p) EXCEPT !.rx = @ + 1] \/ c' = Ends("error")
    BY <1>12 DEF AcceptPong, Receives, Step
  <2> HIDE DEF p
  <2>2. CASE c' = [To(p) EXCEPT !.rx = @ + 1]
    <3>1. c' = [To(p) EXCEPT !.rx = To(p).rx + 1]
      BY <2>2
    <3> QED BY <1>0, <2>0, <3>1, ToCarried
  <2> QED BY <1>1, <1>v, <2>0, <2>1, <2>2
<1> QED BY <1>4, <1>5, <1>6, <1>7, <1>8, <1>9, <1>10, <1>11, <1>12
(* And so does every other step but the first two of a process. *)
LEMMA ApproachCarried ==
  ASSUME SystemTyped, faults' \in {faults, faults + 1},
         \/ ClearDkBonds \/ AllDone \/ Inspect \/ EnsureConnected \/ PreL4Probes \/ Pair \/ PairReturns
         \/ PairTimesOut \/ RetireLink \/ VerifyClosed \/ StopNotify \/ Report
         \/ PairingNext \/ PeripheralNext \/ DisturbedNext,
         Heading
  PROVE  Carried
<1>0. c \in Processes
  BY DEF SystemTyped, ProcessTyped
<1>v. {"error", "ok", "passed"} \subseteq Verdicts /\ c.then \in Targets
  BY <1>0 DEF Verdicts, Processes
<1>1. \A v \in Verdicts : c' = Ends(v) => c.pc \in Done \/ Carried
  BY <1>0, EndsCarried
<1>2. \A pc \in {"ensure", "ceremony", "retire", "pair"} : c' = To(pc) => c.pc \in Done \/ Carried
  BY <1>0, ToCarried DEF Places
<1>3. \A t \in Targets : c' = [To("ensure") EXCEPT !.then = t] => c.pc \in Done \/ Carried
  BY <1>0, ToCarried DEF Places
<1>4. CASE ClearDkBonds \/ AllDone
  BY <1>4, StillCarried DEF ClearDkBonds, AllDone, system
<1>5. CASE Inspect
  <2>0. c.pc \notin Done
    BY <1>5 DEF Inspect, At, Done
  <2> DEFINE p == IF bonds.pc THEN "subscribe" ELSE "probe"
             b == IF bonds.pc = bonds.dk THEN To(p).base ELSE -1
  <2>1. \/ c' \in {Ends("error"), [Ends("error") EXCEPT !.base = -1]}
        \/ c' = [To("ensure") EXCEPT !.then = "inspect"]
        \/ c' = [To(p) EXCEPT !.cold = ~bonds.pc, !.link = cur, !.unpair = FALSE, !.base = b]
    BY <1>5 DEF Inspect, Step
  <2>2. p \in Places /\ p \notin {"exit", "connect"}
    BY DEF Places, Exchange
  <2>3. b \in {c.base, -1}
    BY <1>0, <2>2, KeptFields DEF KeptAll, Kept
  <2> HIDE DEF p, b
  <2>4. CASE c' = [To(p) EXCEPT !.cold = ~bonds.pc, !.link = cur, !.unpair = FALSE, !.base = b]
    BY <1>0, <2>0, <2>2, <2>3, <2>4, ToCarried
  <2>5. CASE c' \in {Ends("error"), [Ends("error") EXCEPT !.base = -1]}
    BY <1>0, <1>v, <2>0, <2>5, EndsCarried
  <2> QED BY <1>3, <2>0, <2>1, <2>4, <2>5 DEF Targets
<1>6. CASE EnsureConnected
  <2>0. c.pc \notin Done /\ c.then \in Places /\ c.then \notin {"exit", "connect"}
    BY <1>6, <1>v DEF EnsureConnected, At, Done, Heading, Targets, Places, Exchange
  <2> DEFINE b == IF AtRest THEN To(c.then).base ELSE -1
  <2>1. \/ c' = [To(c.then) EXCEPT !.link = cur, !.then = "none"]
        \/ c' = [To(c.then) EXCEPT !.link = gen + 1, !.then = "none", !.base = b]
    BY <1>6 DEF EnsureConnected, Step, Calls
  <2>2. b \in {c.base, -1}
    BY <1>0, <2>0, KeptFields DEF KeptAll, Kept
  <2> HIDE DEF b
  <2>3. CASE c' = [To(c.then) EXCEPT !.link = cur, !.then = "none"]
    BY <1>0, <2>0, <2>3, ToCarried
  <2>4. CASE c' = [To(c.then) EXCEPT !.link = gen + 1, !.then = "none", !.base = b]
    BY <1>0, <2>0, <2>2, <2>4, ToCarried
  <2> QED BY <2>1, <2>3, <2>4
<1>7. CASE PreL4Probes \/ VerifyClosed
  BY <1>1, <1>2, <1>v, <1>7 DEF PreL4Probes, VerifyClosed, Probes, Step, At, Done
<1>8. CASE Pair \/ RetireLink
  BY <1>1, <1>2, <1>3, <1>v, <1>8 DEF Pair, RetireLink, Step, Calls, At, Done, Targets
<1>9. CASE PairReturns
  BY <1>1, <1>2, <1>3, <1>v, <1>9 DEF PairReturns, At, Done, Targets
<1>10. CASE PairTimesOut
  <2>1. c' = [Ends("error") EXCEPT !.base = -1] /\ c.pc \notin Done
    BY <1>10 DEF PairTimesOut, At, Done
  <2> QED BY <1>0, <1>v, <2>1, EndsCarried
<1>11. CASE StopNotify
  <2>1. c' = To("report") /\ At("cleanup")
    BY <1>11 DEF StopNotify, Step, Calls
  <2>2. c'.pc = "report" /\ c'.base = c.base /\ c'.early = c.early
    BY <1>0, <2>1, KeptFields DEF KeptAll, Kept, Places
  <2> QED BY <2>2 DEF Carried, Done
<1>12. CASE Report
  <2> DEFINE x == Closed(c)
  <2>1. \E v : c' = [x EXCEPT !.pc = "exit", !.verdict = v]
    BY <1>12 DEF Report
  <2>2. x \in Processes /\ x.base = c.base /\ x.early = c.early
    BY <1>0, KeptFields DEF Kept
  <2> HIDE DEF x
  <2>3. c'.pc = "exit" /\ c'.base = c.base /\ c'.early = c.early
    BY <2>1, <2>2 DEF Processes
  <2> QED BY <1>12, <2>3 DEF Carried, Done
<1>13. CASE PairingNext
  <2>1. CASE c' = [c EXCEPT !.opened = TRUE] /\ At("ceremony")
    <3>1. c'.pc = c.pc /\ c'.base = c.base /\ c'.early = c.early
      BY <1>0, <2>1 DEF Processes
    <3> QED BY <2>1, <3>1 DEF Carried, At, Done
  <2> QED BY <1>13, <2>1, StillCarried DEF PairingNext, CeremonyStep, Pairs, PairsElsewhere, Refuses
<1>14. CASE PeripheralNext \/ TimePasses \/ FinishedLate \/ Downgraded \/ Unsolicited
  BY <1>14, StillCarried DEF PeripheralNext, WorkerMoves, Delivers, DeliveryFails, HostMoves, TimePasses,
                             FinishedLate, Downgraded, Unsolicited, Sends
<1>15. CASE Aborts
  BY <1>1, <1>v, <1>15 DEF Aborts, Exchange, Done
<1>16. CASE LinkLost
  <2>1. CASE c' = Closed(c)
    <3>1. c'.pc = c.pc /\ c'.base = c.base /\ c'.early = c.early
      BY <1>0, <2>1, KeptFields DEF Kept
    <3> QED BY <1>16, <3>1 DEF Carried, LinkLost
  <2> QED BY <1>16, <2>1, StillCarried DEF LinkLost
<1> QED BY <1>4, <1>5, <1>6, <1>7, <1>8, <1>9, <1>10, <1>11, <1>12, <1>13, <1>14, <1>15, <1>16 DEF DisturbedNext

(* Disturbances are counted one by one. *)
LEMMA OneFault ==
  ASSUME V1Next
  PROVE  faults' \in {faults, faults + 1}
<1> USE DEF Step, Calls, Disturbs, Expected1
<1>1. CASE NewRun \/ ClearDkBonds \/ AllDone
  BY <1>1 DEF NewRun, ClearDkBonds, AllDone, system
<1>2. CASE \/ ScanAndConnect \/ Inspect \/ EnsureConnected \/ PreL4Probes \/ Pair \/ PairReturns
           \/ PairTimesOut \/ RetireLink \/ VerifyClosed \/ StopNotify \/ Report
  BY <1>2 DEF ScanAndConnect, Inspect, EnsureConnected, PreL4Probes, Probes, Pair, PairReturns,
              PairTimesOut, RetireLink, VerifyClosed, StopNotify, Report
<1>3. CASE StartNotify \/ Upload \/ SendStart \/ SendFinishedC \/ SendPing
  BY <1>3 DEF StartNotify, Upload, SendStart, SendFinishedC, SendPing, Writes, Submits, Fails
<1>4. CASE Attest("attest1", "info1") \/ Attest("attest2", "info2")
  BY <1>4 DEF Attest, Fails
<1>5. CASE \/ Attested \/ ReadyV1 \/ AcceptReady \/ AcceptFinishedP \/ Quiet \/ AcceptPong
           \/ Settle
  BY <1>5 DEF Attested, ReadyV1, AcceptReady, AcceptFinishedP, Quiet, AcceptPong, Settle, Receives
<1>6. CASE PeripheralNext \/ PairingNext \/ DisturbedNext
  BY <1>6 DEF PeripheralNext, WorkerMoves, Delivers, DeliveryFails, HostMoves, PairingNext,
              CeremonyStep, Pairs, PairsElsewhere, Refuses, DisturbedNext, TimePasses,
              FinishedLate, LinkLost, Downgraded, Aborts, Unsolicited, Sends
<1> QED BY <1>1, <1>2, <1>3, <1>4, <1>5, <1>6 DEF V1Next, ProcessNext
(* What may happen while no process runs, or before it connects, brings no  *)
(* link and no notification.                                                *)
LEMMA BoundaryQuiet ==
  ASSUME BoundaryClear, c.pc \in {"exit", "connect"}, V1Next, ~ScanAndConnect
  PROVE  cur' = 0 /\ inbox' = <<>>
<1>0. cur = 0 /\ inbox = <<>> /\ ~notify
  BY DEF BoundaryClear
<1>1. CASE NewRun \/ ClearDkBonds \/ AllDone \/ CeremonyStep
  BY <1>0, <1>1 DEF NewRun, ClearDkBonds, AllDone, CeremonyStep, system, vars, link
<1>2. CASE WorkerMoves
  BY <1>0, <1>2 DEF WorkerMoves, TakeJob, Cp2Compute, Cp3Compute, FinishedTake, FinishedStore, Cp4Check,
             Cp4Open, Cp4Seal, JobDone, Cp2Result, Cp2Finish, Cp2Release, Cp3Result, Cp3Finish, Cp4Result,
             Cp4Finish, link
<1>3. CASE Delivers \/ FinishedLate
  BY <1>0, <1>3 DEF Delivers, FinishedLate, Cp2Notify, Current2, Cp3Notify, FinishedP, Deliver3, Live3, Cp4Notify,
                    Live4, Linked
<1>4. CASE DeliveryFails
  BY <1>0, <1>4 DEF DeliveryFails, Cp2Notify, Cp3Notify, FinishedP, Cp4Notify, link
<1>5. CASE HostMoves \/ TimePasses
  BY <1>0, <1>5 DEF HostMoves, TimePasses, SecurityChanged, TimerNext, TimeoutRuns, Timeout, Tick, link
<1>6. CASE Downgraded \/ Unsolicited \/ LinkLost
  BY <1>0, <1>6 DEF Downgraded, Unsolicited, LinkLost, SecurityLost, HostFree, Disconnected, Exchange
<1>9. CASE Aborts
  BY <1>0, <1>9 DEF Aborts, vars, link
<1>7. CASE Pairs \/ PairsElsewhere \/ Refuses
  BY <1>0, <1>7 DEF Pairs, PairsElsewhere, Refuses, At
<1>8. ~ProcessNext
  BY DEF ProcessNext, At, Inspect, EnsureConnected, PreL4Probes, Pair, PairReturns, PairTimesOut, RetireLink,
         VerifyClosed, StartNotify, Attest, Attested, Upload, SendStart, ReadyV1, AcceptReady, SendFinishedC,
         AcceptFinishedP, Quiet, SendPing, AcceptPong, Settle, StopNotify, Report
<1> QED BY <1>1, <1>2, <1>3, <1>4, <1>5, <1>6, <1>7, <1>8, <1>9
        DEF V1Next, PairingNext, PeripheralNext, DisturbedNext

(* The bonds stay a pair of flags. *)
LEMMA BondsKept ==
  ASSUME bonds \in [pc : BOOLEAN, dk : BOOLEAN], V1Next
  PROVE  bonds' \in [pc : BOOLEAN, dk : BOOLEAN]
<1> USE DEF Step, Calls, pairing
<1>1. CASE NewRun \/ ClearDkBonds \/ AllDone \/ Inspect
  BY <1>1 DEF NewRun, ClearDkBonds, AllDone, Inspect, system
<1>2. CASE \/ ScanAndConnect \/ EnsureConnected \/ PreL4Probes \/ Pair \/ PairReturns
           \/ PairTimesOut \/ RetireLink \/ VerifyClosed \/ StopNotify \/ Report
  BY <1>2 DEF ScanAndConnect, EnsureConnected, PreL4Probes, Probes, Pair, PairAsync, PairReturns, Stop,
              PairTimesOut, RetireLink, VerifyClosed, StopNotify, Report
<1>3. CASE StartNotify \/ Upload \/ SendStart \/ SendFinishedC \/ SendPing
  BY <1>3 DEF StartNotify, Upload, SendStart, SendFinishedC, SendPing, Writes, Submits, Fails
<1>4. CASE Attest("attest1", "info1") \/ Attest("attest2", "info2")
  BY <1>4 DEF Attest, Fails
<1>5. CASE \/ Attested \/ ReadyV1 \/ AcceptReady \/ AcceptFinishedP \/ Quiet \/ AcceptPong
           \/ Settle
  BY <1>5 DEF Attested, ReadyV1, AcceptReady, AcceptFinishedP, Quiet, AcceptPong, Settle, Receives
<1>6. CASE PairingNext
  <2>1. CeremonyStep \/ Refuses => bonds' = bonds
    BY DEF CeremonyStep, PairingRequested, StartDecision, Decide, Refuses, OsRefuses
  <2>2. Pairs \/ PairsElsewhere => bonds' = [pc |-> TRUE, dk |-> TRUE]
    BY DEF Pairs, OsPairs, PairsElsewhere, OsPairsElsewhere
  <2>3. [pc |-> TRUE, dk |-> TRUE] \in [pc : BOOLEAN, dk : BOOLEAN]
    OBVIOUS
  <2>4. bonds' \in {bonds, [pc |-> TRUE, dk |-> TRUE]}
    BY Zenon, <1>6, <2>1, <2>2 DEF PairingNext
  <2> QED BY <2>3, <2>4
<1>7. CASE PeripheralNext \/ DisturbedNext
  BY <1>7 DEF PeripheralNext, WorkerMoves, Delivers, DeliveryFails, HostMoves, DisturbedNext, TimePasses,
              FinishedLate, LinkLost, Downgraded, Aborts, Unsolicited, Sends
<1> QED BY <1>1, <1>2, <1>3, <1>4, <1>5, <1>6, <1>7 DEF V1Next, ProcessNext

(* The first two steps of a process: its arguments, then the link. *)
LEMMA RunBegins ==
  ASSUME SystemTyped
  PROVE  /\ NewRun => /\ c'.pc = "connect" /\ c'.base = -1 /\ c'.hs = "NEW" /\ ~c'.early
         /\ ScanAndConnect => /\ c'.pc = "inspect" /\ c'.base = (IF AtRest THEN faults ELSE -1)
                              /\ c'.early = c.early /\ c'.hs = c.hs /\ c'.neg = c.neg
<1>1. c \in Processes
  BY DEF SystemTyped, ProcessTyped
<1>2. NewRun => c'.pc = "connect" /\ c'.base = -1 /\ c'.hs = "NEW" /\ ~c'.early
  BY DEF NewRun, NoProcess
<1> DEFINE b == IF AtRest THEN faults ELSE -1
<1>3. ScanAndConnect => c' = [To("inspect") EXCEPT !.base = b]
  BY DEF ScanAndConnect
<1> HIDE DEF b
<1>4. /\ To("inspect") \in Processes /\ To("inspect").pc = "inspect" /\ To("inspect").early = c.early
      /\ To("inspect").hs = c.hs /\ To("inspect").neg = c.neg
  BY <1>1, MovesTyped, KeptFields DEF KeptAll, Kept, Places
<1>5. ScanAndConnect => /\ c'.pc = "inspect" /\ c'.base = b /\ c'.early = c.early /\ c'.hs = c.hs
                        /\ c'.neg = c.neg
  BY <1>3, <1>4 DEF Processes
<1> QED BY <1>2, <1>5 DEF b

(* So a process begins and ends clear, however it goes. *)
LEMMA BoundaryStep ==
  ASSUME CentralInv, BoundaryClear, [V1Next]_system
  PROVE  BoundaryClear'
<1>0. SystemTyped /\ Typed /\ Heading /\ c \in Processes /\ faults \in Nat /\ c.base \in Int
  BY DEF CentralInv, SystemTyped, ProcessTyped, ConsentInv, Processes
<1>1. CASE UNCHANGED system
  BY <1>1 DEF system, vars, link, pairing, BoundaryClear, At
<1>2. CASE V1Next
  <2>1. notify' => cur' # 0
    <3>1. [Next]_vars
      BY <1>0, <1>2, PeripheralStep
    <3>2. cur' = cur /\ (notify' => notify \/ cur # 0) => (notify' => cur' # 0)
      BY DEF BoundaryClear
    <3> QED BY <3>1, <3>2, LinkMoves
  <2>2. bonds' \in [pc : BOOLEAN, dk : BOOLEAN]
    BY <1>2, BondsKept DEF BoundaryClear
  <2>3. faults' \in {faults, faults + 1}
    BY <1>2, OneFault
  <2>4. CASE NewRun
    <3>1. cur' = 0 /\ inbox' = <<>>
      BY <1>2, <2>4, BoundaryQuiet DEF NewRun, ScanAndConnect, At
    <3> QED BY <1>0, <2>1, <2>2, <2>3, <2>4, <3>1, RunBegins DEF BoundaryClear, At
  <2>5. CASE ScanAndConnect
    <3>1. faults' = faults /\ ~c.early
      BY <2>5 DEF ScanAndConnect, BoundaryClear, At, Done
    <3> QED BY <1>0, <2>1, <2>2, <2>5, <3>1, RunBegins DEF BoundaryClear, At
  <2>6. CASE ~NewRun /\ ~ScanAndConnect
    <3>1. Carried
      BY <1>0, <1>2, <2>3, <2>6, ExchangeCarried, ApproachCarried DEF V1Next, ProcessNext
    <3>2. c'.pc \in {"exit", "connect"} => cur' = 0 /\ inbox' = <<>>
      <4>1. CASE Report
        BY <4>1 DEF Report, Disconnected, vars, link
      <4>2. CASE c' = c
        BY <1>2, <2>6, <4>2, BoundaryQuiet
      <4> QED BY <3>1, <4>1, <4>2 DEF Carried
    <3>3. c'.pc = "connect" => c'.base = -1 /\ c'.hs = "NEW"
      <4>1. Report => c'.pc # "connect"
        <5> DEFINE x == Closed(c)
        <5>1. x \in Processes
          BY <1>0, MovesTyped
        <5>2. Report => \E v : c' = [x EXCEPT !.pc = "exit", !.verdict = v]
          BY DEF Report
        <5> HIDE DEF x
        <5> QED BY <5>1, <5>2 DEF Processes
      <4> QED BY <3>1, <4>1 DEF Carried, BoundaryClear, At
    <3>4. c'.early => c'.pc \in Done
      BY <3>1 DEF Carried, BoundaryClear, Done
    <3>5. c'.base <= faults'
      BY <1>0, <2>3, <3>1 DEF Carried, BoundaryClear
    <3> QED BY <2>1, <2>2, <3>2, <3>3, <3>4, <3>5 DEF BoundaryClear, At
  <2> QED BY <2>4, <2>5, <2>6
<1> QED BY <1>1, <1>2
-----------------------------------------------------------------------------
(* An undisturbed process where it should be; and where it comes to. *)
Standing ==
    /\ Inv /\ CentralInv /\ PongInv /\ AgreeInv /\ PassInv /\ FlagsEarned /\ BoundaryClear
    /\ Undisturbed /\ CleanAt
LEMMA Lands ==
  /\ c'.pc = "connect" => CleanAt'
  /\ c'.pc = "inspect" /\ Gated1' => CleanAt'
  /\ c'.pc = "ensure" /\ EnsureAt' => CleanAt'
  /\ c'.pc = "probe" /\ Unbonded' => CleanAt'
  /\ c'.pc = "pair" /\ Unbonded' /\ c'.neg # "pre-l4-only" => CleanAt'
  /\ c'.pc = "ceremony" /\ CeremonyAt' => CleanAt'
  /\ c'.pc \in {"retire", "verify"} /\ Gated1' /\ Refused1' => CleanAt'
  /\ c'.pc = "subscribe" /\ Unheard' /\ OnLink' /\ Bonded' => CleanAt'
  /\ c'.pc \in {"attest1", "upload"} /\ Waits' /\ Up1' => CleanAt'
  /\ c'.pc = "last" /\ Waits' /\ Up1' /\ ct' = "RECEIVING" => CleanAt'
  /\ c'.pc = "attest2" /\ Waits' /\ Up1' /\ ct' = "READY" => CleanAt'
  /\ c'.pc = "info1" /\ Fresh' /\ c'.hs = "NEW" /\ Up1' /\ inbox' = <<SecInfo>> => CleanAt'
  /\ c'.pc = "info2" /\ Fresh' /\ c'.hs = "NEW" /\ Up1' /\ ct' = "READY" /\ inbox' = <<SecInfo>> => CleanAt'
  /\ c'.pc = "start" /\ StartAt' => CleanAt'
  /\ c'.pc = "ready" /\ ReadyAt' => CleanAt'
  /\ c'.pc = "confirm" /\ ConfirmAt' => CleanAt'
  /\ c'.pc = "finished" /\ FinishedAt' => CleanAt'
  /\ c'.pc = "quiet" /\ QuietAt' => CleanAt'
  /\ c'.pc = "ping" /\ PingAt' => CleanAt'
  /\ c'.pc = "pong" /\ PongAt' => CleanAt'
  /\ c'.pc = "settle" /\ SettleAt' => CleanAt'
  /\ c'.pc \in {"cleanup", "report"} /\ CleanupAt' => CleanAt'
  /\ c'.pc = "exit" /\ ExitZero' => CleanAt'
  BY DEF CleanAt, ApproachAt, UploadAt, ExchangeAt, EndAt, At, SecInfo, Frame

(* The Peripheral goes on while the process waits, or does something else.  *)
(* Nothing of the handshake has begun.                                      *)
LEMMA BeforeClean ==
  ASSUME Standing, PeripheralNext \/ TimePasses, faults' = faults, c.pc \in Before
  PROVE  CleanAt'
<1>0. /\ Inv /\ CleanAt /\ faults \in Int
  BY DEF Standing, CentralInv, SystemTyped, ProcessTyped
<1>1. Fresh
  BY <1>0 DEF Before, CleanAt, ApproachAt, UploadAt, ExchangeAt, At, Gated1, Unheard, Waits, EnsureAt, Unbonded,
              CeremonyAt, StartAt
<1>2. Fresh' /\ Unmoved
  BY <1>0, <1>1, FreshMoves
<1>3. /\ UNCHANGED <<cur, gen, notify, l4, notice, ct, inbox, c, cer, os, bonds>> /\ Fresh'
  BY <1>2, MovesByPlace DEF Unmoved, link, transfer, pairing
<1>4. /\ Waits => Waits'
      /\ Unheard => Unheard'
      /\ Gated1 => Gated1'
      /\ Unbonded => Unbonded'
      /\ Refused1 => Refused1'
      /\ Bonded => Bonded'
      /\ Up1 => Up1'
      /\ OnLink => OnLink'
  BY <1>3 DEF Waits, Unheard, Gated1, Unbonded, Refused1, Bonded, Up1, OnLink, Up, Same
<1>5. EnsureAt => EnsureAt'
  BY <1>3, <1>4 DEF EnsureAt
<1>6. CeremonyAt => CeremonyAt'
  BY <1>3, <1>4 DEF CeremonyAt, Met, Answered, Returned
<1>7. StartAt => StartAt'
  BY <1>3, <1>4 DEF StartAt, Handshakes
<1>8. ApproachAt' /\ UploadAt' /\ (At("start") => StartAt)'
  BY <1>0, <1>3, <1>4, <1>5, <1>6, <1>7 DEF CleanAt, ApproachAt, UploadAt, ExchangeAt, At
<1> QED BY <1>3, <1>8 DEF CleanAt, ExchangeAt, EndAt, At, Before
(* The Peripheral itself never drops the link. *)
LEMMA LinkStays ==
  ASSUME PeripheralNext \/ TimePasses
  PROVE  cur' = cur /\ (notice = "no" => UNCHANGED link)
<1>1. CASE WorkerMoves
  BY <1>1 DEF WorkerMoves, TakeJob, Cp2Compute, Cp3Compute, FinishedTake, FinishedStore, Cp4Check, Cp4Open,
              Cp4Seal, JobDone, Cp2Result, Cp2Finish, Cp2Release, Cp3Result, Cp3Finish, Cp4Result, Cp4Finish, link
<1>2. CASE Delivers \/ DeliveryFails
  BY <1>2 DEF Delivers, DeliveryFails, Cp2Notify, Cp3Notify, FinishedP, Cp4Notify, link
<1>3. CASE HostMoves \/ TimePasses
  BY <1>3 DEF HostMoves, TimePasses, SecurityChanged, TimerNext, TimeoutRuns, Timeout, Tick, link
<1> QED BY <1>1, <1>2, <1>3 DEF PeripheralNext

(* The counters of a secure session follow the rounds. *)
LEMMA SettledMoves ==
  ASSUME Inv, Up, NEW k \in 0 .. Rounds, Settled(k), PeripheralNext \/ TimePasses, faults \in Int, faults' = faults
  PROVE  UNCHANGED link /\ inbox' = inbox /\ Settled(k)'
<1>1. CASE Rests(k)
  BY <1>1, RestsMoves DEF Settled, Rounds
<1>2. CASE k > 0 /\ Counts(k - 1)
  <2>1. k - 1 \in Nat /\ k - 1 < SEQ_MAX /\ (k - 1) + 1 = k
    BY <1>2, V1CentralAssumption, HandshakeAssumption DEF Rounds
  <2> DEFINE j == k - 1
  <2>2. j \in Nat /\ j < SEQ_MAX /\ j + 1 = k /\ Counts(j)
    BY <1>2, <2>1
  <2> HIDE DEF j
  <2>3. UNCHANGED link /\ inbox' = inbox /\ (Counts(j)' \/ Rests(j + 1)')
    BY <2>2, CountsMoves
  <2> QED BY <1>2, <2>2, <2>3 DEF Settled, j
<1> QED BY <1>1, <1>2 DEF Settled

(* The process waits for an answer: the job goes on, or its answer comes.   *)
LEMMA AwaitClean ==
  ASSUME Standing, PeripheralNext \/ TimePasses, faults' = faults,
         c.pc \in {"ready", "confirm", "finished", "quiet", "ping", "pong", "settle"}
  PROVE  CleanAt'
<1>0. Inv /\ PongInv /\ CleanAt /\ faults \in Int /\ c' = c /\ c \in Processes
  <2>1. c' = c
    BY MovesByPlace
  <2> QED BY <2>1 DEF Standing, CentralInv, SystemTyped, ProcessTyped
<1>1. Up1 /\ Up /\ UNCHANGED link
  BY <1>0, LinkStays DEF CleanAt, ExchangeAt, At, ReadyAt, ConfirmAt, FinishedAt, QuietAt, PingAt, PongAt, SettleAt,
              InApp, Up1, Up
<1>2. Up1' /\ (Handshakes <=> Handshakes') /\ (InApp => InApp') /\ cur' = cur
  BY <1>0, <1>1 DEF Up1, Up, OnLink, Same, Handshakes, InApp, link
<1>3. \A x : Append(<<>>, x) = <<x>>
  OBVIOUS
<1>4. ASSUME NEW type, NEW seq, inbox = <<>>, Sent(type, seq) PROVE Answer(type, seq)'
  <2>1. inbox' = <<Frame(type, cur, seq)>>
    BY <1>3, <1>4 DEF Sent
  <2> QED BY <1>2, <2>1 DEF Answer, Frame
<1>5. ASSUME NEW type, NEW seq, inbox' = inbox, Answer(type, seq) PROVE Answer(type, seq)'
  BY <1>2, <1>5 DEF Answer, Frame
<1>6. CASE c.pc = "ready"
  <2>1. ReadyAt
    BY <1>0, <1>6 DEF CleanAt, ExchangeAt, At
  <2>2. CASE Handshakes
    <3>1. CASE inbox = <<>> /\ Doing3
      <4>1. (inbox' = <<>> /\ Doing3') \/ (Answer("READY_CP3", 0)' /\ Await')
        BY <1>0, <1>1, <1>4, <3>1, Doing3Moves
      <4> QED BY <1>0, <1>2, <1>6, <2>1, <2>2, <4>1, Lands DEF ReadyAt
    <3>2. CASE Answer("READY_CP3", 0) /\ Await
      <4>1. Answer("READY_CP3", 0)' /\ Await'
        BY <1>0, <1>1, <1>5, <3>2, AwaitMoves
      <4> QED BY <1>0, <1>2, <1>6, <2>1, <2>2, <4>1, Lands DEF ReadyAt
    <3> QED BY <2>1, <2>2, <3>1, <3>2 DEF ReadyAt
  <2>3. CASE ~Handshakes
    <3>1. CASE inbox = <<>> /\ Doing2
      <4>1. (inbox' = <<>> /\ Doing2') \/ (Answer("READY", 0)' /\ Over')
        BY <1>0, <1>1, <1>4, <3>1, Doing2Moves
      <4> QED BY <1>0, <1>2, <1>6, <2>1, <2>3, <4>1, Lands DEF ReadyAt
    <3>2. CASE Answer("READY", 0) /\ Over
      <4>1. Answer("READY", 0)' /\ Over'
        BY <1>0, <1>5, <3>2, OverMoves
      <4> QED BY <1>0, <1>2, <1>6, <2>1, <2>3, <4>1, Lands DEF ReadyAt
    <3> QED BY <2>1, <2>3, <3>1, <3>2 DEF ReadyAt
  <2> QED BY <2>2, <2>3
<1>7. CASE c.pc = "confirm"
  <2>1. ConfirmAt
    BY <1>0, <1>7 DEF CleanAt, ExchangeAt, At
  <2>2. inbox' = inbox /\ Await'
    BY <1>0, <1>1, <2>1, AwaitMoves DEF ConfirmAt
  <2> QED BY <1>0, <1>2, <1>7, <2>1, <2>2, Lands DEF ConfirmAt
<1>8. CASE c.pc = "finished"
  <2>1. FinishedAt
    BY <1>0, <1>8 DEF CleanAt, ExchangeAt, At
  <2>2. CASE inbox = <<>> /\ DoingF
    <3>1. (inbox' = <<>> /\ DoingF') \/ (Answer("FINISHED_P", 0)' /\ Rests(0)')
      BY <1>0, <1>1, <1>4, <2>2, DoingFMoves
    <3> QED BY <1>0, <1>2, <1>8, <2>1, <3>1, Lands DEF FinishedAt
  <2>3. CASE Answer("FINISHED_P", 0) /\ Rests(0)
    <3>1. Answer("FINISHED_P", 0)' /\ Rests(0)'
      BY <1>0, <1>1, <1>5, <2>3, RestsMoves
    <3> QED BY <1>0, <1>2, <1>8, <2>1, <3>1, Lands DEF FinishedAt
  <2> QED BY <2>1, <2>2, <2>3 DEF FinishedAt
<1>9. CASE c.pc = "quiet"
  <2>1. QuietAt
    BY <1>0, <1>9 DEF CleanAt, ExchangeAt, At
  <2>2. inbox' = inbox /\ Over'
    BY <1>0, <2>1, OverMoves DEF QuietAt
  <2>3. Handshakes => Rests(0)'
    BY <1>0, <1>1, <2>1, RestsMoves DEF QuietAt
  <2> QED BY <1>0, <1>2, <1>9, <2>1, <2>2, <2>3, Lands DEF QuietAt
<1>10. CASE c.pc \in {"ping", "settle"}
  <2>1. PingAt /\ c.tx \in 0 .. Rounds /\ (c.pc = "settle" => Complete1)
    BY <1>0, <1>10 DEF CleanAt, ExchangeAt, At, SettleAt, Standing, PassInv, RoundInv, Rounds, Processes
  <2>2. inbox' = inbox /\ Settled(c.tx)'
    <3>1. PICK k \in 0 .. Rounds : k = c.tx
      BY <2>1
    <3>2. Settled(k)
      BY <2>1, <3>1 DEF PingAt
    <3>3. inbox' = inbox /\ Settled(k)'
      BY <1>0, <1>1, <3>2, SettledMoves
    <3> QED BY <1>0, <3>1, <3>3
  <2>3. PingAt' /\ (Complete1 => Complete1')
    BY <1>0, <1>2, <2>1, <2>2 DEF PingAt, Complete1
  <2> QED BY <1>0, <1>10, <2>1, <2>3, Lands DEF SettleAt
<1>11. CASE c.pc = "pong"
  <2>1. PongAt /\ c.tx \in 0 .. Rounds /\ c.tx = c.rx + 1 /\ c.rx \in Nat
    BY <1>0, <1>11 DEF CleanAt, ExchangeAt, At, Standing, PassInv, RoundInv, Rounds, Processes
  <2>2. CASE inbox = <<>> /\ Pinged(c.rx)
    <3>1. (inbox' = <<>> /\ Pinged(c.rx)') \/ (Answer("PONG", c.rx)' /\ Counts(c.rx)')
      <4>0. PICK k \in Nat : k = c.rx
        BY <2>1
      <4>1. Pinged(k)
        BY <2>2, <4>0
      <4>2. (inbox' = inbox /\ Pinged(k)') \/ (Sent("PONG", k) /\ Counts(k)')
        BY <1>0, <1>1, <4>1, PingedMoves
      <4>3. Sent("PONG", k) => Answer("PONG", k)'
        BY <1>4, <2>2
      <4> QED BY <1>0, <2>2, <4>0, <4>2, <4>3
    <3>2. Counts(c.rx)' => Settled(c.tx)'
      <4>1. c'.tx > 0 /\ c'.tx - 1 = c'.rx
        BY <1>0, <2>1
      <4> QED BY <4>1 DEF Settled
    <3> QED BY <1>0, <1>2, <1>11, <2>1, <3>1, <3>2, Lands DEF PongAt
  <2>3. CASE Answer("PONG", c.rx) /\ Settled(c.tx)
    <3>0. PICK k \in 0 .. Rounds : k = c.tx
      BY <2>1
    <3>1. Settled(k)
      BY <2>3, <3>0
    <3>2. inbox' = inbox /\ Settled(k)'
      BY <1>0, <1>1, <3>1, SettledMoves
    <3>3. Answer("PONG", c.rx)'
      BY <1>0, <1>2, <2>3, <3>2 DEF Answer, Frame
    <3>4. Settled(c.tx)' /\ Answer("PONG", c.rx)'
      BY <1>0, <3>0, <3>2, <3>3
    <3> QED BY <1>0, <1>2, <1>11, <2>1, <3>4, Lands DEF PongAt
  <2> QED BY <2>1, <2>2, <2>3 DEF PongAt
<1> QED BY <1>6, <1>7, <1>8, <1>9, <1>10, <1>11
(* Wherever the process is. *)
LEMMA PeripheralClean ==
  ASSUME Standing, PeripheralNext \/ TimePasses, faults' = faults
  PROVE  CleanAt'
<1>0. Inv /\ CleanAt /\ c \in Processes
  BY DEF Standing, CentralInv, SystemTyped, ProcessTyped
<1>c. c' = c /\ cur' = cur
  BY MovesByPlace, LinkStays
<1>1. CASE c.pc \in {"cleanup", "report"}
  <2>1. CleanupAt
    BY <1>0, <1>1 DEF CleanAt, EndAt, At
  <2>2. Over => inbox' = inbox /\ Over'
    BY <1>0, OverMoves
  <2>3. CleanupAt'
    BY <1>c, <2>1, <2>2 DEF CleanupAt, ExitZero, Handshakes, Same, Complete1
  <2> QED BY <1>1, <1>c, <2>3, Lands
<1>2. CASE c.pc = "exit"
  BY <1>0, <1>2, <1>c, Lands DEF CleanAt, EndAt, At, ExitZero
<1>3. CASE c.pc = "connect"
  BY <1>3, <1>c, Lands
<1>4. c.pc \in Before \cup {"ready", "confirm", "finished", "quiet", "ping", "pong", "settle", "cleanup", "report",
                            "exit", "connect"}
  BY <1>0 DEF Processes, Places, Exchange, Before
<1> QED BY <1>1, <1>2, <1>3, <1>4, BeforeClean, AwaitClean

-----------------------------------------------------------------------------
(* A link begins or ends, and the Peripheral with nothing to do starts over. *)
LEMMA FreshLink ==
  ASSUME Inv, AtRest, ~Draining, cp2.conn = 0, Connected \/ (Disconnected /\ ct # "BUSY")
  PROVE  Fresh' /\ ~notify' /\ ~l4'
<1>0. JobTypes
  BY JobTyped
<1> USE DEF JobTypes
<1>1. /\ cp3' = [Failed(cp3) EXCEPT !.state = "IDLE"] /\ slot' = [slot EXCEPT !.fresh = FALSE]
      /\ w' = [w EXCEPT !.fresh = FALSE] /\ notice' = "no" /\ ~notify' /\ ~l4' /\ ct' # "BUSY"
      /\ cp2' \in {[cp2 EXCEPT !.valid = FALSE], [cp2 EXCEPT !.valid = FALSE, !.conn = 0]}
  BY DEF Connected, Disconnected, ForgetLink
<1>2. ~cp2'.active /\ cp2'.conn = 0
  BY <1>0, <1>1 DEF Cp2Recs, Draining
<1>3. w'.pc = "idle" /\ ~slot'.pending /\ ~slot'.active
  BY <1>0, <1>1 DEF Workers, Jobs, AtRest, SlotFree
<1>4. ~cp3'.worker /\ ~cp3'.delivery /\ cp3'.state = "IDLE"
  <2> DEFINE f == Failed(cp3)
  <2>1. f \in Cp3Recs /\ ~f.worker /\ ~f.delivery
    BY <1>0, FailedTyped DEF Draining
  <2>2. cp3' = [f EXCEPT !.state = "IDLE"]
    BY <1>1
  <2> HIDE DEF f
  <2> QED BY <2>1, <2>2 DEF Cp3Recs
<1> QED BY <1>1, <1>2, <1>3, <1>4 DEF Fresh, AtRest, SlotFree, Draining

(* A process meets the Peripheral at rest: nothing of an earlier one is     *)
(* left.                                                                    *)
LEMMA ConnectClean ==
  ASSUME Inv, CentralInv, FlagsEarned, BoundaryClear, ScanAndConnect, Undisturbed'
  PROVE  CleanAt'
<1>0. SystemTyped /\ faults \in Nat /\ gen \in Nat
  BY HandshakeAssumption DEF CentralInv, SystemTyped, ProcessTyped, Typed, HandshakeTypeOK, Conns
<1>1. AtRest
  BY <1>0, RunBegins DEF Undisturbed, ScanAndConnect
<1>2. ~Draining /\ cp2.conn = 0
  BY <1>1 DEF FlagsEarned, AtRest, SlotFree, HasJob, Works, Busy, Computing, Delivering, Draining
<1>3. Fresh' /\ ~notify' /\ ~l4' /\ cur' # 0
  <2>1. Connected /\ cur' = gen + 1
    BY DEF ScanAndConnect, Connected
  <2> QED BY <1>0, <1>1, <1>2, <2>1, FreshLink
<1>4. inbox' = <<>> /\ c'.hs = "NEW" /\ c'.pc = "inspect"
  BY <1>0, RunBegins DEF ScanAndConnect, BoundaryClear, At
<1> QED BY <1>3, <1>4, Lands DEF Gated1, Unheard, Waits

(* inspect_pairing: with the same bonds on both sides the process pairs, or *)
(* goes on to the exchange.                                                 *)
LEMMA InspectClean ==
  ASSUME Standing, Inspect, Undisturbed', faults' = faults
  PROVE  CleanAt'
<1>0. c \in Processes /\ Gated1 /\ faults \in Nat /\ bonds \in [pc : BOOLEAN, dk : BOOLEAN]
  BY DEF Standing, CentralInv, SystemTyped, ProcessTyped, CleanAt, ApproachAt, At, Inspect, BoundaryClear
<1>1. CASE bonds' = [bonds EXCEPT !.pc = FALSE] /\ c' = [To("ensure") EXCEPT !.then = "inspect"] /\ UNCHANGED <<vars, inbox>>
  <2>1. To("ensure") \in Processes /\ To("ensure").hs = c.hs
    BY <1>0, MovesTyped, KeptFields DEF KeptAll, Places
  <2>2. c'.pc = "ensure" /\ c'.then = "inspect" /\ c'.hs = c.hs
    BY <1>0, <1>1, <2>1, KeptFields DEF Processes, Places
  <2>3. Unheard' /\ ~l4'
    BY <1>0, <1>1, <2>2 DEF Gated1, Unheard, Waits, Fresh, AtRest, SlotFree, Draining, vars, link, transfer
  <2> QED BY <2>2, <2>3, Lands DEF EnsureAt
<1>2. CASE UNCHANGED <<vars, pairing, inbox>> /\ c' = [Ends("error") EXCEPT !.base = -1]
  <2>1. Ends("error") \in Processes
    BY <1>0, MovesTyped DEF Verdicts
  <2>2. c'.base = -1
    BY <1>2, <2>1 DEF Processes
  <2> QED BY <1>0, <2>2 DEF Undisturbed
<1> DEFINE p == IF bonds.pc THEN "subscribe" ELSE "probe"
           b == IF bonds.pc = bonds.dk THEN To(p).base ELSE -1
<1>3. CASE /\ UNCHANGED <<vars, pairing, inbox>> /\ ~(c.neg # "none" /\ bonds.pc)
           /\ c' = [To(p) EXCEPT !.cold = ~bonds.pc, !.link = cur, !.unpair = FALSE, !.base = b]
  <2>0. p \in Places
    BY DEF Places, Exchange
  <2>1. To(p) \in Processes /\ To(p).hs = c.hs /\ To(p).neg = c.neg /\ To(p).pc = p
    BY <1>0, <2>0, MovesTyped, KeptFields DEF KeptAll, Kept
  <2>2. c'.pc = p /\ c'.link = cur /\ c'.hs = c.hs /\ c'.neg = c.neg /\ c'.base = b
    <3> HIDE DEF p, b
    <3> QED BY <1>3, <2>1 DEF Processes
  <2>3. bonds.pc = bonds.dk
    BY <1>0, <2>2 DEF Undisturbed
  <2>4. Gated1' /\ cur' = cur /\ bonds' = bonds
    BY <1>0, <1>3, <2>2 DEF Gated1, Unheard, Waits, Fresh, AtRest, SlotFree, Draining, vars, link, transfer, pairing
  <2>5. CASE bonds.pc
    <3>1. c'.pc = "subscribe" /\ c'.neg = "none" /\ bonds.dk
      BY <1>3, <2>2, <2>3, <2>5
    <3>2. OnLink' /\ Bonded' /\ Unheard'
      BY <1>0, <2>2, <2>4, <2>5, <3>1 DEF OnLink, Same, Bonded, Gated1, Unheard, Waits
    <3> QED BY <3>1, <3>2, Lands
  <2>6. CASE ~bonds.pc
    <3>1. ~bonds.dk
      BY <1>0, <2>3, <2>6
    <3> QED BY <2>2, <2>4, <2>6, <3>1, Lands DEF Unbonded
  <2> QED BY <2>5, <2>6
<1>4. cur # 0
  BY <1>0 DEF Gated1
<1> QED BY <1>1, <1>2, <1>3, <1>4 DEF Inspect, Step
(* A step of the process alone leaves every stage of the Peripheral. *)
LEMMA VarsStill ==
  ASSUME UNCHANGED vars
  PROVE  /\ UNCHANGED <<cur, gen, notify, l4, notice, ct>>
         /\ Fresh' = Fresh /\ Up' = Up /\ Over' = Over /\ Await' = Await /\ AtRest' = AtRest
         /\ \A k \in Nat : Rests(k)' = Rests(k) /\ Settled(k)' = Settled(k)
<1>1. UNCHANGED <<cur, gen, notify, l4, notice, ct, cp2, cp3, keys, slot, w>>
  BY DEF vars, link, transfer
<1>2. Fresh' = Fresh /\ Up' = Up /\ Over' = Over /\ AtRest' = AtRest
  BY <1>1 DEF Fresh, Up, Over, AtRest, SlotFree, Draining
<1>3. Await' = Await
  BY <1>1 DEF Await, Hand, Finishing, SlotFree
<1>4. \A k \in Nat : Rests(k)' = Rests(k) /\ Settled(k)' = Settled(k)
  BY <1>1, <1>2 DEF Rests, Settled, Secure, Counts, SlotFree
<1> QED BY <1>1, <1>2, <1>3, <1>4

(* _ensure_connected and reconnect_v1_peer. *)
LEMMA EnsureClean ==
  ASSUME Standing, EnsureConnected, Undisturbed', faults' = faults
  PROVE  CleanAt'
<1>0. /\ c \in Processes /\ EnsureAt /\ Inv /\ gen \in Nat /\ c.then \in {"inspect", "subscribe", "verify"}
      /\ UNCHANGED <<inbox, bonds>>
  BY HandshakeAssumption
     DEF Standing, CentralInv, SystemTyped, ProcessTyped, CleanAt, ApproachAt, At, EnsureConnected, ConsentInv,
         Heading, Processes, Targets, Typed, HandshakeTypeOK, Conns, Step, Calls, pairing
<1>1. c.then \in Places
  BY <1>0 DEF Places, Exchange
<1>2. /\ To(c.then) \in Processes /\ To(c.then).pc = c.then /\ To(c.then).hs = c.hs /\ To(c.then).neg = c.neg
  BY <1>0, <1>1, MovesTyped, KeptFields DEF KeptAll, Kept
<1>3. /\ c'.pc = c.then /\ c'.hs = c.hs /\ c'.neg = c.neg /\ c'.link = cur' /\ cur' # 0 /\ Fresh' /\ ~notify'
      /\ ~l4 => ~l4'
  <2>1. CASE cur # 0 /\ Step([To(c.then) EXCEPT !.link = cur, !.then = "none"])
    <3>1. c'.pc = c.then /\ c'.hs = c.hs /\ c'.neg = c.neg /\ c'.link = cur
      BY <1>2, <2>1 DEF Processes, Step
    <3> QED BY <1>0, <2>1, <3>1, VarsStill DEF Step, EnsureAt, Unheard, Waits
  <2> DEFINE b == IF AtRest THEN To(c.then).base ELSE -1
  <2>2. CASE cur = 0 /\ Calls(Connected, [To(c.then) EXCEPT !.link = gen + 1, !.then = "none", !.base = b])
    <3> HIDE DEF b
    <3>1. c'.pc = c.then /\ c'.hs = c.hs /\ c'.neg = c.neg /\ c'.link = gen + 1
      BY <1>0, <1>2, <2>2 DEF Processes, Calls
    <3>2. cur' = gen + 1 /\ Connected
      BY <2>2 DEF Calls, Connected
    <3>3. Fresh' /\ ~notify' /\ ~l4'
      BY <1>0, <3>2, FreshLink DEF EnsureAt, Unheard, Waits, Fresh
    <3> QED BY <1>0, <3>1, <3>2, <3>3
  <2> QED BY <2>1, <2>2 DEF EnsureConnected
<1>4. Unheard' /\ inbox' = <<>> /\ c'.hs = "NEW"
  BY <1>0, <1>3 DEF EnsureAt, Unheard, Waits
<1>5. CASE c.then = "inspect"
  BY <1>0, <1>3, <1>4, <1>5, Lands DEF EnsureAt, Gated1
<1>6. CASE c.then = "verify"
  BY <1>0, <1>3, <1>4, <1>6, Lands DEF EnsureAt, Gated1, Refused1
<1>7. CASE c.then = "subscribe"
  <2>1. Bonded' /\ OnLink'
    BY <1>0, <1>3, <1>4, <1>7 DEF EnsureAt, Bonded, OnLink, Same
  <2> QED BY <1>3, <1>4, <1>7, <2>1, Lands
<1> QED BY <1>0, <1>5, <1>6, <1>7

(* The end of a run that the test calls for. *)
LEMMA EndsClean ==
  ASSUME c \in Processes, c' = Ends(IF c.neg = "none" THEN "ok" ELSE "passed"),
         c.neg = "none" /\ Handshakes =>
             Same' /\ c.hs = "APP_SECURE" /\ inbox' = <<>> /\ Over' /\ (c.mode = "cp4" => Complete1)
  PROVE  CleanAt'
<1>1. CASE c.neg = "none"
  <2>1. /\ c'.pc = "cleanup" /\ c'.verdict = "ok" /\ c'.neg = c.neg /\ c'.mode = c.mode /\ c'.hs = c.hs
        /\ c'.tx = c.tx /\ c'.rx = c.rx
    BY <1>1, KeptFields DEF Kept, Verdicts
  <2> QED BY <1>1, <2>1, Lands DEF CleanupAt, ExitZero, Handshakes, Complete1
<1>2. CASE c.neg # "none"
  <2>1. c'.pc = "cleanup" /\ c'.verdict = "passed" /\ c'.neg = c.neg
    BY <1>2, KeptFields DEF Kept, Verdicts
  <2> QED BY <1>2, <2>1, Lands DEF CleanupAt, ExitZero
<1> QED BY <1>1, <1>2

(* _run_pre_l4_probes, and _verify_negative_closed: all is denied. *)
LEMMA ProbesClean ==
  ASSUME Standing, PreL4Probes \/ VerifyClosed
  PROVE  CleanAt'
<1>0. c \in Processes
  BY DEF Standing, CentralInv, SystemTyped, ProcessTyped
<1>1. CASE PreL4Probes
  <2>1. Unbonded /\ UNCHANGED <<vars, inbox, bonds>>
    BY <1>1 DEF Standing, CleanAt, ApproachAt, At, PreL4Probes, Probes, Step, pairing
  <2>2. c' = IF c.neg = "pre-l4-only" THEN Ends("passed") ELSE To("pair")
    BY <1>1, <2>1 DEF PreL4Probes, Probes, Step, Unbonded, Gated1
  <2>3. CASE c.neg = "pre-l4-only"
    BY <1>0, <2>2, <2>3, EndsClean
  <2>4. CASE c.neg # "pre-l4-only"
    <3>1. c'.pc = "pair" /\ c'.neg = c.neg /\ c'.hs = c.hs
      BY <1>0, <2>2, <2>4, KeptFields DEF KeptAll, Kept, Places
    <3>2. Unbonded'
      BY <2>1, <3>1, VarsStill DEF Unbonded, Gated1, Unheard, Waits
    <3> QED BY <2>4, <3>1, <3>2, Lands
  <2> QED BY <2>3, <2>4
<1>2. CASE VerifyClosed
  <2>1. Gated1 /\ Refused1
    BY <1>2 DEF Standing, CleanAt, ApproachAt, At, VerifyClosed
  <2>2. c' = Ends("passed")
    BY <1>2, <2>1 DEF VerifyClosed, Probes, Step, Gated1, Unheard, Waits, Refused1
  <2> QED BY <1>0, <2>1, <2>2, EndsClean DEF Refused1
<1> QED BY <1>1, <1>2
(* PairAsync: the ceremony begins. *)
LEMMA PairClean ==
  ASSUME Standing, Pair
  PROVE  CleanAt'
<1>0. c \in Processes /\ Unbonded /\ c.neg # "pre-l4-only"
  BY DEF Standing, CentralInv, SystemTyped, ProcessTyped, CleanAt, ApproachAt, At, Pair
<1>1. PairAsync(Kind) /\ c' = To("ceremony") /\ UNCHANGED <<vars, inbox>>
  BY <1>0 DEF Pair, Unbonded
<1>2. c'.pc = "ceremony" /\ c'.neg = c.neg /\ c'.hs = c.hs
  BY <1>0, <1>1, KeptFields DEF KeptAll, Kept, Places
<1>3. /\ cer' = [NoCeremony EXCEPT !.kind = Kind, !.active = TRUE]
      /\ os' = [NoOperation EXCEPT !.state = "running"] /\ bonds' = bonds
  BY <1>1 DEF PairAsync
<1>4. /\ cer'.active /\ ~cer'.error /\ ~cer'.received /\ cer'.task = "none" /\ ~cer'.accepted /\ cer'.decision = "none"
      /\ os'.events = 0 /\ os'.state = "running" /\ os'.status = "none"
  BY <1>3 DEF NoCeremony, NoOperation
<1>5. Met' /\ Answered'
  BY <1>4 DEF Met, Answered
<1>6. Unheard' /\ cur' # 0 /\ ~l4' /\ ~bonds'.pc
  BY <1>0, <1>1, <1>2, <1>3, VarsStill DEF Unbonded, Gated1, Unheard, Waits
<1> QED BY <1>0, <1>2, <1>4, <1>5, <1>6, Lands DEF CeremonyAt, Returned

(* The events of Windows and the answers of the operator that the run calls *)
(* for; after the ceremony they are without effect.                         *)
LEMMA AnswersClean ==
  ASSUME Standing, CeremonyStep, faults' = faults
  PROVE  CleanAt'
<1>0. /\ c \in Processes /\ cer \in Ceremonies /\ os \in Operations /\ faults \in Nat /\ RightKind
      /\ CleanAt /\ UNCHANGED <<vars, c, inbox, bonds>>
  <2>1. bonds' = bonds
    BY DEF CeremonyStep, PairingRequested, StartDecision, Decide
  <2> QED BY <2>1 DEF Standing, CentralInv, SystemTyped, ProcessTyped, PairingTyped, ConsentInv, CeremonyStep
<1>1. CASE At("ceremony")
  <2>0. CeremonyAt /\ cer.kind = Kind
    BY <1>0, <1>1 DEF CleanAt, ApproachAt, RightKind
  <2>1. Unheard' /\ cur' # 0 /\ l4' = l4 /\ c'.pc = "ceremony"
    BY <1>0, <1>1, <2>0, VarsStill DEF CeremonyAt, Unheard, Waits, At
  <2>k. cer.kind \in Kinds /\ (cer.kind # "CONFIRM_ONLY" => c.neg \in {"none", "nc-reject"})
    BY <1>0, <2>0 DEF Kind, CeremonyAt, Processes, Negatives, Kinds
  <2>2. CASE \E kind \in Kinds, raises \in BOOLEAN :
                 /\ PairingRequested(kind, raises)
                 /\ Expected1(kind = cer.kind /\ os.events = 0 /\ ~raises)
    <3>1. PICK kind \in Kinds, raises \in BOOLEAN :
                 /\ PairingRequested(kind, raises)
                 /\ Expected1(kind = cer.kind /\ os.events = 0 /\ ~raises)
      BY <2>2
    <3>2. kind = cer.kind /\ os.events = 0 /\ os.state = "running" /\ ~raises
      BY <1>0, <3>1 DEF Expected1, Disturbs, PairingRequested
    <3>3. ~cer.received /\ cer.active /\ cer.task = "none" /\ ~cer.accepted /\ cer.decision = "none" /\ ~cer.error
      BY <2>0, <3>2 DEF CeremonyAt, Met
    <3>4. os'.events = 1 /\ os'.state = os.state /\ os'.status = os.status
      BY <1>0, <3>1, <3>2 DEF PairingRequested, Operations
    <3>5. CASE kind = "CONFIRM_ONLY"
      <4>1. cer' = [cer EXCEPT !.received = TRUE, !.ceremony = kind, !.accepted = TRUE]
        BY <3>1, <3>2, <3>3, <3>5 DEF PairingRequested, Handled
      <4>2. /\ cer'.received /\ cer'.ceremony = kind /\ cer'.kind = kind /\ cer'.task = "none" /\ cer'.active
            /\ cer'.decision = "none" /\ cer'.accepted /\ ~cer'.error
        BY <1>0, <3>2, <3>3, <4>1 DEF Ceremonies
      <4>3. Met' /\ Answered' /\ Returned'
        BY <1>0, <2>0, <2>1, <3>2, <3>4, <3>5, <4>2 DEF Met, Answered, Returned, CeremonyAt
      <4> QED BY <1>0, <2>0, <2>1, <4>2, <4>3, Lands DEF CeremonyAt
    <3>6. CASE kind # "CONFIRM_ONLY"
      <4>1. cer' = [cer EXCEPT !.received = TRUE, !.ceremony = kind, !.deferral = TRUE, !.task = "queued"]
        BY <3>1, <3>2, <3>3, <3>6 DEF PairingRequested, Handled
      <4>2. /\ cer'.received /\ cer'.ceremony = kind /\ cer'.kind = kind /\ cer'.active
            /\ cer'.decision = "none" /\ ~cer'.accepted /\ ~cer'.error /\ cer'.deferral
        BY <1>0, <3>2, <3>3, <4>1 DEF Ceremonies
      <4>3. Met' /\ Answered' /\ Returned'
        BY <1>0, <2>0, <2>1, <3>2, <3>4, <3>6, <4>2 DEF Met, Answered, Returned, CeremonyAt
      <4> QED BY <1>0, <2>0, <2>1, <4>2, <4>3, Lands DEF CeremonyAt
    <3> QED BY <3>5, <3>6
  <2>3. CASE StartDecision
    <3>1. cer' = [cer EXCEPT !.task = "asking"] /\ os' = os /\ cer.task = "queued"
      BY <2>0, <2>3 DEF StartDecision, CeremonyAt
    <3>2. /\ cer'.received = cer.received /\ cer'.ceremony = cer.ceremony /\ cer'.kind = cer.kind
          /\ cer'.active = cer.active /\ cer'.decision = cer.decision /\ cer'.accepted = cer.accepted
          /\ cer'.error = cer.error /\ cer'.deferral = cer.deferral
      BY <1>0, <3>1 DEF Ceremonies
    <3>3. Met' /\ Answered' /\ Returned'
      BY <1>0, <2>0, <2>1, <3>1, <3>2 DEF Met, Answered, Returned, CeremonyAt
    <3> QED BY <1>0, <2>0, <2>1, <3>2, <3>3, Lands DEF CeremonyAt
  <2>4. CASE \E answer \in {"yes", "no", "none"}, accepts, raises \in BOOLEAN :
                 Decide(answer, accepts, raises) /\ Expected1(answer = Wanted /\ ~raises)
    <3>1. PICK answer \in {"yes", "no", "none"}, accepts, raises \in BOOLEAN :
                 Decide(answer, accepts, raises) /\ Expected1(answer = Wanted /\ ~raises)
      BY <2>4
    <3>2. answer = Wanted /\ ~raises
      BY <1>0, <3>1 DEF Expected1, Disturbs
    <3>3. cer.task = "asking" /\ cer.received /\ cer.kind # "CONFIRM_ONLY" /\ cer.active /\ ~cer.error
      BY <2>0, <3>1 DEF Decide, CeremonyAt, Met, Answered
    <3>4. answer \in {"yes", "no"} /\ (answer = "yes" <=> accepts)
      BY <3>1, <3>2 DEF Decide, Wanted
    <3> DEFINE l == cer.late \/ (accepts /\ os.state = "over")
               a == cer.accepted \/ accepts
               e == cer.error \/ raises
               x == [cer EXCEPT !.task = "none", !.late = l, !.decision = answer, !.accepted = a, !.error = e]
    <3>5. os' = os /\ cer' = [x EXCEPT !.deferral = FALSE]
      BY <3>1, <3>3, <3>4 DEF Decide, Complete
    <3>6. /\ x.received = cer.received /\ x.ceremony = cer.ceremony /\ x.kind = cer.kind
          /\ x.active = cer.active /\ x.decision = answer /\ x.accepted = a
          /\ x.error = e /\ x \in Ceremonies
      <4>1. l \in BOOLEAN /\ a \in BOOLEAN /\ e \in BOOLEAN
        BY <1>0 DEF Ceremonies
      <4> HIDE DEF l, a, e
      <4> QED BY <1>0, <3>4, <4>1 DEF Ceremonies
    <3> HIDE DEF x
    <3>7. /\ cer'.received = cer.received /\ cer'.ceremony = cer.ceremony /\ cer'.kind = cer.kind
          /\ cer'.active = cer.active /\ cer'.decision = answer /\ cer'.accepted = a
          /\ cer'.error = e
      <4> HIDE DEF l, a, e
      <4> QED BY <3>5, <3>6 DEF Ceremonies
    <3>8. cer'.accepted = (cer.accepted \/ accepts) /\ ~cer'.error
      BY <3>2, <3>3, <3>7
    <3> HIDE DEF l, a, e
    <3>9. (answer = "yes" => c.neg = "none") /\ (answer = "no" => c.neg = "nc-reject")
      BY <2>k, <3>2, <3>3 DEF Wanted
    <3>10. Answered'
      BY <1>0, <2>0, <3>3, <3>4, <3>7, <3>8, <3>9 DEF Answered, CeremonyAt
    <3>11. Met' /\ Returned'
      BY <1>0, <2>0, <2>1, <3>3, <3>4, <3>5, <3>7, <3>8, <3>9 DEF Met, Answered, Returned, CeremonyAt
    <3> QED BY <1>0, <2>0, <2>1, <3>7, <3>8, <3>10, <3>11, Lands DEF CeremonyAt
  <2> QED BY <2>2, <2>3, <2>4 DEF CeremonyStep
<1>2. CASE ~At("ceremony")
  <2>1. UNCHANGED <<cur, gen, notify, l4, notice, ct, c, inbox, bonds>>
    BY <1>0, VarsStill
  <2>2. UNCHANGED <<cp2, cp3, keys, slot, w>>
    BY <1>0 DEF vars
  <2> QED BY <1>0, <1>2, <2>1, <2>2 DEF CleanAt, ApproachAt, UploadAt, ExchangeAt, EndAt, At, Gated1, Unheard, Waits,
       Fresh, AtRest, SlotFree, Draining, EnsureAt, Unbonded, Refused1, Bonded, OnLink, Same, Up1, Up, StartAt,
       Handshakes, ReadyAt, ConfirmAt, FinishedAt, QuietAt, PingAt, PongAt, SettleAt, InApp, Complete1, CleanupAt,
       ExitZero, Answer, Doing2, Doing3, Await, DoingF, Over, Rests, Settled, Pinged, Counts, Secure, Hand,
       Finishing, Queued, Going, Telling, HasJob, Works
<1> QED BY <1>1, <1>2
(* The pairing succeeds where both operators accepted, and is refused where *)
(* one of them, or the kind of the ceremony, calls for it.                  *)
LEMMA PairsClean ==
  ASSUME Standing, Pairs \/ Refuses, faults' = faults
  PROVE  CleanAt'
<1>a. At("ceremony") /\ UNCHANGED <<cer, inbox>>
  <2>1. CASE Pairs
    BY <2>1 DEF Pairs, OsPairs
  <2>2. CASE Refuses
    BY <2>2 DEF Refuses, OsRefuses
  <2> QED BY <2>1, <2>2
<1>b. c \in Processes /\ os \in Operations /\ faults \in Nat /\ CleanAt
  BY DEF Standing, CentralInv, SystemTyped, ProcessTyped, PairingTyped
<1>k. cer \in Ceremonies
  BY DEF Standing, CentralInv, SystemTyped, PairingTyped
<1>0. /\ c \in Processes /\ os \in Operations /\ faults \in Nat /\ CeremonyAt /\ At("ceremony")
      /\ UNCHANGED <<cer, inbox>>
  BY <1>a, <1>b DEF CleanAt, ApproachAt
<1>1. CASE Pairs
  <2>1. /\ SecurityUp /\ os.state = "running" /\ cer.accepted /\ cer.kind = "CONFIRM_PIN_MATCH"
        /\ bonds' = [pc |-> TRUE, dk |-> TRUE] /\ os' = [os EXCEPT !.state = "returned", !.status = "PAIRED"]
        /\ c' = [c EXCEPT !.opened = TRUE]
    BY <1>1 DEF Pairs, OsPairs
  <2>2. os'.state = "returned" /\ os'.status = "PAIRED" /\ os'.events = os.events /\ bonds'.pc /\ bonds'.dk
    BY <1>0, <2>1 DEF Operations
  <2>3. c'.pc = "ceremony" /\ c'.neg = c.neg /\ c'.hs = c.hs
    BY <1>0, <2>1 DEF Processes, At
  <2>4. cer.decision = "yes"
    BY <1>0, <2>1 DEF CeremonyAt, Answered
  <2>5. Unheard' /\ cur' # 0
    BY <1>0, <2>1, <2>3 DEF CeremonyAt, Unheard, Waits, Fresh, AtRest, SlotFree, Draining, SecurityUp, transfer
  <2>6. Met' /\ Answered' /\ Returned'
    BY <1>0, <2>2, <2>3, <2>4 DEF CeremonyAt, Met, Answered, Returned
  <2> QED BY <1>0, <2>3, <2>5, <2>6, Lands DEF CeremonyAt
<1>2. CASE Refuses
  <2>1. PICK status \in Refusals :
            /\ OsRefuses(status)
            /\ Expected1(\/ cur = 0 \/ cer.error \/ Unaccepted
                         \/ cer.kind = "CONFIRM_ONLY" /\ cer.accepted /\ status # "PAIRING_CANCELED")
    BY <1>2 DEF Refuses
  <2>2. UNCHANGED <<vars, c, bonds>>
    BY <1>2, <2>1 DEF Refuses, OsRefuses
  <2>3. os'.state = "returned" /\ os'.status = status /\ os'.events = os.events /\ os.state = "running"
    BY <1>0, <2>1 DEF Operations, OsRefuses
  <2>4. \/ cer.decision = "no"
        \/ cer.kind = "CONFIRM_ONLY" /\ cer.accepted /\ status # "PAIRING_CANCELED"
    <3>1. \/ Unaccepted
          \/ cer.kind = "CONFIRM_ONLY" /\ cer.accepted /\ status # "PAIRING_CANCELED"
      BY <1>0, <2>1 DEF Expected1, Disturbs, CeremonyAt
    <3>2. ASSUME Unaccepted PROVE cer.decision = "no"
      BY <1>0, <1>k, <3>2 DEF Unaccepted, CeremonyAt, Answered, Ceremonies
    <3> QED BY <3>1, <3>2
  <2>5. cer.received /\ ~bonds.pc /\ ~l4
    BY <1>0, <2>3, <2>4 DEF CeremonyAt, Met, Returned
  <2>6. IF cer.kind = "CONFIRM_ONLY" THEN status \in {"SECURITY", "FAILED"} /\ cer.accepted
        ELSE status \in Refusals /\ cer.decision = "no"
    BY <1>0, <2>4 DEF CeremonyAt, Answered, Refusals
  <2>7. Unheard' /\ cur' # 0 /\ l4' = l4
    BY <1>0, <2>2, VarsStill DEF CeremonyAt, Unheard, Waits
  <2>8. Met' /\ Answered' /\ Returned'
    BY <1>0, <2>2, <2>3, <2>5, <2>6, <2>7 DEF CeremonyAt, Met, Answered, Returned
  <2> QED BY <1>0, <2>2, <2>7, <2>8, Lands DEF CeremonyAt, At
<1> QED BY <1>1, <1>2

(* _run_custom_pairing returns: paired, or refused with its evidence. *)
LEMMA PairReturnsClean ==
  ASSUME Standing, PairReturns
  PROVE  CleanAt'
<1>0. /\ c \in Processes /\ cer.kind = Kind /\ CeremonyAt /\ os.state = "returned"
      /\ UNCHANGED <<vars, inbox, bonds>>
  BY DEF Standing, CentralInv, SystemTyped, ProcessTyped, ConsentInv, RightKind, CleanAt, ApproachAt, PairReturns,
         Stop
<1>n. c.neg \in {"none", "nc-reject", "just-works"}
  BY <1>0 DEF CeremonyAt, Processes, Negatives
<1>1. CASE os.status = "PAIRED" /\ bonds.pc /\ bonds.dk /\ cer.decision = "yes"
  <2>1. c.neg = "none" /\ cer.accepted
    BY <1>0, <1>1 DEF CeremonyAt, Answered
  <2>2. ~PairingRaises
    BY <1>0, <1>1, <2>1 DEF PairingRaises, CeremonyAt, ReportedSuccess, Explicit
  <2>3. c' = [To("ensure") EXCEPT !.then = "subscribe"]
    BY <1>1, <2>1, <2>2 DEF PairReturns
  <2>4. To("ensure") \in Processes /\ To("ensure").hs = c.hs /\ To("ensure").neg = c.neg /\ To("ensure").pc = "ensure"
    BY <1>0, MovesTyped, KeptFields DEF KeptAll, Kept, Places
  <2>5. c'.pc = "ensure" /\ c'.then = "subscribe" /\ c'.hs = c.hs /\ c'.neg = c.neg
    BY <2>3, <2>4 DEF Processes
  <2>6. EnsureAt'
    BY <1>0, <1>1, <2>1, <2>5, VarsStill DEF EnsureAt, CeremonyAt, Unheard, Waits, Bonded
  <2> QED BY <2>5, <2>6, Lands
<1>2. CASE /\ ~bonds.pc /\ ~l4 /\ cer.received
           /\ IF cer.kind = "CONFIRM_ONLY" THEN os.status \in {"SECURITY", "FAILED"} /\ cer.accepted
              ELSE os.status \in Refusals /\ cer.decision = "no"
  <2>1. ~ReportedSuccess /\ cer.ceremony = cer.kind
    BY <1>0, <1>2 DEF ReportedSuccess, Refusals, CeremonyAt, Met
  <2>2. ~PairingRaises
    BY <1>0, <2>1 DEF PairingRaises, CeremonyAt, Explicit
  <2>3. c.neg # "none"
    BY <1>0, <1>2 DEF CeremonyAt, Answered, Kind
  <2>4. Evidence
    <3>1. ~OutcomePaired
      BY <1>2, <2>1 DEF OutcomePaired
    <3>2. CASE c.neg = "nc-reject"
      BY <1>0, <1>2, <2>1, <3>1, <3>2 DEF Evidence, Kind, CeremonyAt, Answered
    <3>3. CASE c.neg = "just-works"
      BY <1>0, <1>2, <2>1, <3>1, <3>3 DEF Evidence, Kind
    <3> QED BY <1>n, <2>3, <3>2, <3>3
  <2>5. c' = To("retire")
    BY <1>0, <2>2, <2>3, <2>4 DEF PairReturns, CeremonyAt, Unheard, Waits
  <2>6. c'.pc = "retire" /\ c'.hs = c.hs /\ c'.neg = c.neg
    BY <1>0, <2>5, KeptFields DEF KeptAll, Kept, Places
  <2>7. Gated1' /\ Refused1'
    BY <1>0, <1>2, <2>3, <2>6, VarsStill DEF CeremonyAt, Gated1, Unheard, Waits, Refused1
  <2> QED BY <2>6, <2>7, Lands
<1> QED BY <1>0, <1>1, <1>2 DEF CeremonyAt, Returned

(* The link of a refused pairing is retired, and any link may be lost in    *)
(* _ensure_connected.                                                       *)
LEMMA RetireClean ==
  ASSUME Standing, RetireLink \/ LinkLost, faults' = faults
  PROVE  CleanAt'
<1>0. c \in Processes /\ faults \in Nat /\ Inv /\ CleanAt
  BY DEF Standing, CentralInv, SystemTyped, ProcessTyped
<1>1. CASE RetireLink
  <2>1. Gated1 /\ Refused1
    BY <1>0, <1>1 DEF CleanAt, ApproachAt, RetireLink
  <2>2. Disconnected /\ c' = [To("ensure") EXCEPT !.then = "verify"] /\ UNCHANGED <<inbox, bonds>>
    BY <1>1, <2>1 DEF RetireLink, Calls, Gated1, Refused1, pairing
  <2>3. To("ensure") \in Processes /\ To("ensure").hs = c.hs /\ To("ensure").neg = c.neg /\ To("ensure").pc = "ensure"
    BY <1>0, MovesTyped, KeptFields DEF KeptAll, Kept, Places
  <2>4. c'.pc = "ensure" /\ c'.then = "verify" /\ c'.hs = c.hs /\ c'.neg = c.neg
    BY <2>2, <2>3 DEF Processes
  <2>5. Fresh' /\ ~notify' /\ ~l4'
    BY <1>0, <2>1, <2>2, FreshLink DEF Gated1, Unheard, Waits, Fresh
  <2>6. EnsureAt'
    BY <2>1, <2>2, <2>4, <2>5 DEF EnsureAt, Unheard, Waits, Gated1, Refused1
  <2> QED BY <2>4, <2>6, Lands
<1>2. CASE LinkLost
  <2>1. At("ensure") /\ Disconnected /\ UNCHANGED bonds
    BY <1>0, <1>2 DEF LinkLost, Expected1, Disturbs, pairing
  <2>2. EnsureAt
    BY <1>0, <2>1 DEF CleanAt, ApproachAt
  <2>3. c' = c
    <3>1. Closed(c) = c
      <4>1. Closed(c) = [c EXCEPT !.hs = c.hs]
        BY <2>2 DEF Closed, EnsureAt, Unheard, Waits
      <4> QED BY <1>0, <4>1 DEF Processes
    <3> QED BY <1>2, <3>1 DEF LinkLost
  <2>4. inbox' = <<>>
    <3>1. inbox = <<>> /\ Len(inbox) = 0
      BY <2>2 DEF EnsureAt, Unheard, Waits
    <3>2. PICK n \in 0 .. Len(inbox) : inbox' = SubSeq(inbox, 1, n)
      BY <1>2 DEF LinkLost
    <3>3. inbox' = SubSeq(<<>>, 1, 0)
      BY <3>1, <3>2
    <3> QED BY <3>3
  <2>5. Fresh' /\ ~notify' /\ ~l4'
    BY <1>0, <2>1, <2>2, FreshLink DEF EnsureAt, Unheard, Waits, Fresh
  <2>6. EnsureAt'
    BY <2>1, <2>2, <2>3, <2>4, <2>5 DEF EnsureAt, Unheard, Waits, Refused1, Bonded
  <2> QED BY <2>1, <2>3, <2>6, Lands DEF At
<1> QED BY <1>1, <1>2
-----------------------------------------------------------------------------
(* The exchange.  One frame waits, and is taken. *)
LEMMA Taken ==
  ASSUME NEW f, inbox = <<f>>
  PROVE  inbox # <<>> /\ Tail(inbox) = <<>> /\ Head(inbox) = f
  OBVIOUS

(* start_notify: the encryption of the bond is restored, then the           *)
(* notifications are enabled.                                               *)
LEMMA SubscribeClean ==
  ASSUME Standing, StartNotify
  PROVE  CleanAt'
<1>0. c \in Processes /\ c.pc = "subscribe" /\ Unheard /\ OnLink /\ Bonded
  BY DEF Standing, CentralInv, SystemTyped, ProcessTyped, CleanAt, ApproachAt, StartNotify, At
<1>1. Same /\ HostFree /\ Restorable /\ ~notify /\ cur # 0
  BY <1>0 DEF OnLink, Same, HostFree, Restorable, Bonded, Unheard, Waits, Fresh
<1>2. CASE ~l4 /\ Calls(SecurityUp, [c EXCEPT !.opened = TRUE])
  <2>1. UNCHANGED <<cur, gen, notify, notice, ct, cp2, cp3, keys, slot, w, inbox, bonds>>
    BY <1>2 DEF Calls, SecurityUp, transfer, pairing
  <2>2. c'.pc = "subscribe" /\ c'.link = c.link /\ c'.hs = c.hs /\ c'.neg = c.neg
    BY <1>0, <1>2 DEF Calls, Processes
  <2>3. Unheard' /\ OnLink' /\ Bonded'
    BY <1>0, <2>1, <2>2 DEF Unheard, Waits, Fresh, AtRest, SlotFree, Draining, OnLink, Same, Bonded
  <2> QED BY <2>2, <2>3, Lands
<1> DEFINE p == IF c.mode = "cp1" THEN "upload" ELSE "attest1"
<1>3. CASE l4 /\ Calls(Subscribe, To(p))
  <2>1. UNCHANGED <<cur, gen, l4, notice, ct, cp2, cp3, keys, slot, w, inbox>> /\ notify'
    BY <1>3 DEF Calls, Subscribe, transfer
  <2>2. p \in Places /\ p \in {"upload", "attest1"}
    BY DEF Places, Exchange
  <2>3. c'.pc = p /\ c'.link = c.link /\ c'.hs = c.hs /\ c'.neg = c.neg
    BY <1>0, <1>3, <2>2, KeptFields DEF Calls, KeptAll, Kept
  <2> HIDE DEF p
  <2>4. Waits' /\ Up1'
    BY <1>0, <1>3, <2>1, <2>3 DEF Unheard, Waits, Fresh, AtRest, SlotFree, Draining, OnLink, Same, Up1, Up
  <2> QED BY <2>2, <2>3, <2>4, Lands
<1> QED BY <1>1, <1>2, <1>3 DEF StartNotify, Writes, Fails

(* attest: SEC_QUERY is answered. *)
LEMMA AttestClean ==
  ASSUME Standing, Attest("attest1", "info1") \/ Attest("attest2", "info2")
  PROVE  CleanAt'
<1>0. c \in Processes /\ CleanAt
  BY DEF Standing, CentralInv, SystemTyped, ProcessTyped
<1>1. ASSUME NEW p \in Places, Waits, Up1,
             \/ /\ Same /\ HostFree /\ l4 /\ notify /\ inbox = <<>>
                /\ inbox' = <<SecInfo>> /\ c' = To(p) /\ UNCHANGED <<vars, pairing, runs, faults>>
             \/ Fails(~(l4 /\ notify) \/ inbox # <<>>)
      PROVE  c'.pc = p /\ Fresh' /\ c'.hs = "NEW" /\ Up1' /\ inbox' = <<SecInfo>> /\ ct' = ct
  <2>1. ~Fails(~(l4 /\ notify) \/ inbox # <<>>)
    BY <1>1 DEF Fails, Up1, Up, OnLink, Waits
  <2>2. inbox' = <<SecInfo>> /\ c' = To(p) /\ UNCHANGED vars
    BY <1>1, <2>1
  <2>3. c'.pc = p /\ c'.link = c.link /\ c'.hs = c.hs /\ c'.neg = c.neg
    BY <1>0, <2>2, KeptFields DEF KeptAll, Kept
  <2>4. UNCHANGED cur /\ Fresh' = Fresh /\ Up' = Up /\ ct' = ct
    BY <2>2, VarsStill
  <2> QED BY <1>1, <2>2, <2>3, <2>4 DEF Waits, Up1, OnLink, Same
<1>2. CASE Attest("attest1", "info1")
  <2>1. Waits /\ Up1
    BY <1>0, <1>2 DEF CleanAt, UploadAt, Attest
  <2>2. "info1" \in Places
    BY DEF Places, Exchange
  <2>3. c'.pc = "info1" /\ Fresh' /\ c'.hs = "NEW" /\ Up1' /\ inbox' = <<SecInfo>>
    BY <1>1, <1>2, <2>1, <2>2 DEF Attest
  <2> QED BY <2>3, Lands
<1>3. CASE Attest("attest2", "info2")
  <2>1. Waits /\ Up1 /\ ct = "READY"
    BY <1>0, <1>3 DEF CleanAt, UploadAt, Attest
  <2>2. "info2" \in Places
    BY DEF Places, Exchange
  <2>3. c'.pc = "info2" /\ Fresh' /\ c'.hs = "NEW" /\ Up1' /\ inbox' = <<SecInfo>> /\ ct' = ct
    BY <1>1, <1>3, <2>1, <2>2 DEF Attest
  <2> QED BY <2>1, <2>3, Lands
<1> QED BY <1>2, <1>3

(* The answer is taken; after the second one CP1 is done, and the others    *)
(* have a transcript.                                                       *)
LEMMA AttestedClean ==
  ASSUME Standing, Attested
  PROVE  CleanAt'
<1>0. c \in Processes /\ CleanAt
  BY DEF Standing, CentralInv, SystemTyped, ProcessTyped
<1>1. Fresh /\ c.hs = "NEW" /\ Up1 /\ inbox = <<SecInfo>> /\ (At("info2") => ct = "READY")
  BY <1>0 DEF CleanAt, UploadAt, Attested, At
<1>2. Is("SEC_INFO") /\ Holds /\ inbox # <<>> /\ Tail(inbox) = <<>>
  <2>1. inbox # <<>> /\ Tail(inbox) = <<>> /\ Head(inbox) = SecInfo
    BY <1>1, Taken
  <2>2. SecInfo.type = "SEC_INFO"
    BY DEF SecInfo, Frame
  <2> QED BY <1>1, <2>1, <2>2 DEF Is, Holds, Up1, OnLink
<1>3. UNCHANGED vars /\ inbox' = <<>>
  BY <1>2 DEF Attested, Receives
<1>4. UNCHANGED <<cur, ct>> /\ Fresh' = Fresh /\ Up' = Up
  BY <1>3, VarsStill
<1>p. {"upload", "quiet", "start"} \subseteq Places
  BY DEF Places, Exchange
<1>5. CASE At("info1")
  <2>1. c' = To("upload")
    BY <1>2, <1>5 DEF Attested, Receives, At
  <2>2. c'.pc = "upload" /\ c'.link = c.link /\ c'.hs = c.hs /\ c'.neg = c.neg
    BY <1>0, <1>p, <2>1, KeptFields DEF KeptAll, Kept
  <2> QED BY <1>1, <1>3, <1>4, <2>2, Lands DEF Waits, Up1, OnLink, Same
<1>6. CASE At("info2") /\ c.mode = "cp1"
  <2>1. c' = To("quiet")
    BY <1>2, <1>6 DEF Attested, Receives, At
  <2>2. c'.pc = "quiet" /\ c'.link = c.link /\ c'.hs = c.hs /\ c'.neg = c.neg /\ c'.mode = c.mode
    BY <1>0, <1>p, <2>1, KeptFields DEF KeptAll, Kept
  <2>3. Up1' /\ ~Handshakes' /\ Over'
    BY <1>1, <1>4, <1>6, <2>2 DEF Up1, OnLink, Same, Handshakes, Fresh, AtRest, SlotFree, Over
  <2> QED BY <1>3, <2>2, <2>3, Lands DEF QuietAt
<1>7. CASE At("info2") /\ c.mode # "cp1"
  <2> DEFINE h == IF Handshakes THEN "WAIT_READY_CP3" ELSE To("start").hs
  <2>1. c' = [To("start") EXCEPT !.hs = h]
    BY <1>2, <1>7 DEF Attested, Receives, At
  <2>2. To("start") \in Processes /\ To("start").pc = "start" /\ KeptAll(To("start"))
    BY <1>0, <1>p, MovesTyped, KeptFields
  <2>3. h \in {"WAIT_READY_CP3", "NEW"} /\ (Handshakes => h = "WAIT_READY_CP3")
    BY <1>1, <2>2 DEF KeptAll
  <2> HIDE DEF h
  <2>4. c'.pc = "start" /\ c'.link = c.link /\ c'.hs = h /\ c'.neg = c.neg /\ c'.mode = c.mode
    BY <2>1, <2>2 DEF KeptAll, Kept, Processes
  <2>5. Up1' /\ (Handshakes' <=> Handshakes)
    BY <1>1, <1>4, <2>3, <2>4 DEF Up1, OnLink, Same, Handshakes
  <2> QED BY <1>1, <1>3, <1>4, <1>7, <2>3, <2>4, <2>5, Lands DEF StartAt
<1> QED BY <1>5, <1>6, <1>7 DEF Attested
(* write_fragmented_ciphertext. *)
LEMMA UploadClean ==
  ASSUME Standing, Upload
  PROVE  CleanAt'
<1>0. c \in Processes /\ CleanAt
  BY DEF Standing, CentralInv, SystemTyped, ProcessTyped
<1>1. Waits /\ Up1 /\ (At("last") => ct = "RECEIVING")
  BY <1>0 DEF CleanAt, UploadAt, Upload, At
<1>2. Same /\ Writable
  BY <1>1 DEF Waits, Up1, Up, OnLink, Fresh, Draining, Writable, HostFree
<1>3. ASSUME NEW p \in Places, NEW next \in {"RECEIVING", "READY"}, Calls(WriteCiphertext(next), To(p))
      PROVE  c'.pc = p /\ Waits' /\ Up1' /\ ct' = next
  <2>1. UNCHANGED <<cur, gen, notify, l4, notice, cp2, cp3, keys, slot, w, inbox>> /\ ct' = next /\ c' = To(p)
    BY <1>3 DEF Calls, WriteCiphertext, link
  <2>2. c'.pc = p /\ c'.link = c.link /\ c'.hs = c.hs /\ c'.neg = c.neg
    BY <1>0, <2>1, KeptFields DEF KeptAll, Kept
  <2> QED BY <1>1, <2>1, <2>2 DEF Waits, Fresh, AtRest, SlotFree, Draining, OnLink, Same, Up1, Up
<1>p. {"last", "attest2"} \subseteq Places
  BY DEF Places, Exchange
<1>4. CASE At("upload")
  <2>1. Calls(WriteCiphertext("RECEIVING"), To("last"))
    BY <1>2, <1>4 DEF Upload, Writes, Fails, At
  <2>2. c'.pc = "last" /\ Waits' /\ Up1' /\ ct' = "RECEIVING"
    BY <1>3, <1>p, <2>1
  <2> QED BY <2>2, Lands
<1>5. CASE At("last")
  <2>1. Calls(WriteCiphertext("READY"), To("attest2"))
    BY <1>1, <1>2, <1>5 DEF Upload, Writes, Fails, At
  <2>2. c'.pc = "attest2" /\ Waits' /\ Up1' /\ ct' = "READY"
    BY <1>3, <1>p, <2>1
  <2> QED BY <2>2, Lands
<1> QED BY <1>4, <1>5 DEF Upload

(* START_V1 and START_CP3: the Peripheral has nothing else to do, and the   *)
(* ciphertext of this link.                                                 *)
LEMMA StartClean ==
  ASSUME Standing, SendStart, faults' = faults
  PROVE  CleanAt'
<1>0. c \in Processes /\ CleanAt /\ Inv /\ faults \in Nat
  BY DEF Standing, CentralInv, SystemTyped, ProcessTyped
<1>1. StartAt
  BY <1>0 DEF CleanAt, ExchangeAt, SendStart
<1>2. Same /\ inbox = <<>> /\ HostFree /\ ctFrom = cur /\ keys = NoKeys /\ Starts2
  BY <1>0, <1>1 DEF StartAt, Up1, Up, OnLink, Fresh, AtRest, HostFree, Inv, TransferInv, SecretInv, NoOrphanKeys,
                    Starts2
<1>3. Starts3
  BY <1>2 DEF Starts2, Starts3, NoKeys
<1>4. ASSUME c' = To("ready")
      PROVE  /\ c'.pc = "ready" /\ c'.link = c.link /\ c'.hs = c.hs /\ c'.neg = c.neg /\ c'.mode = c.mode
             /\ Handshakes' = Handshakes
  BY <1>0, <1>4, KeptFields DEF KeptAll, Kept, Places, Exchange, Handshakes
<1>5. ASSUME NEW mode, slot' = Job(mode, ctFrom, TRUE), UNCHANGED <<link, w>>
      PROVE  Queued(mode)' /\ slot'.from = cur' /\ w'.pc = "idle"
  BY <1>1, <1>2, <1>5 DEF Queued, HasJob, Job, link, StartAt, Fresh, AtRest
<1>6. ASSUME UNCHANGED <<link, inbox>>, c' = To("ready") PROVE Up1' /\ cur' = cur /\ gen' = gen /\ inbox' = <<>>
  BY <1>1, <1>2, <1>4, <1>6 DEF StartAt, Up1, Up, OnLink, Same, link
<1>7. CASE Handshakes
  <2>1. PICK good \in BOOLEAN : Cp3Start(good) /\ Expected1(good)
    BY <1>2, <1>3, <1>7 DEF SendStart, Submits, Fails
  <2>2. good
    BY <1>0, <2>1 DEF Expected1, Disturbs
  <2>3. /\ slot' = Job("cp3", ctFrom, TRUE) /\ UNCHANGED <<link, cp2, w>>
        /\ cp3' = [state |-> "CRYPTO_BUSY", conn |-> cur, gen |-> gen, worker |-> TRUE,
                   delivery |-> FALSE, left |-> TIMEOUT]
    BY <2>1, <2>2 DEF Cp3Start
  <2>4. Queued("cp3")' /\ slot'.from = cur' /\ w'.pc = "idle" /\ slot'.pending
    BY <1>5, <2>3 DEF Job
  <2>5. c' = To("ready") /\ inbox' = inbox
    BY <1>2, <1>3, <1>7, <2>4 DEF SendStart, Submits, Fails
  <2>6. Up1' /\ cur' = cur /\ gen' = gen /\ inbox' = <<>>
    BY <1>6, <2>3, <2>5
  <2>7. Hand' /\ cp3'.state = "CRYPTO_BUSY"
    BY <1>1, <2>3, <2>6, HandshakeAssumption DEF Hand, StartAt, Fresh, Draining
  <2>8. Doing3'
    BY <2>4, <2>7 DEF Doing3
  <2> QED BY <1>1, <1>4, <1>7, <2>5, <2>6, <2>8, Lands DEF ReadyAt, StartAt
<1>8. CASE ~Handshakes
  <2>1. PICK good \in BOOLEAN : Cp2Start(good) /\ Expected1(good)
    BY <1>2, <1>8 DEF SendStart, Submits, Fails
  <2>2. good
    BY <1>0, <2>1 DEF Expected1, Disturbs
  <2>3. /\ slot' = Job("cp2", ctFrom, TRUE) /\ UNCHANGED <<link, cp3, w>>
        /\ cp2' = [active |-> TRUE, valid |-> TRUE, conn |-> cur, gen |-> gen]
    BY <2>1, <2>2 DEF Cp2Start
  <2>4. Queued("cp2")' /\ slot'.from = cur' /\ w'.pc = "idle" /\ slot'.pending
    BY <1>5, <2>3 DEF Job
  <2>5. c' = To("ready") /\ inbox' = inbox
    BY <1>2, <1>8, <2>4 DEF SendStart, Submits, Fails
  <2>6. Up1' /\ cur' = cur /\ gen' = gen /\ inbox' = <<>>
    BY <1>6, <2>3, <2>5
  <2>7. Doing2'
    BY <1>1, <2>3, <2>4, <2>6 DEF Doing2, StartAt, Fresh
  <2> QED BY <1>1, <1>4, <1>8, <2>5, <2>6, <2>7, Lands DEF ReadyAt, StartAt
<1> QED BY <1>7, <1>8

(* receive: while the answer is still to come it goes on waiting, and what  *)
(* comes is the answer.                                                     *)
LEMMA ReceivesClean ==
  ASSUME Up1, NEW STATE valid, NEW STATE next, NEW type, NEW seq,
         Receives(valid, next),
         (inbox = <<>> /\ ~Silent) \/ Answer(type, seq),
         Answer(type, seq) => valid
  PROVE  UNCHANGED vars /\ inbox' = <<>> /\ c' = next /\ Answer(type, seq)
<1>1. Holds
  BY DEF Up1, OnLink, Holds
<1>2. inbox # <<>>
  <2>1. ~Silent => inbox # <<>>
    BY <1>1 DEF Receives
  <2>2. Answer(type, seq) => inbox # <<>>
    BY Taken DEF Answer
  <2> QED BY <2>1, <2>2
<1>3. Answer(type, seq)
  BY <1>2
<1>4. Tail(inbox) = <<>>
  BY <1>3, Taken DEF Answer
<1> QED BY <1>1, <1>2, <1>3, <1>4 DEF Receives
(* READY_V1, and READY_CP3 with accept_ready. *)
LEMMA ReadyClean ==
  ASSUME Standing, ReadyV1 \/ AcceptReady
  PROVE  CleanAt'
<1>0. c \in Processes /\ CleanAt /\ c.pc = "ready"
  BY DEF Standing, CentralInv, SystemTyped, ProcessTyped, ReadyV1, AcceptReady, At
<1>1. ReadyAt /\ Up1 /\ c.link = cur /\ cur # 0
  BY <1>0 DEF CleanAt, ExchangeAt, At, ReadyAt, Up1, OnLink, Same
<1>2. ASSUME NEW type, Answer(type, 0) PROVE Is(type) /\ Mine
  <2>1. inbox # <<>> /\ Head(inbox) = Frame(type, cur, 0)
    BY <1>2, Taken DEF Answer
  <2> QED BY <1>1, <2>1 DEF Is, Mine, Frame
<1>p. {"quiet", "confirm"} \subseteq Places
  BY DEF Places, Exchange
<1>3. CASE ~Handshakes
  <2>1. (inbox = <<>> /\ Doing2) \/ (Answer("READY", 0) /\ Over)
    BY <1>1, <1>3 DEF ReadyAt
  <2>2. Doing2 => ~Silent
    BY <1>1 DEF Doing2, Silent, Queued, Going, Telling, HasJob, Works, Busy, Computing
  <2>3. Receives(Is("READY") /\ Mine, To("quiet"))
    BY <1>3 DEF ReadyV1, AcceptReady
  <2>4. UNCHANGED vars /\ inbox' = <<>> /\ c' = To("quiet") /\ Answer("READY", 0)
    BY <1>1, <1>2, <2>1, <2>2, <2>3, ReceivesClean
  <2>5. c'.pc = "quiet" /\ c'.link = c.link /\ c'.hs = c.hs /\ c'.neg = c.neg /\ c'.mode = c.mode
    BY <1>0, <1>p, <2>4, KeptFields DEF KeptAll, Kept
  <2>6. Over
    BY <2>1, <2>4, Taken DEF Answer
  <2>7. UNCHANGED cur /\ Up' = Up /\ Over'
    BY <2>4, <2>6, VarsStill
  <2>8. QuietAt'
    BY <1>1, <1>3, <2>4, <2>5, <2>7 DEF QuietAt, Up1, OnLink, Same, Handshakes
  <2> QED BY <2>5, <2>8, Lands
<1>4. CASE Handshakes
  <2>1. (inbox = <<>> /\ Doing3) \/ (Answer("READY_CP3", 0) /\ Await)
    BY <1>1, <1>4 DEF ReadyAt
  <2>2. Doing3 => ~Silent
    BY <1>1 DEF Doing3, Silent, Queued, Going, Telling, HasJob, Works, Busy, Computing
  <2>3. /\ Receives(Is("READY_CP3") /\ Mine /\ c.hs = "WAIT_READY_CP3",
                    [To("confirm") EXCEPT !.hs = "WAIT_FINISHED_P"])
        /\ c.hs = "WAIT_READY_CP3"
    BY <1>1, <1>4 DEF ReadyV1, AcceptReady, ReadyAt
  <2>4. /\ UNCHANGED vars /\ inbox' = <<>> /\ c' = [To("confirm") EXCEPT !.hs = "WAIT_FINISHED_P"]
        /\ Answer("READY_CP3", 0)
    BY <1>1, <1>2, <2>1, <2>2, <2>3, ReceivesClean
  <2>5. To("confirm") \in Processes /\ To("confirm").pc = "confirm" /\ KeptAll(To("confirm"))
    BY <1>0, <1>p, MovesTyped, KeptFields
  <2>6. /\ c'.pc = "confirm" /\ c'.link = c.link /\ c'.hs = "WAIT_FINISHED_P" /\ c'.neg = c.neg
        /\ c'.mode = c.mode
    BY <2>4, <2>5 DEF KeptAll, Kept, Processes
  <2>7. Await
    BY <2>1, <2>4, Taken DEF Answer
  <2>8. UNCHANGED cur /\ Up' = Up /\ Await'
    BY <2>4, <2>7, VarsStill
  <2>9. ConfirmAt'
    BY <1>1, <1>4, <2>4, <2>6, <2>8 DEF ConfirmAt, Up1, OnLink, Same, Handshakes
  <2> QED BY <2>6, <2>9, Lands
<1> QED BY <1>3, <1>4

(* FINISHED_C is taken up, also while READY_CP3 is still being delivered. *)
LEMMA ConfirmClean ==
  ASSUME Standing, SendFinishedC, faults' = faults
  PROVE  CleanAt'
<1>0. c \in Processes /\ CleanAt /\ Inv /\ faults \in Nat
  BY DEF Standing, CentralInv, SystemTyped, ProcessTyped
<1>1. ConfirmAt
  BY <1>0 DEF CleanAt, ExchangeAt, SendFinishedC
<1>2. /\ Same /\ inbox = <<>> /\ Confirms /\ Live3 /\ SlotFree /\ keys.hs = cur /\ cur # 0
  BY <1>1 DEF ConfirmAt, Up1, Up, OnLink, Same, Await, Hand, Confirms, HostFree, Live3, Linked
<1>3. PICK good \in BOOLEAN : FinishedC(good) /\ Expected1(good)
  BY <1>2 DEF SendFinishedC, Submits, Fails
<1>4. good
  BY <1>0, <1>3 DEF Expected1, Disturbs
<1>5. /\ cp3' = [cp3 EXCEPT !.state = "FINISHED_P_BUSY", !.worker = TRUE]
      /\ slot' = Job("finished", cur, TRUE) /\ UNCHANGED <<link, cp2, keys, w>>
  BY <1>2, <1>3, <1>4 DEF FinishedC
<1>6. slot'.pending /\ Queued("finished")'
  BY <1>5 DEF Job, Queued, HasJob
<1>7. c' = To("finished") /\ inbox' = inbox
  BY <1>2, <1>6 DEF SendFinishedC, Submits, Fails
<1>8. /\ c'.pc = "finished" /\ c'.link = c.link /\ c'.hs = c.hs /\ c'.neg = c.neg /\ c'.mode = c.mode
  BY <1>0, <1>7, KeptFields DEF KeptAll, Kept, Places, Exchange
<1>9. cp3'.state = "FINISHED_P_BUSY" /\ cp3'.conn = cp3.conn /\ cp3'.gen = cp3.gen /\ cp3'.left = cp3.left
  BY <1>0, <1>5, JobTyped DEF JobTypes, Cp3Recs
<1>10. UNCHANGED <<cur, gen, notify, l4, notice>>
  BY <1>5 DEF link
<1>11. Hand' /\ keys'.hs = cur' /\ (w'.pc = "idle" \/ Finishing')
  BY <1>1, <1>2, <1>5, <1>9, <1>10 DEF ConfirmAt, Await, Hand, Finishing
<1>12. DoingF'
  BY <1>6, <1>9, <1>11 DEF DoingF
<1>13. Up1' /\ Handshakes'
  BY <1>1, <1>8, <1>10 DEF ConfirmAt, Up1, Up, OnLink, Same, Handshakes
<1> QED BY <1>1, <1>2, <1>7, <1>8, <1>12, <1>13, Lands DEF FinishedAt, ConfirmAt

(* accept_finished_p: both sides are secure. *)
LEMMA FinishedClean ==
  ASSUME Standing, AcceptFinishedP
  PROVE  CleanAt'
<1>0. c \in Processes /\ CleanAt
  BY DEF Standing, CentralInv, SystemTyped, ProcessTyped
<1>1. FinishedAt /\ Up1 /\ c.link = cur /\ cur # 0
  BY <1>0 DEF CleanAt, ExchangeAt, AcceptFinishedP, FinishedAt, Up1, OnLink, Same
<1>2. Answer("FINISHED_P", 0) => Is("FINISHED_P") /\ Mine
  <2>1. Answer("FINISHED_P", 0) => inbox # <<>> /\ Head(inbox) = Frame("FINISHED_P", cur, 0)
    BY Taken DEF Answer
  <2> QED BY <1>1, <2>1 DEF Is, Mine, Frame
<1>3. (inbox = <<>> /\ DoingF) \/ (Answer("FINISHED_P", 0) /\ Rests(0))
  BY <1>1 DEF FinishedAt
<1>4. DoingF => ~Silent
  BY <1>1 DEF DoingF, Silent, Queued, Going, HasJob, Works, Busy, Computing
<1>5. /\ Receives(Is("FINISHED_P") /\ Mine /\ c.hs = "WAIT_FINISHED_P", [To("quiet") EXCEPT !.hs = "APP_SECURE"])
      /\ c.hs = "WAIT_FINISHED_P"
  BY <1>1 DEF AcceptFinishedP, FinishedAt
<1>6. /\ UNCHANGED vars /\ inbox' = <<>> /\ c' = [To("quiet") EXCEPT !.hs = "APP_SECURE"]
      /\ Answer("FINISHED_P", 0)
  BY <1>1, <1>2, <1>3, <1>4, <1>5, ReceivesClean
<1>7. To("quiet") \in Processes /\ To("quiet").pc = "quiet" /\ KeptAll(To("quiet"))
  BY <1>0, MovesTyped, KeptFields DEF Places, Exchange
<1>8. /\ c'.pc = "quiet" /\ c'.link = c.link /\ c'.hs = "APP_SECURE" /\ c'.neg = c.neg /\ c'.mode = c.mode
  BY <1>6, <1>7 DEF KeptAll, Kept, Processes
<1>9. Rests(0)
  BY <1>3, <1>6, Taken DEF Answer
<1>10. UNCHANGED cur /\ Up' = Up /\ Rests(0)'
  BY <1>6, <1>9, VarsStill
<1>11. Over'
  BY <1>10 DEF Rests, AtRest, SlotFree, Over
<1>12. QuietAt'
  BY <1>1, <1>6, <1>8, <1>10, <1>11 DEF QuietAt, Up1, OnLink, Same, FinishedAt
<1> QED BY <1>8, <1>12, Lands
(* The quiet window: nothing comes. *)
LEMMA QuietClean ==
  ASSUME Standing, Quiet
  PROVE  CleanAt'
<1>0. c \in Processes /\ CleanAt /\ c.tx = 0
  BY DEF Standing, CentralInv, SystemTyped, ProcessTyped, Quiet, At, PassInv, RoundInv, Early
<1>1. QuietAt /\ Up1 /\ Same /\ c.neg = "none" /\ inbox = <<>>
  BY <1>0 DEF CleanAt, ExchangeAt, Quiet, QuietAt, Up1, OnLink
<1>2. UNCHANGED vars /\ inbox' = <<>> /\ c' = IF c.mode = "cp4" THEN To("ping") ELSE Ends("ok")
  BY <1>1 DEF Quiet, Holds, Step
<1>3. UNCHANGED cur /\ Up' = Up /\ Over' = Over /\ Rests(0)' = Rests(0)
  BY <1>2, VarsStill
<1>4. CASE c.mode = "cp4"
  <2>1. /\ c'.pc = "ping" /\ c'.link = c.link /\ c'.hs = c.hs /\ c'.neg = c.neg /\ c'.mode = c.mode
        /\ c'.tx = 0
    BY <1>0, <1>2, <1>4, KeptFields DEF KeptAll, Kept, Places, Exchange
  <2>2. c.hs = "APP_SECURE" /\ Rests(0)
    BY <1>1, <1>4 DEF QuietAt, Handshakes
  <2>3. Settled(0)'
    BY <1>3, <2>2 DEF Settled
  <2>4. InApp'
    BY <1>1, <1>3, <1>4, <2>1, <2>2 DEF InApp, Up1, OnLink, Same
  <2>5. PingAt'
    BY <1>2, <2>1, <2>3, <2>4 DEF PingAt
  <2> QED BY <2>1, <2>5, Lands
<1>5. CASE c.mode # "cp4"
  <2>1. c' = Ends("ok")
    BY <1>2, <1>5
  <2>2. c'.link = c.link /\ c'.hs = c.hs
    BY <1>0, <2>1, KeptFields
  <2>3. Same' /\ Over' /\ (Handshakes => c.hs = "APP_SECURE")
    BY <1>1, <1>3, <2>2 DEF Same, QuietAt
  <2> QED BY <1>0, <1>1, <1>2, <1>5, <2>1, <2>3, EndsClean
<1> QED BY <1>4, <1>5

(* encrypt_ping: the Peripheral takes the PING, unless it is still          *)
(* delivering the last PONG.                                                *)
LEMMA PingClean ==
  ASSUME Standing, SendPing, Undisturbed', faults' = faults
  PROVE  CleanAt'
<1>0. /\ c \in Processes /\ CleanAt /\ Inv /\ faults \in Nat /\ c.tx = c.rx /\ c.tx < Rounds
  BY DEF Standing, CentralInv, SystemTyped, ProcessTyped, PassInv, RoundInv, SendPing
<1>1. PingAt
  BY <1>0 DEF CleanAt, ExchangeAt, SendPing
<1>k. PICK k \in Nat : k = c.tx /\ k = c.rx /\ k < SEQ_MAX
  BY <1>0, V1CentralAssumption, HandshakeAssumption DEF Processes, Rounds
<1>2. /\ Same /\ HostFree /\ l4 /\ notify /\ notice = "no" /\ inbox = <<>> /\ Settled(k) /\ cur # 0
  BY <1>1, <1>k DEF PingAt, InApp, Up1, Up, OnLink, Same, HostFree
<1>3. ~Fails(inbox # <<>> \/ ~(l4 \/ cp3.state = "APP_SECURE"))
  BY <1>2 DEF Fails
<1>4. CASE Rests(k)
  <2>1. Takes4
    BY <1>0, <1>2, <1>4, <1>k
       DEF Takes4, Rests, Secure, Accepts4, Live4, Linked, Draining, AtRest, Inv, SecretInv, KeysOfThisLink
  <2>2. PICK good \in BOOLEAN : Cp4Ping(c.tx, good) /\ Expected1(good)
    BY <1>3, <2>1 DEF SendPing, Ping
  <2>3. good
    BY <1>0, <2>2 DEF Expected1, Disturbs
  <2>4. /\ keys' = [keys EXCEPT !.pend = TRUE, !.ready = FALSE] /\ slot' = Job("cp4", cur, TRUE)
        /\ cp3' = [cp3 EXCEPT !.worker = TRUE] /\ UNCHANGED <<link, cp2, w>>
    BY <2>2, <2>3 DEF Cp4Ping
  <2>5. inbox' = inbox /\ c' = [[c EXCEPT !.tx = @ + 1] EXCEPT !.pc = "pong"]
    BY <1>3, <2>1 DEF SendPing
  <2>6. /\ c'.pc = "pong" /\ c'.rx = k /\ c'.link = c.link /\ c'.hs = c.hs /\ c'.neg = c.neg /\ c'.mode = c.mode
    BY <1>0, <1>k, <2>5 DEF Processes
  <2>7. /\ keys'.pend /\ ~keys'.ready /\ keys'.app = keys.app /\ keys'.rx = keys.rx /\ keys'.tx = keys.tx
        /\ cp3'.state = cp3.state /\ cp3'.conn = cp3.conn /\ cp3'.gen = cp3.gen /\ cp3'.worker
    BY <1>0, <2>4, JobTyped DEF JobTypes, KeyRecs, Cp3Recs
  <2>8. UNCHANGED <<cur, gen, notify, l4, notice>>
    BY <2>4 DEF link
  <2>9. Secure(k)'
    BY <1>4, <2>4, <2>7, <2>8 DEF Rests, Secure
  <2>10. Queued("cp4")' /\ slot'.fresh /\ w'.pc = "idle"
    BY <1>4, <2>4 DEF Queued, HasJob, Job, Rests, AtRest
  <2>11. Pinged(k)'
    BY <2>7, <2>9, <2>10 DEF Pinged
  <2>12. InApp'
    BY <1>1, <2>6, <2>8 DEF PingAt, InApp, Up1, Up, OnLink, Same
  <2>13. PongAt'
    BY <1>2, <2>5, <2>6, <2>11, <2>12 DEF PongAt
  <2> QED BY <2>6, <2>13, Lands
<1>5. CASE ~Rests(k)
  <2>1. cp3.delivery
    BY <1>2, <1>5 DEF Settled, Counts
  <2>2. ~Takes4
    BY <2>1 DEF Takes4, Accepts4, Draining
  <2>3. c' = [Ends("error") EXCEPT !.early = cp3.delivery]
    BY <1>3, <2>2 DEF SendPing, Calls
  <2>4. Ends("error") \in Processes
    BY <1>0, MovesTyped DEF Verdicts
  <2>5. c'.early
    BY <2>1, <2>3, <2>4 DEF Processes
  <2> QED BY <2>5 DEF Undisturbed
<1> QED BY <1>4, <1>5

(* The PONG is taken, and with the last of them the exchange is complete. *)
LEMMA PongClean ==
  ASSUME Standing, AcceptPong
  PROVE  CleanAt'
<1>0. /\ c \in Processes /\ CleanAt /\ c.tx = c.rx + 1 /\ c.rx < Rounds
  BY DEF Standing, CentralInv, SystemTyped, ProcessTyped, PassInv, RoundInv, AcceptPong
<1>k. PICK k \in Nat : k = c.rx
  BY <1>0 DEF Processes
<1>n. PICK n \in Nat : n = c.tx
  BY <1>0 DEF Processes
<1>1. /\ InApp /\ Up1 /\ c.link = cur /\ cur # 0
      /\ (inbox = <<>> /\ Pinged(k)) \/ (Answer("PONG", k) /\ Settled(n))
  BY <1>0, <1>k, <1>n DEF CleanAt, ExchangeAt, AcceptPong, PongAt, InApp, Up1, OnLink, Same
<1>2. Answer("PONG", k) => Is("PONG") /\ Mine /\ Head(inbox).seq = c.rx
  <2>1. Answer("PONG", k) => inbox # <<>> /\ Head(inbox) = Frame("PONG", cur, k)
    BY Taken DEF Answer
  <2> QED BY <1>1, <1>k, <2>1 DEF Is, Mine, Frame
<1>3. Pinged(k) => ~Silent
  BY <1>1 DEF Pinged, Silent, Queued, Going, Telling, HasJob, Works, Busy, Computing
<1> DEFINE p == IF c.rx + 1 = Rounds THEN "settle" ELSE "ping"
<1>4. /\ UNCHANGED vars /\ inbox' = <<>> /\ c' = [To(p) EXCEPT !.rx = @ + 1]
      /\ Answer("PONG", k)
  <2> DEFINE valid == Is("PONG") /\ Mine /\ Head(inbox).seq = c.rx
             next == [To(p) EXCEPT !.rx = @ + 1]
  <2>1. Receives(valid, next)
    BY DEF AcceptPong
  <2>2. Answer("PONG", k) => valid
    BY <1>2
  <2> HIDE DEF valid, next
  <2>3. UNCHANGED vars /\ inbox' = <<>> /\ c' = next /\ Answer("PONG", k)
    BY <1>1, <1>3, <2>1, <2>2, ReceivesClean
  <2> QED BY <2>3 DEF next
<1>p. p \in Places
  BY DEF Places, Exchange
<1>5. To(p) \in Processes /\ To(p).pc = p /\ KeptAll(To(p))
  BY <1>0, <1>p, MovesTyped, KeptFields
<1>6. /\ c'.pc = p /\ c'.link = c.link /\ c'.hs = c.hs /\ c'.neg = c.neg /\ c'.mode = c.mode
      /\ c'.tx = n /\ c'.rx = k + 1
  <2> HIDE DEF p
  <2> QED BY <1>4, <1>5, <1>k, <1>n DEF KeptAll, Kept, Processes
<1>7. Settled(n)
  BY <1>1, <1>4, Taken DEF Answer
<1>8. UNCHANGED cur /\ Up' = Up /\ Settled(n)'
  BY <1>4, <1>7, VarsStill
<1>9. InApp'
  BY <1>1, <1>6, <1>8 DEF InApp, Up1, OnLink, Same
<1>10. PingAt'
  BY <1>4, <1>6, <1>8, <1>9 DEF PingAt
<1>11. p = "settle" => Complete1'
  BY <1>0, <1>6, <1>k, <1>n DEF Complete1, Rounds
<1> QED BY <1>6, <1>10, <1>11, Lands DEF SettleAt
(* The end of the exchange. *)
LEMMA SettleClean ==
  ASSUME Standing, Settle
  PROVE  CleanAt'
<1>0. c \in Processes /\ CleanAt
  BY DEF Standing, CentralInv, SystemTyped, ProcessTyped
<1>1. SettleAt /\ Same /\ c.neg = "none" /\ c.hs = "APP_SECURE" /\ Complete1 /\ inbox = <<>>
  BY <1>0 DEF CleanAt, ExchangeAt, Settle, SettleAt, PingAt, InApp, Up1, OnLink
<1>2. UNCHANGED vars /\ inbox' = <<>> /\ c' = Ends("ok")
  BY <1>1 DEF Settle, Step
<1>3. Over
  BY <1>1 DEF SettleAt, PingAt, Settled, Rests, Counts, AtRest, SlotFree, Over
<1>4. UNCHANGED cur /\ Over'
  BY <1>2, <1>3, VarsStill
<1>5. c'.link = c.link /\ c'.hs = c.hs
  BY <1>0, <1>2, KeptFields
<1>6. Same'
  BY <1>1, <1>4, <1>5 DEF Same
<1> QED BY <1>0, <1>1, <1>2, <1>4, <1>6, EndsClean
(* The end of the process: stop_notify, what is checked once more, and the  *)
(* link given up.                                                           *)
LEMMA StopClean ==
  ASSUME Standing, StopNotify \/ Report
  PROVE  CleanAt'
<1>0. c \in Processes /\ CleanAt
  BY DEF Standing, CentralInv, SystemTyped, ProcessTyped
<1>1. CleanupAt
  BY <1>0 DEF CleanAt, EndAt, StopNotify, Report
<1>2. CASE StopNotify
  <2>1. c' = To("report") /\ inbox' = inbox
    BY <1>2 DEF StopNotify, Calls, Step
  <2>2. /\ c'.pc = "report" /\ c'.link = c.link /\ c'.hs = c.hs /\ c'.neg = c.neg /\ c'.mode = c.mode
        /\ c'.tx = c.tx /\ c'.rx = c.rx /\ c'.verdict = c.verdict
    BY <1>0, <2>1, KeptFields DEF KeptAll, Kept, Places
  <2>3. c.verdict = "ok" /\ Handshakes => UNCHANGED cur /\ Over' = Over
    <3>1. c.verdict = "ok" /\ Handshakes => UNCHANGED vars
      BY <1>2 DEF StopNotify, Step
    <3> QED BY <3>1, VarsStill
  <2>4. CleanupAt'
    BY <1>1, <2>1, <2>2, <2>3 DEF CleanupAt, ExitZero, Handshakes, Same, Complete1
  <2> QED BY <2>2, <2>4, Lands
<1>3. CASE Report
  <2>1. Reports
    BY <1>1 DEF CleanupAt, Reports, Complete1
  <2> DEFINE x == Closed(c)
  <2>2. c' = [x EXCEPT !.pc = "exit", !.verdict = x.verdict]
    BY <1>3, <2>1 DEF Report
  <2>3. x \in Processes /\ x.verdict = c.verdict /\ x.neg = c.neg
    BY <1>0, KeptFields DEF Kept
  <2> HIDE DEF x
  <2>4. c'.pc = "exit" /\ c'.verdict = c.verdict /\ c'.neg = c.neg
    BY <2>2, <2>3 DEF Processes
  <2> QED BY <1>1, <2>4, Lands DEF CleanupAt, ExitZero
<1> QED BY <1>2, <1>3

(* Nothing moves. *)
LEMMA StillClean ==
  ASSUME UNCHANGED system, CleanAt
  PROVE  CleanAt'
<1>1. UNCHANGED <<cur, gen, notify, l4, notice, ct, cp2, cp3, keys, slot, w, c, inbox, bonds, cer, os>>
  BY DEF system, vars, link, transfer, pairing
<1> QED BY <1>1 DEF CleanAt, ApproachAt, UploadAt, ExchangeAt, EndAt, At, Gated1, Unheard, Waits,
       Fresh, AtRest, SlotFree, Draining, EnsureAt, Unbonded, Refused1, Bonded, OnLink, Same, Up1, Up, StartAt,
       Handshakes, ReadyAt, ConfirmAt, FinishedAt, QuietAt, PingAt, PongAt, SettleAt, InApp, Complete1, CleanupAt,
       ExitZero, Answer, Doing2, Doing3, Await, DoingF, Over, Rests, Settled, Pinged, Counts, Secure, Hand,
       Finishing, Queued, Going, Telling, HasJob, Works, CeremonyAt, Met, Answered, Returned

(* No process runs, or the time limit of the pairing passes, which no       *)
(* undisturbed process meets.                                               *)
LEMMA RestClean ==
  ASSUME Standing, ClearDkBonds \/ AllDone \/ PairTimesOut, Undisturbed'
  PROVE  CleanAt'
<1>0. c \in Processes /\ CleanAt /\ faults \in Nat
  BY DEF Standing, CentralInv, SystemTyped, ProcessTyped
<1>1. CASE ClearDkBonds
  <2>1. c' = c /\ c.pc = "exit" /\ ExitZero
    BY <1>0, <1>1 DEF ClearDkBonds, CleanAt, EndAt, At
  <2> QED BY <2>1, Lands DEF ExitZero
<1>2. CASE AllDone
  BY <1>0, <1>2, StillClean DEF AllDone
<1>3. CASE PairTimesOut
  <2>1. c' = [Ends("error") EXCEPT !.base = -1] /\ faults' = faults
    BY <1>3 DEF PairTimesOut
  <2>2. Ends("error") \in Processes
    BY <1>0, MovesTyped DEF Verdicts
  <2>3. c'.base = -1
    BY <2>1, <2>2 DEF Processes
  <2> QED BY <1>0, <2>1, <2>3 DEF Undisturbed
<1> QED BY <1>1, <1>2, <1>3
(* A disturbance is counted. *)
LEMMA Disturbing ==
  ASSUME faults \in Nat, faults' = faults
  PROVE  ~(PairsElsewhere \/ FinishedLate \/ Downgraded \/ Aborts \/ Unsolicited)
<1>1. ~Disturbs
  BY DEF Disturbs
<1> QED BY <1>1 DEF PairsElsewhere, FinishedLate, Downgraded, Aborts, Unsolicited

(* So an undisturbed process stays where it should be: it was undisturbed   *)
(* before the step, and the step is none of the disturbances.               *)
LEMMA CleanStep ==
  ASSUME Inv, CentralInv, PongInv, AgreeInv, PassInv, FlagsEarned, BoundaryClear, CleanInv, [V1Next]_system
  PROVE  CleanInv'
<1> SUFFICES ASSUME Undisturbed' PROVE CleanAt'
  BY DEF CleanInv
<1>0. SystemTyped /\ Heading /\ c \in Processes /\ faults \in Nat /\ c.base \in Int
  BY DEF CentralInv, SystemTyped, ProcessTyped, ConsentInv, Processes
<1>1. CASE UNCHANGED system
  <2>1. Undisturbed
    BY <1>1 DEF Undisturbed, system
  <2> QED BY <1>1, <2>1, StillClean DEF CleanInv
<1>2. CASE V1Next /\ NewRun
  BY <1>0, <1>2, RunBegins, Lands
<1>3. CASE V1Next /\ ScanAndConnect
  BY <1>3, ConnectClean
<1>4. CASE V1Next /\ ~NewRun /\ ~ScanAndConnect
  <2>1. faults' \in {faults, faults + 1}
    BY <1>4, OneFault
  <2>2. Carried
    BY <1>0, <1>4, <2>1, ExchangeCarried, ApproachCarried DEF V1Next, ProcessNext
  <2>3. c.base = faults /\ faults' = faults
    BY <1>0, <2>1, <2>2 DEF Carried, Undisturbed, BoundaryClear
  <2>4. ~c.early
    BY <2>2 DEF Carried, Undisturbed, BoundaryClear
  <2>5. Standing
    BY <2>3, <2>4 DEF Standing, Undisturbed, CleanInv
  <2>6. CASE \/ Inspect \/ EnsureConnected \/ PreL4Probes \/ Pair \/ PairReturns \/ PairTimesOut \/ RetireLink
             \/ VerifyClosed
    BY <2>3, <2>5, <2>6, InspectClean, EnsureClean, ProbesClean, PairClean, PairReturnsClean, RestClean, RetireClean
  <2>7. CASE \/ StartNotify \/ Attest("attest1", "info1") \/ Attest("attest2", "info2") \/ Attested \/ Upload
             \/ SendStart \/ ReadyV1 \/ AcceptReady
    BY <2>3, <2>5, <2>7, SubscribeClean, AttestClean, AttestedClean, UploadClean, StartClean, ReadyClean
  <2>8. CASE SendFinishedC \/ AcceptFinishedP \/ Quiet \/ SendPing \/ AcceptPong \/ Settle \/ StopNotify \/ Report
    BY <2>3, <2>5, <2>8, ConfirmClean, FinishedClean, QuietClean, PingClean, PongClean, SettleClean, StopClean
  <2>9. CASE ClearDkBonds \/ AllDone \/ PairingNext \/ PeripheralNext
    BY <1>0, <2>3, <2>5, <2>9, RestClean, AnswersClean, PairsClean, PeripheralClean, Disturbing DEF PairingNext
  <2>10. CASE DisturbedNext
    BY <1>0, <2>3, <2>5, <2>10, PeripheralClean, RetireClean, Disturbing DEF DisturbedNext
  <2> QED BY <1>4, <2>6, <2>7, <2>8, <2>9, <2>10 DEF V1Next, ProcessNext
<1> QED BY <1>1, <1>2, <1>3, <1>4
(* The flags of the Peripheral, the ends of a process and the place of an   *)
(* undisturbed one, in every state: CleanInv is inductive relative to the   *)
(* invariants above.                                                        *)
THEOREM CleanInvariant == V1Spec => [](FlagsEarned /\ BoundaryClear /\ CleanInv)
<1>1. V1Init => FlagsEarned /\ BoundaryClear /\ CleanInv
  <2> SUFFICES ASSUME V1Init PROVE FlagsEarned /\ BoundaryClear /\ CleanInv
    OBVIOUS
  <2> USE DEF V1Init, Init, NoCp2, NoCp3, NoProcess
  <2>1. FlagsEarned
    BY DEF FlagsEarned
  <2>2. BoundaryClear
    BY DEF BoundaryClear, At
  <2>3. ~Undisturbed
    BY DEF Undisturbed
  <2> QED BY <2>1, <2>2, <2>3 DEF CleanInv
<1>2. /\ Inv /\ CentralInv /\ PongInv /\ AgreeInv /\ PassInv
      /\ FlagsEarned /\ BoundaryClear /\ CleanInv /\ [V1Next]_system
      => FlagsEarned' /\ BoundaryClear' /\ CleanInv'
  <2> SUFFICES ASSUME Inv, CentralInv, PongInv, AgreeInv, PassInv, FlagsEarned, BoundaryClear, CleanInv,
                      [V1Next]_system
               PROVE  FlagsEarned' /\ BoundaryClear' /\ CleanInv'
    OBVIOUS
  <2>1. [Next]_vars
    <3>1. UNCHANGED system => UNCHANGED vars
      BY DEF system
    <3> QED BY <3>1, PeripheralStep DEF CentralInv, SystemTyped
  <2> QED BY <2>1, FlagsStep, BoundaryStep, CleanStep
<1> QED BY <1>1, <1>2, CentralInvariant, AgreementInvariant, PassInvariant, PTL DEF V1Spec

(* V1UndisturbedPasses.  A process that met a Peripheral at rest, the same  *)
(* bonds on both sides and no disturbance exits with zero, whatever the     *)
(* processes before it left behind; but for the PING that arrives while     *)
(* v1_cp4_result_ready still delivers a PONG.                               *)
THEOREM UndisturbedSafe == V1Spec => []V1UndisturbedPasses
<1>1. CleanInv => V1UndisturbedPasses
  BY DEF CleanInv, Undisturbed, CleanAt, EndAt, V1UndisturbedPasses
<1> QED BY <1>1, CleanInvariant, PTL
=============================================================================
