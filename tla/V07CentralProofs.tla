-------------------------- MODULE V07CentralProofs --------------------------
(***************************************************************************)
(* The Central and the Peripheral of the v0.7 build together, for every     *)
(* number of rounds, processes, disturbances, connections and START         *)
(* commands: the Peripheral is the one of V07Session, a process finds only  *)
(* its own answers, the data planes of both ends stay in step, keys follow  *)
(* a confirmed SAS, and exit status zero is earned.                         *)
(***************************************************************************)
EXTENDS V07Central, V07SessionProofs

-----------------------------------------------------------------------------
(* Where a process can be: before its START, on its own with no request     *)
(* under way, waiting for the answer to its last request, and at its end.   *)
Begin == {"connect", "subscribe", "prepare", "upload", "start"}
Asking == {"decrypt", "sas", "finished", "secure", "quiet", "probe", "rejected", "blocked",
           "retry", "next", "replay", "again"}
Waiting == {"ready", "confirm", "data", "tampered", "pong", "first", "replayed"}
Ending == {"cleanup", "close", "exit"}
Stations == Begin \cup Asking \cup Waiting \cup Ending
Confirming == {"finished", "confirm", "blocked", "secure", "data", "tampered", "retry", "pong",
               "next", "replay", "replayed", "first", "again"}

Five == {"phase5", "phase6", "c2p"}
SixFlows == {"phase6", "c2p"}
Negs == {"none", "tamper", "aad", "replay", "finished-c", "finished-p", "transcript", "pre-auth",
         "c2p-tamper", "c2p-replay", "p2c-tamper", "p2c-replay", "sas-reject"}
Machines == {"EMPTY", "WAIT_READY_FOR_SAS", "WAIT_SAS_CONFIRM", "WAIT_FINISHED_P", "AUTHENTICATED",
             "WAIT_APPLICATION_DATA", "COMPLETE", "ABORTED"}
ProcessSet ==
    [pc : Stations, flow : Flows \cup {"none"}, neg : Negs,
     then : {"none", "sas", "passed", "retry", "next"}, root : Roots, shown : Roots,
     round : 0 .. Rounds, tx : 0 .. Rounds, rx : 0 .. LABELS + 2, checked : BOOLEAN,
     machine : Machines, vouched : BOOLEAN, verdict : {"none", "ok", "passed", "error"},
     base : -1 .. MaxFaults, early : BOOLEAN]
Messages ==
    [type : {"PQM2", "DATA3", "READY_FOR_SAS", "FINISHED_P", "DATA5", "PONG", "READY7_CP2",
             "READY7_AUTH", "ERROR"},
     root : Roots, seq : Counted, label : Seqs, status : {0, 4, 5, 6}]

(* The counters of a process, by where it is. *)
Goal == IF c.flow = "c2p" THEN 1 ELSE Rounds
Untouched == c.tx = 0 /\ c.rx = 0
NoTraffic == Untouched /\ c.round = 0
Between == c.tx = c.round /\ c.rx = c.round /\ c.round < Goal
Sent == c.tx = c.round + 1 /\ c.rx = c.round /\ c.round < Goal
Got == c.tx = c.round + 1 /\ (c.flow = "phase7" => c.rx = c.round + 1) /\ c.round < Goal
AllRounds == c.tx = Rounds /\ c.rx = Rounds
HandshakeTest == c.neg \in {"sas-reject", "finished-c"}

CounterInv ==
    /\ c.pc \in Begin \cup {"ready", "decrypt", "sas", "finished", "confirm", "data", "probe",
                            "rejected", "blocked"} => NoTraffic
    /\ c.pc = "secure" => Between /\ (c.flow = "phase5" => NoTraffic)
    /\ c.pc \in {"pong", "tampered", "retry", "first"} => Sent
    /\ c.pc \in {"next", "replay", "replayed", "again"} => Got
    /\ c.pc = "quiet" => /\ c.flow = "phase7"
                         /\ \/ c.then = "sas" /\ NoTraffic
                            \/ c.then = "retry" /\ Sent
                            \/ c.then = "next" /\ Got
                            \/ c.then = "passed" /\ (IF HandshakeTest THEN NoTraffic ELSE AllRounds)
(* Before its START a process has no secret and nothing to vouch for; later *)
(* it has both, and exit status zero says how far it came.                  *)
StandingInv ==
    /\ c.pc \in Begin => c.root = 0 /\ ~c.vouched
    /\ c.pc \in Asking \cup Waiting => c.root # 0
    /\ c.pc \in Confirming => c.vouched
    /\ c.pc \in {"ready", "probe"} => ~c.vouched
    /\ c.pc = "quiet" /\ c.then \in {"retry", "next"} => c.vouched
    /\ c.vouched => c.neg # "sas-reject"
    /\ c.neg = "sas-reject" => c.flow = "phase7"
    /\ c.neg = "transcript" => c.flow = "phase5"
    /\ c.neg = "finished-c" => c.flow \in {"phase5", "phase7"}
    /\ c.pc = "rejected" => c.neg = "sas-reject"
    /\ c.pc = "blocked" => c.neg = "finished-c"
    /\ c.flow = "phase7" /\ (c.pc \in {"secure", "tampered", "retry", "pong", "next", "replay", "replayed"}
                             \/ (c.pc = "quiet" /\ c.then \in {"retry", "next"})) => ~HandshakeTest
    /\ c.pc \notin Ending => c.verdict = "none"
    /\ c.pc = "cleanup" /\ c.verdict \in {"ok", "passed"} =>
           /\ c.neg # "pre-auth" => c.root # 0
           /\ c.flow = "phase7" => IF HandshakeTest THEN NoTraffic ELSE AllRounds
           /\ c.flow \in SixFlows /\ c.verdict = "ok" => c.tx = Goal /\ c.rx = Goal
           /\ c.flow \in SixFlows /\ c.verdict = "passed" => c.neg # "none"
ProcessInv ==
    /\ c \in ProcessSet /\ inbox \in Seq(Messages) /\ runs \in 0 .. MaxRuns
    /\ faults \in 0 .. MaxFaults /\ CounterInv /\ StandingInv
BaseInv == Typed /\ ProcessInv

-----------------------------------------------------------------------------
(* The link and the START of a process.  A subscribed link owes no reset,   *)
(* each link sees one START, and the secrets of older ones are gone.        *)
ProcessLink ==
    /\ c.pc \in {"exit", "connect"} => cur = 0
    /\ notify => HostFree /\ cur # 0
    /\ c.root # 0 => c.root = starts /\ starts = born + 1
    /\ c.root = 0 /\ cur # 0 => starts = born
    /\ cur = 0 \/ c.root = 0 => p5 = "IDLE" /\ p7 = "IDLE"
    /\ c.root # 0 => {s5.root, s6.root, s7.root} \subseteq {0, c.root} /\ (w.pc \in Modes => w.root = c.root)

(* Jobs, while a process has a secret, are its own, and on its live link    *)
(* they have their material.                                                *)
ModesOf(flow) ==
    CASE flow = "phase2" -> {"diag"} [] flow = "phase3" -> {"secure"} [] flow = "hybrid" -> {"cp2"}
      [] flow = "phase5" -> {"start5", "finished5", "data5"}
      [] flow \in SixFlows -> {"start5", "finished5", "data6"}
      [] flow = "phase7" -> Jobs7 [] OTHER -> {}
Working == w.pc \in Computing \cup {"result"}
ToUs == w.pc \in Delivering /\ w.conn = cur
JobInv ==
    /\ jobConn # 0 => c.root # 0
    /\ c.root # 0 /\ slot.pending => slot.mode \in ModesOf(c.flow)
    /\ c.root # 0 /\ Working => w.mode \in ModesOf(c.flow)
    /\ ToUs => c.root # 0 /\ w.mode \in ModesOf(c.flow) /\ w.root = c.root /\ ~slot.pending
    /\ slot.pending /\ jobConn # 0 /\ notify /\ slot.mode \notin Starts => w.pc = "idle" /\ Usable(slot)
    /\ jobConn # 0 /\ notify /\ Working => w.root = c.root
(* The steps of v0.7 after a notification, and the phase until then. *)
Steps7 == {"wait7", "commit7", "auth7", "fail7", "reset7"}
Open7 == {"WAIT_FINISHED_C", "AUTHENTICATED"}
PhaseInv ==
    /\ w.pc \in Steps7 => w.mode \in Jobs7
    /\ InSlot(Jobs7) \/ InWorker(Jobs7) => p7 \notin Open7
    /\ ToUs /\ w.pc = "notify" /\ w.mode \in {"start7", "finished7"} => p7 \notin Open7
    /\ w.mode = "data5" => w.tx = 0

(* At most one request or answer is under way.  After the answer the worker *)
(* is idle, or still busy with a step of v0.7 that keeps the phase closed.  *)
Settled ==
    \/ w.pc = "idle"
    \/ c.flow = "phase7" /\ ToUs /\ w.pc \in Steps7 /\ p7 \notin Open7
NoneUnderWay == ~JobHere /\ ~(ToUs /\ w.pc = "notify")
QueueInv ==
    /\ inbox # <<>> => /\ Len(inbox) = 1 /\ c.root # 0 /\ inbox[1].root = c.root /\ NoneUnderWay
                       /\ cur # 0 => Settled \/ (inbox[1].type = "ERROR" /\ c.flow \in Five)
    /\ c.pc \in Asking => inbox = <<>> /\ NoneUnderWay /\ (cur # 0 => Settled)
    /\ c.pc = "exit" => inbox = <<>>

(* What the Peripheral holds for a process is what its flow asked for. *)
Ours(s) == c.root # 0 /\ s.root = c.root
FlowInv ==
    /\ p5 # "IDLE" => c.flow \in Five
    /\ p7 # "IDLE" => c.flow = "phase7"
    /\ Ours(s5) => c.flow \in Five
    /\ Ours(s6) => c.flow \in SixFlows
    /\ Ours(s7) => c.flow = "phase7"
VouchInv ==
    c.root # 0 /\ ~c.vouched =>
        /\ slot.pending => slot.mode \in Starts
        /\ Working => w.mode \in Starts
        /\ Ours(s7) => ~s7.pend /\ ~s7.auth
        /\ Ours(s5) => ~s5.ready
        /\ ~Ours(s6)

(* The data planes.  A session that has not begun its traffic finds no      *)
(* traffic at the Central; then both counters of the Peripheral are at one  *)
(* of the two of the Central; and the frame under way is the last numbered. *)
Even(s) == s.rx = s.tx /\ s.rx \in {c.rx, c.tx}
DataModes == {"data6", "data7"}
CarriesTold == Told5 /\ w.mode \in DataModes /\ (Working \/ ToUs)
PlaneInv ==
    /\ c.tx <= c.rx + 1
    /\ IF c.flow \in SixFlows \cup {"phase7"} THEN c.rx <= c.tx ELSE c.tx = 0 /\ c.rx <= 1
    /\ Ours(s7) => IF s7.auth THEN Even(s7) ELSE Untouched
    /\ Ours(s6) => Even(s6)
    /\ Ours(s5) => c.rx = 0 /\ c.tx <= 1 /\ (s5.wait => c.tx = 0)
FrameInv ==
    c.root # 0 =>
        /\ InSlot(Starts) \/ w.pc \in Starts => Untouched
        /\ InSlot({"finished5", "finished7"}) \/ w.pc \in {"finished5", "finished7"} => Untouched
        /\ InSlot(DataModes) => c.tx = slot.seq + 1
        /\ w.pc \in DataModes => c.tx = w.seq + 1 /\ w.rx = w.tx
        /\ CarriesTold => c.tx = w.tx + 1
AnswerInv ==
    inbox # <<>> =>
        /\ inbox[1].type = "PONG" =>
               /\ c.tx = inbox[1].seq + 1 /\ ~Ours(s5)
               /\ Ours(s6) => s6.tx = c.tx
               /\ Ours(s7) => s7.auth /\ s7.tx = c.tx
        /\ inbox[1].type = "DATA5" => inbox[1].seq = 0 /\ ~Ours(s5)

(* What exit status zero rests on. *)
RefusedInv ==
    /\ c.flow = "phase5" /\ c.neg \in {"finished-c", "transcript"} /\ c.root # 0 =>
           /\ InSlot({"finished5"}) => ~slot.good
           /\ w.pc = "finished5" => ~w.good
           /\ Ours(s5) => ~s5.ready
    /\ c.flow = "phase7" /\ c.neg = "finished-c" /\ c.root # 0 =>
           /\ InSlot({"finished7"}) => ~slot.good
           /\ w.pc = "finished7" => ~w.good
           /\ Ours(s7) => ~s7.pend /\ ~s7.auth
    /\ c.flow \in SixFlows /\ c.neg = "c2p-tamper" /\ c.root # 0 =>
           /\ InSlot({"data6"}) => ~slot.good
           /\ w.pc = "data6" => ~w.good
           /\ ~Ours(s6)
EarnInv ==
    /\ c.pc = "cleanup" /\ c.verdict \in {"ok", "passed"} =>
           /\ c.flow # "phase5" /\ c.root # 0 => ~JobHere
           /\ c.flow \in SixFlows /\ Ours(s6) => s6.tx = c.tx
    /\ c.flow \in SixFlows /\ c.pc \in {"again", "replayed"} => c.rx = c.tx
CoreInv ==
    /\ ProcessLink /\ JobInv /\ PhaseInv /\ QueueInv /\ FlowInv /\ VouchInv /\ PlaneInv /\ FrameInv
    /\ AnswerInv /\ RefusedInv /\ EarnInv
-----------------------------------------------------------------------------
(* The kinds of steps of a process.  What each changes of the process:      *)
Frame == c' \in ProcessSet /\ c'.flow = c.flow /\ c'.neg = c.neg /\ runs' = runs
Steady == Frame /\ c'.root = c.root /\ c'.tx = c.tx
Same == Steady /\ c'.rx = c.rx /\ c'.round = c.round /\ c'.vouched = c.vouched
Fails == Same /\ c'.pc = "cleanup" /\ c'.verdict = "error"

(* It ends without a look into its queue. *)
Quits ==
    /\ UNCHANGED <<vars, inbox>> /\ Same /\ c.pc \in Stations \ {"connect", "cleanup", "close", "exit"}
    /\ c'.pc = "cleanup" /\ (c'.verdict = "error" \/ c.flow = "phase5" \/ c.root = 0)
(* It goes on by itself. *)
Goes ==
    /\ UNCHANGED <<vars, inbox>> /\ Steady /\ c.pc \in Asking /\ c'.pc \in Asking \cup {"cleanup"}
    /\ c'.pc # "again" /\ (c.vouched => c'.vouched) /\ (c'.rx = c.rx \/ (c.flow = "phase3" /\ c'.rx = 1))
    /\ c'.pc = "cleanup" /\ c.flow \in SixFlows => c'.verdict = "error"
(* It takes the answer it waited for. *)
Hears ==
    /\ UNCHANGED vars /\ inbox # <<>> /\ inbox' = Tail(inbox) /\ Steady /\ c'.vouched = c.vouched
    /\ c.pc \in Waiting \cup {"quiet"} /\ c'.pc \in Asking \cup {"cleanup"}
    /\ c'.pc \in Asking => c.flow = "phase7" \/ Head(inbox).type # "ERROR"
    /\ \/ c'.rx = c.rx
       \/ /\ c'.rx = Head(inbox).seq + 1
          /\ \/ Head(inbox).type = "PONG" /\ c.flow \in SixFlows \cup {"phase7"}
             \/ Head(inbox).type = "DATA5" /\ c.flow = "phase5"
    /\ c'.pc = "again" => c.flow \in SixFlows /\ Head(inbox).type = "PONG" /\ c'.rx = Head(inbox).seq + 1
    /\ c'.pc = "cleanup" /\ c.flow \in SixFlows =>
           c'.verdict = "error" \/ Head(inbox).type = "PONG" \/ c.neg = "c2p-tamper" \/ c.pc = "replayed"
(* It subscribes, uploads its ciphertext, and sends its START. *)
Prepares ==
    /\ Subscribe \/ WriteCiphertext("RECEIVING") \/ WriteCiphertext("READY")
    /\ Same /\ inbox' = inbox /\ c.pc \in Begin \ {"connect"} /\ c'.pc \in Begin \ {"connect"}
Begins ==
    /\ \E mode \in Starts \cap ModesOf(c.flow) : Start(mode)
    /\ Frame /\ c'.root = starts' /\ c'.tx = c.tx /\ c'.rx = c.rx /\ c'.vouched = c.vouched
    /\ inbox' = inbox /\ c.pc = "start" /\ c'.pc = "ready"
(* It sends FINISHED_C, asks for the message of v0.5, or writes a frame; if *)
(* the Peripheral has no job for that, it ends.                             *)
Finishes ==
    /\ \E good \in BOOLEAN :
           \/ /\ Phase5FinishedC(good) /\ c.flow \in Five
              /\ c.flow = "phase5" /\ c.neg \in {"finished-c", "transcript"} => ~good \/ s5.root = 0
           \/ Phase7FinishedC(good) /\ c.flow = "phase7" /\ (c.neg = "finished-c" => ~good)
    /\ Same /\ inbox' = inbox /\ c.pc = "finished"
    /\ IF jobConn' = 0 THEN Fails ELSE c'.pc = "confirm"
Asks ==
    /\ Phase5Data /\ c.flow = "phase5" /\ Same /\ inbox' = inbox /\ c.pc = "secure"
    /\ IF jobConn' = 0 THEN Fails ELSE c'.pc = "data"
Writes ==
    /\ \E seq \in Seqs, good \in BOOLEAN :
           /\ WriteSecureData(seq, good) /\ (c.flow \in SixFlows /\ c.neg = "c2p-tamper" => ~good)
           /\ jobConn' # 0 => c'.tx = seq + 1
    /\ Frame /\ c'.root = c.root /\ c'.rx = c.rx /\ c'.vouched = c.vouched /\ inbox' = inbox
    /\ c.pc \in Asking /\ c.flow \in SixFlows \cup {"phase7"} /\ c.vouched
    /\ IF jobConn' = 0 THEN Fails
       ELSE /\ c'.pc \in Waiting /\ c'.tx \in {c.tx, c.tx + 1}
            /\ c'.tx = c.rx + 1 \/ (c'.tx = c.tx /\ (c.rx = c.tx \/ c.pc = "again"))
            /\ c'.pc = "replayed" /\ c.flow \in SixFlows => c.pc = "again" /\ c'.tx = c.tx
(* It tries a frame that must be refused. *)
Probes ==
    /\ \E good \in BOOLEAN : WriteSecureData(0, good)
    /\ Same /\ inbox' = inbox /\ c.pc \in {"probe", "rejected", "blocked"} /\ c.flow = "phase7"
    /\ \/ c'.pc = "quiet" /\ jobConn' = 0
       \/ c'.pc = "cleanup" /\ c'.verdict = "error"
ProbesEarly ==
    /\ \E good \in BOOLEAN : WriteSecureData(0, good)
    /\ Same /\ inbox' = inbox /\ c.pc = "prepare" /\ c'.pc = "cleanup"
(* It connects, and it cleans up. *)
Connects ==
    /\ Connected /\ Same /\ inbox' = <<>> /\ c.pc = "connect" /\ c'.pc = "subscribe"
Leaves ==
    /\ Unsubscribe /\ Same /\ inbox' = inbox /\ c.pc = "cleanup" /\ c'.pc = "close"
Drops ==
    /\ Disconnected /\ Same /\ \E n \in 0 .. Len(inbox) : inbox' = SubSeq(inbox, 1, n)
    /\ \/ c' = c /\ c.pc \notin {"connect", "exit"}
       \/ c.pc = "close" /\ c'.pc = "exit" /\ inbox' = <<>>
Closes ==
    /\ UNCHANGED vars /\ Same /\ inbox' \in {inbox, <<>>} /\ c.pc \in {"connect", "cleanup", "close"}
    /\ c'.pc \in {"close", "exit"} /\ (c'.pc = "exit" => c.pc = "connect" \/ (cur = 0 /\ inbox' = <<>>))
Renews ==
    /\ UNCHANGED <<vars, inbox>> /\ c.pc = "exit" /\ c'.pc = "connect" /\ c'.root = 0 /\ c'.tx = 0 /\ c'.rx = 0
    /\ ~c'.vouched

ProcessStep ==
    \/ Quits \/ Goes \/ Hears \/ Prepares \/ Begins \/ Finishes \/ Asks \/ Writes \/ Probes \/ ProbesEarly
    \/ Connects \/ Leaves \/ Drops \/ Closes \/ Renews
-----------------------------------------------------------------------------
(* The bounds, and the strings of a process. *)
LEMMA Bounds ==
    /\ Rounds \in Nat /\ Rounds >= 1 /\ Rounds <= LABELS + 1 /\ LABELS \in Nat /\ MaxFaults \in Nat
    /\ MaxRuns \in Nat /\ MaxStarts \in Nat
    /\ \A x \in 0 .. Rounds : x \in Seqs /\ (x < Rounds => x + 1 \in 0 .. Rounds)
    /\ Counted = 0 .. LABELS + 1
  BY CentralAssumption, SessionAssumption DEF Seqs, Counted

(* A process that fails may do so from anywhere between its connection and  *)
(* its end.                                                                 *)
Running == c.pc \in Stations \ {"connect", "cleanup", "close", "exit"}
LEMMA FailStep ==
    ASSUME BaseInv, Running, NEW early \in BOOLEAN, NEW machine \in Machines,
           NEW verdict \in {"ok", "passed", "error"},
           c' = [c EXCEPT !.pc = "cleanup", !.verdict = verdict, !.early = early, !.machine = machine],
           verdict # "error" =>
               /\ c.root # 0 \/ c.neg = "pre-auth"
               /\ \/ c.flow \in {"phase2", "phase3", "phase5", "hybrid"}
                  \/ c.flow \in SixFlows /\ verdict = "passed" /\ c.neg # "none",
           inbox' \in Seq(Messages), faults' \in 0 .. MaxFaults, runs' = runs
    PROVE  ProcessInv' /\ Same /\ c'.pc = "cleanup" /\ c'.verdict = verdict
<1>1. c \in ProcessSet
  BY DEF BaseInv, ProcessInv
<1>2. /\ c' \in ProcessSet /\ c'.pc = "cleanup" /\ c'.verdict = verdict /\ c'.flow = c.flow /\ c'.neg = c.neg
      /\ c'.root = c.root /\ c'.tx = c.tx /\ c'.rx = c.rx /\ c'.round = c.round /\ c'.vouched = c.vouched
  BY <1>1 DEF ProcessSet, Stations, Ending
<1>3. CounterInv'
  BY <1>2 DEF CounterInv, Begin
<1>4. StandingInv'
  BY <1>2 DEF StandingInv, Begin, Asking, Waiting, Confirming, Ending, BaseInv, ProcessInv, SixFlows
<1> QED BY <1>2, <1>3, <1>4 DEF Same, Steady, Frame, ProcessInv, BaseInv
(* The ways to write such an end. *)
LEMMA EndStep ==
    ASSUME BaseInv, Running, NEW verdict \in {"ok", "passed", "error"},
           \/ c' = Ends(verdict)
           \/ \E early \in BOOLEAN : c' = [Ends(verdict) EXCEPT !.early = early]
           \/ \E machine \in Machines : c' = [Ends(verdict) EXCEPT !.machine = machine],
           verdict # "error" =>
               /\ c.root # 0 \/ c.neg = "pre-auth"
               /\ \/ c.flow \in {"phase2", "phase3", "phase5", "hybrid"}
                  \/ c.flow \in SixFlows /\ verdict = "passed" /\ c.neg # "none",
           inbox' \in Seq(Messages), faults' \in 0 .. MaxFaults, runs' = runs
    PROVE  ProcessInv' /\ Same /\ c'.pc = "cleanup" /\ c'.verdict = verdict
<1>1. c \in ProcessSet /\ c.early \in BOOLEAN /\ c.machine \in Machines
  BY DEF BaseInv, ProcessInv, ProcessSet
<1>2. CASE c' = Ends(verdict)
  <2>1. c' = [c EXCEPT !.pc = "cleanup", !.verdict = verdict, !.early = c.early, !.machine = c.machine]
    BY <1>1, <1>2 DEF Ends, ProcessSet
  <2> QED BY <1>1, <2>1, FailStep
<1>3. ASSUME NEW early \in BOOLEAN, c' = [Ends(verdict) EXCEPT !.early = early]
      PROVE  ProcessInv' /\ Same /\ c'.pc = "cleanup" /\ c'.verdict = verdict
  <2>1. c' = [c EXCEPT !.pc = "cleanup", !.verdict = verdict, !.early = early, !.machine = c.machine]
    BY <1>1, <1>3 DEF Ends, ProcessSet
  <2> QED BY <1>1, <1>3, <2>1, FailStep
<1>4. ASSUME NEW machine \in Machines, c' = [Ends(verdict) EXCEPT !.machine = machine]
      PROVE  ProcessInv' /\ Same /\ c'.pc = "cleanup" /\ c'.verdict = verdict
  <2>1. c' = [c EXCEPT !.pc = "cleanup", !.verdict = verdict, !.early = c.early, !.machine = machine]
    BY <1>1, <1>4 DEF Ends, ProcessSet
  <2> QED BY <1>1, <1>4, <2>1, FailStep
<1> QED BY <1>2, <1>3, <1>4

(* Such an end without an answer: a refused call, or a time limit. *)
LEMMA QuitStep ==
    ASSUME BaseInv, Running, NEW verdict \in {"ok", "passed", "error"},
           verdict # "error" => c.flow = "phase5" /\ c.root # 0,
           \/ TimesOut(Ends(verdict))
           \/ Raises /\ verdict = "error"
           \/ c' = Ends(verdict) /\ UNCHANGED <<vars, inbox, runs, faults>>
    PROVE  ProcessInv' /\ Quits
<1>1. /\ inbox \in Seq(Messages) /\ faults \in 0 .. MaxFaults /\ MaxFaults \in Nat
      /\ c.pc \in Stations \ {"connect", "cleanup", "close", "exit"}
  BY Bounds DEF BaseInv, ProcessInv, Running
<1>2. /\ UNCHANGED <<vars, inbox, runs>> /\ faults' \in 0 .. MaxFaults
      /\ c' = Ends(verdict) \/ \E early \in BOOLEAN : c' = [Ends(verdict) EXCEPT !.early = early]
  <2>1. CASE TimesOut(Ends(verdict))
    <3>1. /\ UNCHANGED <<vars, inbox, runs>> /\ c' = Ends(verdict)
          /\ faults' = faults \/ (faults < MaxFaults /\ faults' = faults + 1)
      BY <2>1 DEF TimesOut
    <3>2. faults' \in 0 .. MaxFaults
      BY <1>1, <3>1
    <3> QED BY <3>1, <3>2
  <2>2. CASE Raises /\ verdict = "error"
    <3>1. StillDelivering \in BOOLEAN
      BY DEF StillDelivering
    <3> QED BY <1>1, <2>2, <3>1 DEF Raises
  <2>3. CASE c' = Ends(verdict) /\ UNCHANGED <<vars, inbox, runs, faults>>
    BY <1>1, <2>3
  <2> QED BY <2>1, <2>2, <2>3
<1>3. ProcessInv' /\ Same /\ c'.pc = "cleanup" /\ c'.verdict = verdict
  BY <1>1, <1>2, EndStep
<1> QED BY <1>1, <1>2, <1>3 DEF Quits
LEMMA RefusedStep ==
    ASSUME BaseInv, Running, NEW accepted, Refused(accepted) PROVE ProcessInv' /\ Quits
  BY QuitStep DEF Refused
LEMMA LateStep ==
    ASSUME BaseInv, Running, TimesOut(Ends("error")) PROVE ProcessInv' /\ Quits
  BY QuitStep

(* The oldest entry of the queue. *)
LEMMA Taken ==
    ASSUME BaseInv, NEW next, Takes(next)
    PROVE  /\ inbox # <<>> /\ Received \in Messages /\ inbox' = Tail(inbox) /\ inbox' \in Seq(Messages)
           /\ c' = next /\ UNCHANGED <<vars, runs, faults>> /\ faults' \in 0 .. MaxFaults
           /\ Received = Head(inbox)
<1>1. inbox \in Seq(Messages) /\ inbox # <<>> /\ faults \in 0 .. MaxFaults
  BY DEF BaseInv, ProcessInv, Takes
<1>2. Head(inbox) \in Messages /\ Tail(inbox) \in Seq(Messages)
  BY <1>1, HeadTailProperties
<1> QED BY <1>1, <1>2 DEF Takes, Received
LEMMA HeardEnd ==
    ASSUME BaseInv, c.pc \in Waiting \cup {"quiet"}, NEW verdict \in {"ok", "passed", "error"},
           \/ Takes(Ends(verdict))
           \/ \E machine \in Machines : Takes([Ends(verdict) EXCEPT !.machine = machine]),
           verdict # "error" =>
               \/ c.flow \in {"phase2", "phase3", "phase5", "hybrid"}
               \/ /\ c.flow \in SixFlows /\ verdict = "passed" /\ c.neg # "none"
                  /\ Received.type = "PONG" \/ c.neg = "c2p-tamper" \/ c.pc = "replayed"
    PROVE  ProcessInv' /\ Hears
<1>1. Running /\ c.root # 0
  BY DEF BaseInv, ProcessInv, StandingInv, Running, Stations, Waiting, Asking, Begin, Ending
<1>2. /\ inbox # <<>> /\ inbox' = Tail(inbox) /\ inbox' \in Seq(Messages) /\ UNCHANGED <<vars, runs, faults>>
      /\ faults' \in 0 .. MaxFaults
      /\ c' = Ends(verdict) \/ \E machine \in Machines : c' = [Ends(verdict) EXCEPT !.machine = machine]
  <2>1. CASE Takes(Ends(verdict))
    BY <2>1, Taken
  <2>2. ASSUME NEW machine \in Machines, Takes([Ends(verdict) EXCEPT !.machine = machine])
        PROVE  /\ inbox # <<>> /\ inbox' = Tail(inbox) /\ inbox' \in Seq(Messages)
               /\ UNCHANGED <<vars, runs, faults>> /\ faults' \in 0 .. MaxFaults
               /\ c' = [Ends(verdict) EXCEPT !.machine = machine]
    BY <2>2, Taken
  <2> QED BY <2>1, <2>2
<1>3. ProcessInv' /\ Same /\ c'.pc = "cleanup" /\ c'.verdict = verdict
  BY <1>1, <1>2, EndStep
<1>4. /\ c'.pc \notin Asking /\ c'.pc # "again" /\ Received = Head(inbox)
      /\ c.flow \in SixFlows =>
             verdict = "error" \/ Received.type = "PONG" \/ c.neg = "c2p-tamper" \/ c.pc = "replayed"
  BY <1>3 DEF Asking, SixFlows, Received
<1> QED BY <1>2, <1>3, <1>4 DEF Hears, Same

(* The connection, the subscription and the upload. *)
LEMMA PrepareStep ==
    ASSUME BaseInv,
           ScanAndConnect \/ StartNotify \/ UploadEnds \/ (c.pc = "prepare" /\ UploadBegins)
    PROVE  ProcessInv' /\ ProcessStep
<1>1. /\ c \in ProcessSet /\ inbox \in Seq(Messages) /\ <<>> \in Seq(Messages) /\ faults \in 0 .. MaxFaults
      /\ faults \in -1 .. MaxFaults /\ -1 \in -1 .. MaxFaults /\ runs \in 0 .. MaxRuns
  BY Bounds DEF BaseInv, ProcessInv
<1>2. CounterInv /\ StandingInv
  BY DEF BaseInv, ProcessInv
<1>r. c.pc \in {"subscribe", "prepare", "upload", "start"} => Running
  BY DEF Running, Stations, Begin
<1>p. ASSUME NEW pc \in Begin, c.pc \in Begin, c' = To(pc)
      PROVE  c' \in ProcessSet /\ c'.pc = pc /\ (UNCHANGED runs => Same) /\ CounterInv' /\ StandingInv'
  <2>1. /\ c' \in ProcessSet /\ c'.pc = pc /\ c'.verdict = c.verdict /\ c'.flow = c.flow /\ c'.neg = c.neg
        /\ c'.root = c.root /\ c'.tx = c.tx /\ c'.rx = c.rx /\ c'.round = c.round /\ c'.vouched = c.vouched
    BY <1>1, <1>p DEF To, ProcessSet, Stations
  <2>2. /\ pc \notin Asking \cup Waiting \cup Confirming \cup Ending /\ c.pc \notin Ending
        /\ pc \notin {"secure", "pong", "tampered", "retry", "first", "next", "replay", "replayed", "again",
                      "quiet", "rejected", "blocked", "cleanup"}
    BY <1>p DEF Begin, Asking, Waiting, Confirming, Ending
  <2>3. CounterInv'
    BY <1>2, <1>p, <2>1, <2>2 DEF CounterInv, NoTraffic, Untouched
  <2>4. StandingInv'
    BY <1>2, <1>p, <2>1, <2>2 DEF StandingInv
  <2> QED BY <2>1, <2>3, <2>4 DEF Same, Steady, Frame
<1>3. CASE ScanAndConnect
  <2>1. PICK base \in -1 .. MaxFaults : c' = [To("subscribe") EXCEPT !.base = base]
    BY <1>1, <1>3 DEF ScanAndConnect
  <2>2. /\ c.pc = "connect" /\ Connected /\ inbox' = <<>> /\ UNCHANGED <<runs, faults>>
    BY <1>3 DEF ScanAndConnect
  <2>3. /\ c' \in ProcessSet /\ c'.pc = "subscribe" /\ c'.verdict = c.verdict /\ c'.flow = c.flow
        /\ c'.neg = c.neg /\ c'.root = c.root /\ c'.tx = c.tx /\ c'.rx = c.rx /\ c'.round = c.round
        /\ c'.vouched = c.vouched
    BY <1>1, <2>1 DEF To, ProcessSet, Stations, Begin
  <2>4. CounterInv' /\ StandingInv'
    <3>1. c.pc \in Begin /\ c.pc \notin Ending /\ c'.pc \notin Asking \cup Waiting \cup Confirming \cup Ending
      BY <2>2, <2>3 DEF Begin, Asking, Waiting, Confirming, Ending
    <3>2. CounterInv'
      BY <1>2, <2>3, <3>1 DEF CounterInv, NoTraffic, Untouched
    <3>3. StandingInv'
      BY <1>2, <2>3, <3>1 DEF StandingInv
    <3> QED BY <3>2, <3>3
  <2>5. Connects
    BY <2>2, <2>3 DEF Connects, Same, Steady, Frame
  <2> QED BY <1>1, <2>2, <2>3, <2>4, <2>5 DEF ProcessInv, ProcessStep
<1>4. CASE StartNotify
  <2>1. c.pc = "subscribe" /\ c.pc \in Begin /\ "prepare" \in Begin
    BY <1>4 DEF StartNotify, Begin
  <2>2. CASE Subscribe /\ c' = To("prepare") /\ UNCHANGED <<inbox, runs, faults>>
    <3>1. c' \in ProcessSet /\ c'.pc = "prepare" /\ Same /\ CounterInv' /\ StandingInv'
      BY <1>p, <2>1, <2>2
    <3>2. Prepares
      BY <2>1, <2>2, <3>1 DEF Prepares
    <3> QED BY <1>1, <2>2, <3>1, <3>2 DEF ProcessInv, ProcessStep
  <2>3. CASE Raises
    BY <1>r, <2>1, <2>3, QuitStep DEF ProcessStep
  <2> QED BY <1>4, <2>2, <2>3 DEF StartNotify
<1>5. CASE UploadEnds
  <2>1. c.pc = "upload" /\ c.pc \in Begin /\ "start" \in Begin
    BY <1>5 DEF UploadEnds, Begin
  <2>2. CASE WriteCiphertext("READY") /\ c' = To("start") /\ UNCHANGED <<inbox, runs, faults>>
    <3>1. c' \in ProcessSet /\ c'.pc = "start" /\ Same /\ CounterInv' /\ StandingInv'
      BY <1>p, <2>1, <2>2
    <3>2. Prepares
      BY <2>1, <2>2, <3>1 DEF Prepares
    <3> QED BY <1>1, <2>2, <3>1, <3>2 DEF ProcessInv, ProcessStep
  <2>3. CASE Refused(CiphertextWritable)
    BY <1>r, <2>1, <2>3, RefusedStep DEF ProcessStep
  <2> QED BY <1>5, <2>2, <2>3 DEF UploadEnds
<1>6. CASE c.pc = "prepare" /\ UploadBegins
  <2>1. c.pc \in Begin /\ "upload" \in Begin
    BY <1>6 DEF Begin
  <2>2. CASE WriteCiphertext("RECEIVING") /\ c' = To("upload") /\ UNCHANGED <<inbox, runs, faults>>
    <3>1. c' \in ProcessSet /\ c'.pc = "upload" /\ Same /\ CounterInv' /\ StandingInv'
      BY <1>p, <2>1, <2>2
    <3>2. Prepares
      BY <1>6, <2>1, <2>2, <3>1 DEF Prepares
    <3> QED BY <1>1, <2>2, <3>1, <3>2 DEF ProcessInv, ProcessStep
  <2>3. CASE Refused(CiphertextWritable)
    BY <1>r, <1>6, <2>3, RefusedStep DEF ProcessStep
  <2> QED BY <1>6, <2>2, <2>3 DEF UploadBegins
<1> QED BY <1>3, <1>4, <1>5, <1>6

(* The process before it is told what to do. *)
LEMMA NoProcessTyped == NoProcess \in ProcessSet
<1>1. /\ 0 \in Roots /\ 0 \in 0 .. Rounds /\ 0 \in 0 .. LABELS + 2 /\ -1 \in -1 .. MaxFaults
      /\ "exit" \in Stations /\ "none" \in Negs /\ "EMPTY" \in Machines
  BY Zero, Bounds DEF Stations, Ending, Negs, Machines
<1> QED BY <1>1 DEF NoProcess, ProcessSet

(* The end of a process, and the next one. *)
LEMMA CloseStep ==
    ASSUME BaseInv,
           StopNotify \/ Disconnect \/ ScanFails \/ CleanupFails \/ DisconnectFails \/ LinkLost \/ NewProcess
    PROVE  ProcessInv' /\ ProcessStep
<1>1. /\ c \in ProcessSet /\ inbox \in Seq(Messages) /\ <<>> \in Seq(Messages) /\ faults \in 0 .. MaxFaults
      /\ runs \in 0 .. MaxRuns /\ CounterInv /\ StandingInv
      /\ (faults < MaxFaults => faults + 1 \in 0 .. MaxFaults) /\ (runs < MaxRuns => runs + 1 \in 0 .. MaxRuns)
  BY Bounds DEF BaseInv, ProcessInv
<1>2. inbox' \in Seq(Messages) /\ faults' \in 0 .. MaxFaults /\ runs' \in 0 .. MaxRuns
  <2>1. CASE LinkLost
    <3>1. PICK n \in 0 .. Len(inbox) : inbox' = SubSeq(inbox, 1, n)
      BY <2>1 DEF LinkLost
    <3>2. SubSeq(inbox, 1, n) \in Seq(Messages)
      BY <1>1, <3>1, SubSeqProperties
    <3> QED BY <1>1, <2>1, <3>1, <3>2 DEF LinkLost, Disturbs
  <2>2. CASE NewProcess
    BY <1>1, <2>2 DEF NewProcess
  <2>3. CASE StopNotify \/ Disconnect
    BY <1>1, <2>3 DEF StopNotify, Disconnect
  <2>4. CASE ScanFails \/ CleanupFails \/ DisconnectFails
    BY <1>1, <2>4 DEF ScanFails, CleanupFails, DisconnectFails
  <2> QED BY <2>1, <2>2, <2>3, <2>4
<1>e. ASSUME c' \in ProcessSet, c'.pc \in {"close", "exit"}, c'.vouched = c.vouched, c'.neg = c.neg,
             c'.flow = c.flow
      PROVE  CounterInv' /\ StandingInv'
  <2>1. c'.pc \notin Begin \cup Asking \cup Waiting \cup Confirming /\ c'.pc \in Ending
    BY <1>e DEF Begin, Asking, Waiting, Confirming, Ending
  <2>2. CounterInv'
    BY <1>e, <2>1 DEF CounterInv
  <2>3. StandingInv'
    BY <1>e, <1>1, <2>1 DEF StandingInv
  <2> QED BY <2>2, <2>3
<1>f. ASSUME NEW pc \in {"close", "exit"}, NEW verdict \in {"none", "ok", "passed", "error"},
             c' = [c EXCEPT !.pc = pc, !.verdict = verdict], runs' = runs
      PROVE  c' \in ProcessSet /\ c'.pc = pc /\ Same /\ ProcessInv'
  <2>1. /\ c' \in ProcessSet /\ c'.pc = pc /\ c'.flow = c.flow /\ c'.neg = c.neg
        /\ c'.root = c.root /\ c'.tx = c.tx /\ c'.rx = c.rx /\ c'.round = c.round /\ c'.vouched = c.vouched
    BY <1>1, <1>f DEF ProcessSet, Stations, Ending
  <2> QED BY <1>2, <1>e, <1>f, <2>1 DEF Same, Steady, Frame, ProcessInv
<1>v. c.verdict \in {"none", "ok", "passed", "error"}
  BY <1>1 DEF ProcessSet
<1>t. ASSUME NEW pc \in {"close", "exit"}, c' = To(pc), runs' = runs
      PROVE  c' \in ProcessSet /\ c'.pc = pc /\ Same /\ ProcessInv'
  <2>1. c' = [c EXCEPT !.pc = pc, !.verdict = c.verdict]
    BY <1>1, <1>t DEF To, ProcessSet
  <2> QED BY <1>f, <1>t, <1>v, <2>1
<1>3. CASE StopNotify
  <2>1. c.pc = "cleanup" /\ c' = To("close") /\ UNCHANGED <<inbox, runs>>
    BY <1>3 DEF StopNotify
  <2>2. c'.pc = "close" /\ Same /\ ProcessInv'
    BY <1>t, <2>1
  <2>3. CASE Unsubscribe
    BY <2>1, <2>2, <2>3 DEF Leaves, ProcessStep
  <2>4. CASE UNCHANGED vars
    BY <2>1, <2>2, <2>4 DEF Closes, ProcessStep
  <2> QED BY <1>3, <2>2, <2>3, <2>4 DEF StopNotify
<1>4. CASE CleanupFails
  <2>1. PICK verdict \in {"none", "ok", "passed", "error"} : c' = [To("close") EXCEPT !.verdict = verdict]
    BY <1>1, <1>v, <1>4 DEF CleanupFails, To, ProcessSet
  <2>2. c' = [c EXCEPT !.pc = "close", !.verdict = verdict] /\ runs' = runs
    BY <1>1, <1>4, <2>1 DEF To, ProcessSet, CleanupFails
  <2>3. c'.pc = "close" /\ Same /\ ProcessInv'
    BY <1>f, <2>2
  <2> QED BY <1>4, <2>3 DEF CleanupFails, Closes, ProcessStep
<1>5. CASE Disconnect
  <2>1. c.pc = "close" /\ c' = To("exit") /\ inbox' = <<>> /\ runs' = runs
    BY <1>5 DEF Disconnect
  <2>2. c'.pc = "exit" /\ Same /\ ProcessInv'
    BY <1>t, <2>1
  <2>3. CASE Disconnected
    <3>1. 0 \in 0 .. Len(inbox) /\ inbox' = SubSeq(inbox, 1, 0)
      BY <1>1, <2>1
    <3> QED BY <2>1, <2>2, <2>3, <3>1 DEF Drops, ProcessStep
  <2>4. CASE cur = 0 /\ UNCHANGED vars
    BY <2>1, <2>2, <2>4 DEF Closes, ProcessStep
  <2> QED BY <1>5, <2>3, <2>4 DEF Disconnect
<1>6. CASE DisconnectFails
  <2>1. PICK verdict \in {"none", "ok", "passed", "error"} : c' = [To("exit") EXCEPT !.verdict = verdict]
    BY <1>1, <1>v, <1>6 DEF DisconnectFails, To, ProcessSet
  <2>2. c' = [c EXCEPT !.pc = "exit", !.verdict = verdict] /\ runs' = runs
    BY <1>1, <1>6, <2>1 DEF To, ProcessSet, DisconnectFails
  <2>3. c'.pc = "exit" /\ Same /\ ProcessInv'
    BY <1>f, <2>2
  <2>4. 0 \in 0 .. Len(inbox) /\ inbox' = SubSeq(inbox, 1, 0)
    BY <1>1, <1>6 DEF DisconnectFails
  <2> QED BY <1>6, <2>3, <2>4 DEF DisconnectFails, Drops, ProcessStep
<1>7. CASE ScanFails
  <2>1. c' = [c EXCEPT !.pc = "exit", !.verdict = "error"] /\ runs' = runs
    BY <1>1, <1>7 DEF To, ProcessSet, ScanFails
  <2>2. c'.pc = "exit" /\ Same /\ ProcessInv'
    BY <1>f, <2>1
  <2> QED BY <1>7, <2>2 DEF ScanFails, Closes, ProcessStep
<1>8. CASE LinkLost
  <2>1. c' = c /\ runs' = runs /\ Disconnected /\ c.pc \notin {"connect", "exit"}
        /\ \E n \in 0 .. Len(inbox) : inbox' = SubSeq(inbox, 1, n)
    BY <1>8 DEF LinkLost
  <2>2. Same
    BY <1>1, <2>1 DEF Same, Steady, Frame
  <2>3. CounterInv' /\ StandingInv'
    <3>1. CounterInv'
      BY <1>1, <2>1 DEF CounterInv, NoTraffic, Untouched, Between, Sent, Got, AllRounds, Goal, HandshakeTest
    <3>2. StandingInv'
      BY <1>1, <2>1 DEF StandingInv, NoTraffic, Untouched, AllRounds, Goal, HandshakeTest
    <3> QED BY <3>1, <3>2
  <2> QED BY <1>1, <1>2, <2>1, <2>2, <2>3 DEF Drops, ProcessStep, ProcessInv
<1>9. CASE NewProcess
  <2>1. PICK flow \in Flows : \E neg \in NegativeModes[flow] \cup {"none"} :
            c' = [NoProcess EXCEPT !.pc = "connect", !.flow = flow, !.neg = neg]
    BY <1>9 DEF NewProcess
  <2>2. PICK neg \in NegativeModes[flow] \cup {"none"} :
            c' = [NoProcess EXCEPT !.pc = "connect", !.flow = flow, !.neg = neg]
    BY <2>1
  <2>3. /\ neg \in Negs /\ (neg = "sas-reject" => flow = "phase7") /\ (neg = "transcript" => flow = "phase5")
        /\ neg = "finished-c" => flow \in {"phase5", "phase7"}
    <3>1. flow \in {"phase2", "phase3", "phase5", "phase6", "c2p", "hybrid", "phase7"}
      BY CentralAssumption
    <3> QED BY <2>2, <3>1 DEF NegativeModes, Negs
  <2>4. /\ c' \in ProcessSet /\ c'.pc = "connect" /\ c'.root = 0 /\ c'.tx = 0 /\ c'.rx = 0 /\ c'.round = 0
        /\ c'.vouched = FALSE /\ c'.verdict = "none" /\ c'.flow = flow /\ c'.neg = neg
    <3>1. NoProcess \in ProcessSet
      BY NoProcessTyped
    <3>2. "connect" \in Stations
      BY DEF Stations, Begin
    <3>3. c' \in ProcessSet
      BY <2>2, <2>3, <3>1, <3>2 DEF ProcessSet
    <3> QED BY <2>2, <3>3 DEF NoProcess
  <2>5. CounterInv' /\ StandingInv'
    <3>1. c'.pc \in Begin /\ c'.pc \notin Asking \cup Waiting \cup Confirming \cup Ending
      BY <2>4 DEF Begin, Asking, Waiting, Confirming, Ending
    <3>2. CounterInv'
      BY <2>4, <3>1 DEF CounterInv, NoTraffic, Untouched
    <3>3. StandingInv'
      BY <2>3, <2>4, <3>1 DEF StandingInv
    <3> QED BY <3>2, <3>3
  <2> QED BY <1>2, <1>9, <2>4, <2>5 DEF NewProcess, Renews, ProcessStep, ProcessInv
<1> QED BY <1>3, <1>4, <1>5, <1>6, <1>7, <1>8, <1>9
-----------------------------------------------------------------------------
(* START, with the state machine of v0.5 or without. *)
LEMMA SendStep ==
    ASSUME BaseInv, c.pc = "start", NEW mode \in Starts, mode \in ModesOf(c.flow),
           \/ SendStart(mode, To("ready"))
           \/ SendStart(mode, [To("ready") EXCEPT !.machine = "WAIT_READY_FOR_SAS"])
    PROVE  ProcessInv' /\ ProcessStep
<1>1. /\ c \in ProcessSet /\ inbox \in Seq(Messages) /\ faults \in 0 .. MaxFaults /\ runs \in 0 .. MaxRuns
      /\ CounterInv /\ StandingInv
  BY DEF BaseInv, ProcessInv
<1>2. CASE Refused(StartAccepted)
  <2>1. Running
    BY DEF Running, Stations, Begin
  <2> QED BY <1>2, <2>1, RefusedStep DEF ProcessStep
<1>3. CASE /\ Start(mode) /\ UNCHANGED <<inbox, runs, faults>>
           /\ \/ c' = [To("ready") EXCEPT !.root = starts']
              \/ c' = [[To("ready") EXCEPT !.machine = "WAIT_READY_FOR_SAS"] EXCEPT !.root = starts']
  <2>1. starts' \in Roots /\ starts' # 0
    <3>1. starts' = starts + 1 /\ starts < MaxStarts
      BY <1>3 DEF Start
    <3>2. starts \in 0 .. MaxStarts /\ MaxStarts \in Nat
      BY Bounds DEF BaseInv, Typed, HistoryTyped, Roots
    <3> QED BY <3>1, <3>2 DEF Roots
  <2>2. /\ c' \in ProcessSet /\ c'.pc = "ready" /\ c'.verdict = c.verdict /\ c'.flow = c.flow
        /\ c'.neg = c.neg /\ c'.root = starts' /\ c'.tx = c.tx /\ c'.rx = c.rx /\ c'.round = c.round
        /\ c'.vouched = c.vouched
    BY <1>1, <1>3, <2>1 DEF To, ProcessSet, Stations, Waiting, Machines
  <2>3. c'.pc \notin Begin \cup Confirming \cup Ending /\ c.pc \in Begin /\ c.pc \notin Ending
    BY <2>2 DEF Begin, Confirming, Ending
  <2>4. CounterInv'
    BY <1>1, <2>2, <2>3 DEF CounterInv, NoTraffic, Untouched
  <2>5. StandingInv'
    BY <1>1, <2>1, <2>2, <2>3 DEF StandingInv
  <2>6. Begins
    BY <1>3, <2>2 DEF Begins, Frame
  <2> QED BY <1>1, <1>3, <2>2, <2>4, <2>5, <2>6 DEF ProcessInv, ProcessStep
<1> QED BY <1>2, <1>3 DEF SendStart

(* What every process that waits has. *)
LEMMA WaitingFacts ==
    ASSUME BaseInv, c.pc \in Waiting
    PROVE  /\ Running /\ c.root # 0 /\ c.pc \notin Begin \cup Ending \cup Asking /\ c.verdict = "none"
           /\ c \in ProcessSet /\ faults \in 0 .. MaxFaults /\ runs \in 0 .. MaxRuns /\ CounterInv /\ StandingInv
<1>1. c.pc \notin Begin \cup Ending \cup Asking /\ Running
  BY DEF Waiting, Begin, Ending, Asking, Running, Stations
<1> QED BY <1>1 DEF BaseInv, ProcessInv, StandingInv

(* An answer that leads the process on. *)
LEMMA HeardMove ==
    ASSUME BaseInv, c.pc \in Waiting, NEW next, Takes(next), c' \in ProcessSet, c'.flow = c.flow,
           c'.neg = c.neg, c'.root = c.root, c'.tx = c.tx, c'.vouched = c.vouched, c'.verdict = c.verdict,
           c'.pc \in Asking, CounterInv', c'.pc \in Confirming => c.vouched, c'.pc # "rejected",
           c'.pc = "probe" => ~c.vouched,
           c'.pc = "blocked" => c.neg = "finished-c",
           c'.pc = "quiet" => c.vouched,
           c.flow = "phase7" /\ c'.pc \in {"secure", "retry", "next", "replay", "quiet"} => ~HandshakeTest
    PROVE  ProcessInv' /\ Frame /\ Steady /\ UNCHANGED <<vars, faults>> /\ inbox # <<>>
           /\ inbox' = Tail(inbox) /\ Received = Head(inbox) /\ Received \in Messages
<1>1. /\ c.root # 0 /\ c.verdict = "none" /\ runs \in 0 .. MaxRuns /\ StandingInv
  BY WaitingFacts
<1>2. /\ inbox # <<>> /\ inbox' = Tail(inbox) /\ inbox' \in Seq(Messages) /\ UNCHANGED <<vars, runs, faults>>
      /\ faults' \in 0 .. MaxFaults /\ Received = Head(inbox) /\ Received \in Messages
  BY Taken
<1>3. c'.pc \notin Begin \cup Ending /\ c'.pc \notin {"ready", "tampered", "pong", "replayed", "cleanup"}
  BY DEF Begin, Ending, Asking
<1>4. StandingInv'
  BY <1>1, <1>3 DEF StandingInv, HandshakeTest
<1> QED BY <1>1, <1>2, <1>4 DEF ProcessInv, Frame, Steady

(* The flows with one START and one answer. *)
LEMMA OneShotStep ==
    ASSUME BaseInv, OneShotNext PROVE ProcessInv' /\ ProcessStep
<1>1. /\ c \in ProcessSet /\ inbox \in Seq(Messages) /\ faults \in 0 .. MaxFaults /\ runs \in 0 .. MaxRuns
      /\ CounterInv /\ StandingInv
  BY DEF BaseInv, ProcessInv
<1>w. c.pc \in {"ready"} => Running /\ c.pc \in Waiting
  BY DEF Running, Waiting, Stations
<1>2. CASE Phase2Exchange \/ Phase3Prepare \/ Phase3Start \/ HybridExchange
  <2>1. CASE c.pc = "prepare" /\ UploadBegins
    BY <2>1, PrepareStep
  <2>2. CASE c.pc = "start" /\ c.flow = "phase2" /\ SendStart("diag", To("ready"))
    BY <2>2, SendStep DEF Starts, ModesOf, SixFlows
  <2>3. CASE c.pc = "start" /\ c.flow = "phase3" /\ SendStart("secure", To("ready"))
    BY <2>3, SendStep DEF Starts, ModesOf, SixFlows
  <2>4. CASE c.pc = "start" /\ c.flow = "hybrid" /\ SendStart("cp2", To("ready"))
    BY <2>4, SendStep DEF Starts, ModesOf, SixFlows
  <2> QED BY <1>2, <2>1, <2>2, <2>3, <2>4 DEF Phase2Exchange, Phase3Prepare, Phase3Start, HybridExchange, At
<1>3. CASE Phase2Result \/ HybridResult
  <2>1. c.pc = "ready" /\ c.flow \in {"phase2", "hybrid"}
    BY <1>3 DEF Phase2Result, HybridResult, At
  <2>2. CASE TimesOut(Ends("error"))
    BY <1>w, <2>1, <2>2, LateStep DEF ProcessStep
  <2>3. CASE \E verdict \in {"ok", "error"} : Takes(Ends(verdict))
    BY <1>w, <2>1, <2>3, HeardEnd DEF ProcessStep
  <2>4. \/ TimesOut(Ends("error"))
        \/ \E verdict \in {"ok", "error"} : Takes(Ends(verdict))
    BY <1>3 DEF Phase2Result, HybridResult, Receives
  <2> QED BY <2>2, <2>3, <2>4
<1>4. CASE Phase3Receive
  <2>1. c.pc = "ready" /\ c.flow = "phase3"
    BY <1>4 DEF Phase3Receive, At
  <2>2. CASE TimesOut(Ends("error"))
    BY <1>w, <2>1, <2>2, LateStep DEF ProcessStep
  <2>3. CASE Takes(Ends("error"))
    BY <1>w, <2>1, <2>3, HeardEnd DEF ProcessStep
  <2>4. CASE Takes([To("decrypt") EXCEPT !.shown = Received.root]) /\ Received.type = "DATA3"
    <3>1. Received \in Messages /\ Received.root \in Roots /\ c' = [To("decrypt") EXCEPT !.shown = Received.root]
      BY <2>4, Taken DEF Messages
    <3>2. /\ c' \in ProcessSet /\ c'.pc = "decrypt" /\ c'.verdict = c.verdict /\ c'.flow = c.flow
          /\ c'.neg = c.neg /\ c'.root = c.root /\ c'.tx = c.tx /\ c'.rx = c.rx /\ c'.round = c.round
          /\ c'.vouched = c.vouched
      BY <1>1, <3>1 DEF To, ProcessSet, Stations, Asking
    <3>3. CounterInv'
      BY <1>1, <2>1, <3>2 DEF CounterInv, NoTraffic, Untouched
    <3>4. c'.pc \in Asking /\ c'.pc \notin Confirming \cup {"rejected", "blocked", "quiet", "secure", "again"}
      BY <3>2 DEF Asking, Confirming
    <3>5. ProcessInv' /\ Steady /\ UNCHANGED vars /\ inbox # <<>> /\ inbox' = Tail(inbox) /\ Received = Head(inbox)
      BY <1>w, <2>1, <2>4, <3>2, <3>3, <3>4, HeardMove
    <3> QED BY <1>w, <2>1, <2>4, <3>2, <3>4, <3>5 DEF Hears, ProcessStep
  <2> QED BY <1>4, <2>2, <2>3, <2>4 DEF Phase3Receive, Receives
<1>5. CASE Phase3Decrypt
  <2>1. c.pc = "decrypt" /\ c.flow = "phase3" /\ UNCHANGED <<vars, inbox, runs, faults>> /\ Running /\ c.root # 0
    BY <1>1, <1>5 DEF Phase3Decrypt, At, Running, Stations, Asking, StandingInv
  <2>2. CASE c' = Ends("error")
    BY <2>1, <2>2, QuitStep DEF ProcessStep
  <2>3. CASE c' = Opened(Phase3Message, Ends("ok"))
    <3>1. /\ c' \in ProcessSet /\ c'.pc = "cleanup" /\ c'.verdict = "ok" /\ c'.flow = c.flow
          /\ c'.neg = c.neg /\ c'.root = c.root /\ c'.tx = c.tx /\ c'.rx = 1 /\ c'.round = c.round
          /\ c'.vouched = c.vouched
      <4>1. 1 \in 0 .. LABELS + 2 /\ Phase3Message.seq + 1 = 1
        BY Bounds DEF Phase3Message
      <4> QED BY <1>1, <2>3, <4>1 DEF Opened, Ends, ProcessSet, Stations, Ending
    <3>2. CounterInv'
      BY <3>1 DEF CounterInv, Begin
    <3>3. StandingInv'
      BY <1>1, <2>1, <3>1 DEF StandingInv, Begin, Asking, Waiting, Confirming, Ending, SixFlows
    <3>4. Goes
      BY <2>1, <3>1 DEF Goes, Steady, Frame, Asking, SixFlows
    <3> QED BY <1>1, <2>1, <3>1, <3>2, <3>3, <3>4 DEF ProcessInv, ProcessStep
  <2> QED BY <1>5, <2>2, <2>3 DEF Phase3Decrypt
<1> QED BY <1>2, <1>3, <1>4, <1>5 DEF OneShotNext
-----------------------------------------------------------------------------
(* A process that goes on keeps what it stands for. *)
LEMMA StandsOn ==
    ASSUME BaseInv, c.pc \in Asking \cup Waiting, c' \in ProcessSet, c'.flow = c.flow, c'.neg = c.neg,
           c'.root = c.root, c'.verdict = c.verdict, c'.pc \in Asking \cup Waiting,
           c'.vouched => c.neg # "sas-reject", c'.pc \in Confirming => c'.vouched,
           c'.pc \in {"ready", "probe"} => ~c'.vouched,
           c'.pc = "quiet" /\ c'.then \in {"retry", "next"} => c'.vouched,
           c'.pc = "rejected" => c.neg = "sas-reject", c'.pc = "blocked" => c.neg = "finished-c",
           c.flow = "phase7" /\ (c'.pc \in {"secure", "tampered", "retry", "pong", "next", "replay", "replayed"}
                                 \/ (c'.pc = "quiet" /\ c'.then \in {"retry", "next"})) => ~HandshakeTest
    PROVE  StandingInv'
<1>1. c.root # 0 /\ c.verdict = "none" /\ StandingInv
  BY DEF BaseInv, ProcessInv, StandingInv, Asking, Waiting, Ending
<1>2. c'.pc \notin Begin \cup Ending /\ c'.pc # "cleanup"
  BY DEF Asking, Waiting, Begin, Ending
<1> QED BY <1>1, <1>2 DEF StandingInv, HandshakeTest

(* The answers the user gives, counted when they are wrong. *)
LEMMA UserFaults ==
    ASSUME BaseInv, NEW matches, NEW yes, UserAnswers(matches, yes) PROVE faults' \in 0 .. MaxFaults
<1>1. faults \in 0 .. MaxFaults /\ MaxFaults \in Nat
  BY Bounds DEF BaseInv, ProcessInv
<1>2. faults' = faults \/ (faults < MaxFaults /\ faults' = faults + 1)
  BY DEF UserAnswers
<1> QED BY <1>1, <1>2

(* READY_FOR_SAS, and FINISHED_P of v0.5 and v0.6. *)
LEMMA ReadyForSasStep ==
    ASSUME BaseInv, c.pc = "ready", c.flow \in Five, Receives(ReceiveReadyForSas(Received))
    PROVE  ProcessInv' /\ ProcessStep
<1>1. c.pc \in Waiting /\ Running /\ c \in ProcessSet /\ CounterInv
  <2>1. c.pc \in Waiting
    BY DEF Waiting
  <2> QED BY <2>1, WaitingFacts
<1>2. CASE TimesOut(Ends("error"))
  BY <1>1, <1>2, LateStep DEF ProcessStep
<1>3. CASE Takes(Ends("error"))
  BY <1>1, <1>3, HeardEnd DEF ProcessStep
<1>4. CASE /\ Takes([To("sas") EXCEPT !.machine = "WAIT_SAS_CONFIRM", !.shown = Received.root])
           /\ Received.type = "READY_FOR_SAS"
  <2>1. Received \in Messages /\ Received.root \in Roots
        /\ c' = [To("sas") EXCEPT !.machine = "WAIT_SAS_CONFIRM", !.shown = Received.root]
    BY <1>4, Taken DEF Messages
  <2>2. /\ c' \in ProcessSet /\ c'.pc = "sas" /\ c'.verdict = c.verdict /\ c'.flow = c.flow
        /\ c'.neg = c.neg /\ c'.root = c.root /\ c'.tx = c.tx /\ c'.rx = c.rx /\ c'.round = c.round
        /\ c'.vouched = c.vouched
    BY <1>1, <2>1 DEF To, ProcessSet, Stations, Asking, Machines
  <2>3. CounterInv'
    BY <1>1, <2>2 DEF CounterInv, NoTraffic, Untouched
  <2>4. c'.pc \in Asking /\ c'.pc \notin Confirming \cup {"rejected", "blocked", "quiet", "secure", "again"}
    BY <2>2 DEF Asking, Confirming
  <2>5. ProcessInv' /\ Steady /\ UNCHANGED vars /\ inbox # <<>> /\ inbox' = Tail(inbox) /\ Received = Head(inbox)
    BY <1>1, <1>4, <2>2, <2>3, <2>4, HeardMove
  <2> QED BY <1>1, <1>4, <2>2, <2>4, <2>5 DEF Hears, ProcessStep
<1> QED BY <1>2, <1>3, <1>4 DEF Receives, ReceiveReadyForSas, Require, Phase5Frame
LEMMA FinishedPStep ==
    ASSUME BaseInv, c.pc = "confirm", c.flow \in Five, NEW intact, Receives(ReceiveFinishedP(Received, intact))
    PROVE  ProcessInv' /\ ProcessStep
<1>1. c.pc \in Waiting /\ Running /\ c \in ProcessSet /\ CounterInv /\ c.vouched
  <2>1. c.pc \in Waiting /\ c.pc \in Confirming
    BY DEF Waiting, Confirming
  <2> QED BY <2>1, WaitingFacts DEF StandingInv
<1>2. CASE TimesOut(Ends("error"))
  BY <1>1, <1>2, LateStep DEF ProcessStep
<1>3. CASE Takes(Ends("error")) \/ Takes([Ends("error") EXCEPT !.machine = "ABORTED"])
  BY <1>1, <1>3, HeardEnd DEF ProcessStep, Machines
<1>4. CASE Takes([To("secure") EXCEPT !.machine = "AUTHENTICATED"]) /\ Received.type = "FINISHED_P"
  <2>1. c' = [To("secure") EXCEPT !.machine = "AUTHENTICATED"]
    BY <1>4, Taken
  <2>2. /\ c' \in ProcessSet /\ c'.pc = "secure" /\ c'.verdict = c.verdict /\ c'.flow = c.flow
        /\ c'.neg = c.neg /\ c'.root = c.root /\ c'.tx = c.tx /\ c'.rx = c.rx /\ c'.round = c.round
        /\ c'.vouched = c.vouched
    BY <1>1, <2>1 DEF To, ProcessSet, Stations, Asking, Machines
  <2>3. CounterInv'
    <3>1. NoTraffic /\ 0 < Goal /\ Goal' = Goal
      BY <1>1, <2>2, Bounds DEF CounterInv, Goal
    <3> QED BY <2>2, <3>1 DEF CounterInv, NoTraffic, Untouched, Between, Begin
  <2>4. c'.pc \in Asking /\ c'.pc \notin {"rejected", "blocked", "quiet", "again"} /\ c.flow # "phase7"
    BY <2>2 DEF Asking, Five
  <2>5. ProcessInv' /\ Steady /\ UNCHANGED vars /\ inbox # <<>> /\ inbox' = Tail(inbox) /\ Received = Head(inbox)
    BY <1>1, <1>4, <2>2, <2>3, <2>4, HeardMove
  <2> QED BY <1>1, <1>4, <2>2, <2>4, <2>5 DEF Hears, ProcessStep
<1> QED BY <1>2, <1>3, <1>4 DEF Receives, ReceiveFinishedP, Require, Phase5Frame

(* The SAS decision of v0.5 and v0.6. *)
LEMMA SasStep ==
    ASSUME BaseInv, c.pc = "sas", c.flow \in Five, NEW verdict \in {"passed", "error"},
           verdict = "passed" => c.flow = "phase5", c' = ConfirmSas \/ c' = RejectSas(verdict),
           faults' \in 0 .. MaxFaults, UNCHANGED <<vars, inbox, runs>>
    PROVE  ProcessInv' /\ ProcessStep
<1>1. /\ c \in ProcessSet /\ inbox \in Seq(Messages) /\ runs \in 0 .. MaxRuns /\ CounterInv /\ StandingInv
      /\ c.pc \in Asking /\ c.root # 0 /\ Running
      /\ c.pc \in Stations \ {"connect", "cleanup", "close", "exit"}
  BY DEF BaseInv, ProcessInv, StandingInv, Asking, Running, Stations
<1>2. CASE c' = Ends("error") \/ c' = [Ends(verdict) EXCEPT !.machine = "ABORTED"]
  <2>1. PICK v \in {"passed", "error"} : /\ ProcessInv' /\ Same /\ c'.pc = "cleanup" /\ c'.verdict = v
                                         /\ v = "passed" => c.flow = "phase5"
    <3>1. CASE c' = Ends("error")
      BY <1>1, <3>1, EndStep
    <3>2. CASE c' = [Ends(verdict) EXCEPT !.machine = "ABORTED"]
      BY <1>1, <3>2, EndStep DEF Machines
    <3> QED BY <1>2, <3>1, <3>2
  <2> QED BY <1>1, <2>1 DEF Quits, ProcessStep
<1>3. CASE c' = [To("finished") EXCEPT !.machine = "WAIT_FINISHED_P", !.vouched = TRUE]
  <2>1. /\ c' \in ProcessSet /\ c'.pc = "finished" /\ c'.verdict = c.verdict /\ c'.flow = c.flow
        /\ c'.neg = c.neg /\ c'.root = c.root /\ c'.tx = c.tx /\ c'.rx = c.rx /\ c'.round = c.round
        /\ c'.vouched = TRUE
    BY <1>1, <1>3 DEF To, ProcessSet, Stations, Asking, Machines
  <2>2. CounterInv'
    BY <1>1, <2>1 DEF CounterInv, NoTraffic, Untouched
  <2>3. c'.pc \in Asking /\ c.flow # "phase7" /\ c.neg # "sas-reject"
    BY <1>1, <2>1 DEF Asking, Five, StandingInv
  <2>4. StandingInv'
    BY <1>1, <2>1, <2>3, StandsOn
  <2>5. Goes
    BY <1>1, <2>1, <2>3 DEF Goes, Steady, Frame
  <2> QED BY <1>1, <2>1, <2>2, <2>4, <2>5 DEF ProcessInv, ProcessStep
<1> QED BY <1>2, <1>3 DEF ConfirmSas, RejectSas, Require

(* FINISHED_C of v0.5 and v0.6. *)
LEMMA FinishedCStep ==
    ASSUME BaseInv, c.pc = "finished", c.flow \in Five, NEW good \in BOOLEAN, SendFinishedC(good),
           c.flow = "phase5" /\ c.neg \in {"finished-c", "transcript"} => ~good \/ s5.root = 0
    PROVE  ProcessInv' /\ ProcessStep
<1>1. /\ c \in ProcessSet /\ inbox \in Seq(Messages) /\ runs \in 0 .. MaxRuns /\ CounterInv /\ StandingInv
      /\ c.pc \in Asking /\ c.root # 0 /\ Running /\ c.vouched /\ faults \in 0 .. MaxFaults
  BY DEF BaseInv, ProcessInv, StandingInv, Asking, Running, Stations, Confirming
<1>2. CASE Refused(Phase5Expects("WAIT_FINISHED_C"))
  BY <1>1, <1>2, RefusedStep DEF ProcessStep
<1>3. CASE Phase5FinishedC(good) /\ Submitted(To("confirm"))
  <2>1. UNCHANGED <<inbox, runs, faults>> /\ c' = IF jobConn' = 0 THEN Ends("error") ELSE To("confirm")
    BY <1>3 DEF Submitted
  <2>2. CASE jobConn' = 0
    <3>1. ProcessInv' /\ Same /\ c'.pc = "cleanup" /\ c'.verdict = "error"
      BY <1>1, <2>1, <2>2, EndStep
    <3> QED BY <1>3, <2>1, <2>2, <3>1 DEF Finishes, Fails, ProcessStep
  <2>3. CASE jobConn' # 0
    <3>1. /\ c' \in ProcessSet /\ c'.pc = "confirm" /\ c'.verdict = c.verdict /\ c'.flow = c.flow
          /\ c'.neg = c.neg /\ c'.root = c.root /\ c'.tx = c.tx /\ c'.rx = c.rx /\ c'.round = c.round
          /\ c'.vouched = c.vouched
      BY <1>1, <2>1, <2>3 DEF To, ProcessSet, Stations, Waiting
    <3>2. CounterInv'
      BY <1>1, <3>1 DEF CounterInv, NoTraffic, Untouched
    <3>3. c'.pc \in Waiting /\ c.flow # "phase7" /\ c.neg # "sas-reject"
      BY <1>1, <3>1 DEF Waiting, Five, StandingInv
    <3>4. StandingInv'
      BY <1>1, <3>1, <3>3, StandsOn
    <3>5. Finishes
      BY <1>3, <2>1, <2>3, <3>1 DEF Finishes, Same, Steady, Frame
    <3> QED BY <1>1, <2>1, <3>1, <3>2, <3>4, <3>5 DEF ProcessInv, ProcessStep
  <2> QED BY <2>2, <2>3
<1> QED BY <1>2, <1>3 DEF SendFinishedC
(* A frame: the next one, sealed, or the last one again. *)
LEMMA FrameStep ==
    ASSUME BaseInv, c.pc \in Asking, c.vouched, c.flow \in SixFlows \cup {"phase7"},
           NEW seq \in Seqs, NEW intact \in BOOLEAN, NEW next, WriteFrame(seq, intact, next),
           c.flow \in SixFlows /\ c.neg = "c2p-tamper" => ~intact, c.flow = "phase7" => ~HandshakeTest,
           next \in ProcessSet, next.flow = c.flow, next.neg = c.neg, next.root = c.root, next.rx = c.rx,
           next.round = c.round, next.vouched = c.vouched, next.verdict = c.verdict, next.tx = seq + 1,
           next.tx \in {c.tx, c.tx + 1},
           \/ /\ next.pc \in {"pong", "tampered", "first"} /\ next.tx = c.round + 1 /\ c.rx = c.round
              /\ c.round < Goal
           \/ /\ next.pc = "replayed" /\ Got /\ next.tx = c.tx
              /\ c.pc = "again" \/ (c.flow = "phase7" /\ c.rx = c.tx)
    PROVE  ProcessInv' /\ ProcessStep
<1>1. /\ c \in ProcessSet /\ inbox \in Seq(Messages) /\ runs \in 0 .. MaxRuns /\ CounterInv /\ StandingInv
      /\ c.root # 0 /\ Running /\ faults \in 0 .. MaxFaults
  BY DEF BaseInv, ProcessInv, StandingInv, Asking, Running, Stations
<1>2. CASE Refused(DataWritable)
  BY <1>1, <1>2, RefusedStep DEF ProcessStep
<1>3. CASE WriteSecureData(seq, intact /\ OpenRoot = c.root) /\ Submitted(next)
  <2>1. UNCHANGED <<inbox, runs, faults>> /\ c' = IF jobConn' = 0 THEN Ends("error") ELSE next
    BY <1>3 DEF Submitted
  <2>2. PICK good \in BOOLEAN : WriteSecureData(seq, good) /\ (good => intact)
    BY <1>3
  <2>3. CASE jobConn' = 0
    <3>1. ProcessInv' /\ Same /\ c'.pc = "cleanup" /\ c'.verdict = "error"
      BY <1>1, <2>1, <2>3, EndStep
    <3>2. Writes
      BY <2>1, <2>2, <2>3, <3>1 DEF Writes, Fails, Same, Steady
    <3> QED BY <3>1, <3>2 DEF ProcessStep
  <2>4. CASE jobConn' # 0
    <3>1. c' = next
      BY <2>1, <2>4
    <3>2. Goal' = Goal /\ c'.pc \in Waiting
      BY <3>1 DEF Goal, Waiting
    <3>3. CounterInv'
      BY <3>1, <3>2 DEF CounterInv, Sent, Got, Begin
    <3>4. c.neg # "sas-reject" /\ c'.pc \notin {"quiet", "rejected", "blocked"}
      BY <1>1, <3>1 DEF StandingInv
    <3>5. StandingInv'
      BY <1>1, <3>1, <3>2, <3>4, StandsOn
    <3>6. Writes
      <4>1. \/ c'.tx = c.rx + 1
            \/ c'.tx = c.tx /\ (c.rx = c.tx \/ c.pc = "again")
        BY <3>1
      <4>2. c'.pc = "replayed" /\ c.flow \in SixFlows => c.pc = "again" /\ c'.tx = c.tx
        BY <3>1 DEF SixFlows
      <4> QED BY <2>1, <2>2, <2>4, <3>1, <3>2, <4>1, <4>2 DEF Writes, Frame
    <3> QED BY <1>1, <2>1, <3>1, <3>3, <3>5, <3>6 DEF ProcessInv, ProcessStep
  <2> QED BY <2>3, <2>4
<1> QED BY <1>2, <1>3 DEF WriteFrame

(* The two ways to write the next state of such a step. *)
LEMMA SealedFields ==
    ASSUME c \in ProcessSet, NEW pc \in Stations, c.tx < Rounds
    PROVE  LET next == Sealed(To(pc))
           IN  /\ next \in ProcessSet /\ next.pc = pc /\ next.flow = c.flow /\ next.neg = c.neg
               /\ next.root = c.root /\ next.rx = c.rx /\ next.round = c.round /\ next.vouched = c.vouched
               /\ next.verdict = c.verdict /\ next.tx = c.tx + 1 /\ c.tx \in Seqs
<1>1. c.tx + 1 \in 0 .. Rounds /\ c.tx \in Seqs
  BY Bounds DEF ProcessSet
<1>2. Sealed(To(pc)) = [c EXCEPT !.pc = pc, !.tx = c.tx + 1]
  BY DEF Sealed, To, ProcessSet
<1> QED BY <1>1, <1>2 DEF ProcessSet
LEMMA ToFields ==
    ASSUME c \in ProcessSet, NEW pc \in Stations
    PROVE  LET next == To(pc)
           IN  /\ next \in ProcessSet /\ next.pc = pc /\ next.flow = c.flow /\ next.neg = c.neg
               /\ next.root = c.root /\ next.rx = c.rx /\ next.round = c.round /\ next.vouched = c.vouched
               /\ next.verdict = c.verdict /\ next.tx = c.tx /\ next.then = c.then
  BY DEF To, ProcessSet

(* The flow of v0.5. *)
LEMMA Phase5Step == ASSUME BaseInv, Phase5Next PROVE ProcessInv' /\ ProcessStep
<1>1. /\ c \in ProcessSet /\ inbox \in Seq(Messages) /\ runs \in 0 .. MaxRuns /\ CounterInv /\ StandingInv
      /\ faults \in 0 .. MaxFaults
  BY DEF BaseInv, ProcessInv
<1>2. CASE Phase5Prepare \/ Phase5Start
  <2>1. CASE c.pc = "prepare" /\ UploadBegins
    BY <2>1, PrepareStep
  <2>2. CASE /\ c.pc = "start" /\ c.flow = "phase5"
             /\ SendStart("start5", [To("ready") EXCEPT !.machine = "WAIT_READY_FOR_SAS"])
    BY <2>2, SendStep DEF Starts, ModesOf, SixFlows
  <2> QED BY <1>2, <2>1, <2>2 DEF Phase5Prepare, Phase5Start, MachineStart, At
<1>3. CASE Phase5Ready
  BY <1>3, ReadyForSasStep DEF Phase5Ready, At, Five
<1>4. CASE Phase5Sas
  <2>1. PICK yes \in BOOLEAN : /\ UserAnswers(SasMatches, yes)
                               /\ c' = IF yes THEN ConfirmSas
                                       ELSE RejectSas(IF c.neg = "transcript" THEN "passed" ELSE "error")
    BY <1>4 DEF Phase5Sas
  <2>2. faults' \in 0 .. MaxFaults
    BY <2>1, UserFaults
  <2>3. PICK verdict \in {"passed", "error"} : c' = ConfirmSas \/ c' = RejectSas(verdict)
    BY <2>1
  <2>4. c.pc = "sas" /\ c.flow = "phase5" /\ UNCHANGED <<vars, inbox, runs>>
    BY <1>4 DEF Phase5Sas, At
  <2> QED BY <2>2, <2>3, <2>4, SasStep DEF Five
<1>5. CASE Phase5Finish
  <2>1. /\ c.pc = "finished" /\ c.flow = "phase5"
        /\ SendFinishedC(c.neg # "finished-c" /\ FinishedCValid)
    BY <1>5 DEF Phase5Finish, At
  <2>2. PICK good \in BOOLEAN : good = (c.neg # "finished-c" /\ FinishedCValid)
    BY DEF FinishedCValid
  <2>3. c.neg \in {"finished-c", "transcript"} => ~good \/ s5.root = 0
    BY <2>2 DEF FinishedCValid, LocalSecret
  <2> QED BY <2>1, <2>2, <2>3, FinishedCStep DEF Five
<1>6. CASE Phase5Refusal
  <2>1. c.pc = "confirm" /\ c.flow = "phase5" /\ c.pc \in Waiting
    BY <1>6 DEF Phase5Refusal, At, Waiting
  <2>2. Running /\ c.root # 0
    BY <2>1, WaitingFacts
  <2>3. CASE TimesOut(Ends("passed"))
    BY <2>1, <2>2, <2>3, QuitStep DEF ProcessStep
  <2>4. CASE \E verdict \in {"passed", "error"} : Takes(Ends(verdict))
    BY <2>1, <2>4, HeardEnd DEF ProcessStep
  <2> QED BY <1>6, <2>3, <2>4 DEF Phase5Refusal
<1>7. CASE Phase5Confirm
  <2>1. c.pc = "confirm" /\ c.flow = "phase5" /\ c.pc \in Waiting
    BY <1>7 DEF Phase5Confirm, At, Waiting
  <2>2. Running
    BY <2>1, WaitingFacts
  <2>3. CASE TimesOut(Ends("error"))
    BY <2>2, <2>3, LateStep DEF ProcessStep
  <2>4. CASE \E verdict \in {"passed", "error"} : Takes(Ends(verdict))
    BY <2>1, <2>4, HeardEnd DEF ProcessStep
  <2>5. CASE Takes(ReceiveFinishedP(Received, TRUE))
    BY <2>1, <2>5, FinishedPStep DEF Receives, Five
  <2>6. \/ TimesOut(Ends("error"))
        \/ \E verdict \in {"passed", "error"} : Takes(Ends(verdict))
        \/ Takes(ReceiveFinishedP(Received, TRUE))
    <3>1. CASE c.neg = "finished-p"
      BY <1>7, <3>1 DEF Phase5Confirm, Receives
    <3>2. CASE c.neg # "finished-p"
      <4>1. (c.neg # "finished-p") = TRUE
        BY <3>2
      <4> QED BY <1>7, <4>1 DEF Phase5Confirm, Receives
    <3> QED BY <3>1, <3>2
  <2> QED BY <2>3, <2>4, <2>5, <2>6
<1>8. CASE Phase5Request
  <2>1. /\ c.pc = "secure" /\ c.flow = "phase5" /\ c.pc \in Asking /\ c.root # 0 /\ Running /\ c.vouched
    BY <1>1, <1>8 DEF Phase5Request, At, Asking, Running, Stations, StandingInv, Confirming
  <2>2. CASE Refused(Phase5Expects("AUTHENTICATED"))
    BY <2>1, <2>2, RefusedStep DEF ProcessStep
  <2>3. CASE Phase5Data /\ Submitted([To("data") EXCEPT !.machine = "WAIT_APPLICATION_DATA"])
    <3>1. /\ UNCHANGED <<inbox, runs, faults>>
          /\ c' = IF jobConn' = 0 THEN Ends("error") ELSE [To("data") EXCEPT !.machine = "WAIT_APPLICATION_DATA"]
      BY <2>3 DEF Submitted
    <3>2. CASE jobConn' = 0
      <4>1. ProcessInv' /\ Same /\ c'.pc = "cleanup" /\ c'.verdict = "error"
        BY <1>1, <2>1, <3>1, <3>2, EndStep
      <4> QED BY <2>1, <2>3, <3>1, <3>2, <4>1 DEF Asks, Fails, ProcessStep
    <3>3. CASE jobConn' # 0
      <4>1. /\ c' \in ProcessSet /\ c'.pc = "data" /\ c'.verdict = c.verdict /\ c'.flow = c.flow
            /\ c'.neg = c.neg /\ c'.root = c.root /\ c'.tx = c.tx /\ c'.rx = c.rx /\ c'.round = c.round
            /\ c'.vouched = c.vouched
        BY <1>1, <3>1, <3>3 DEF To, ProcessSet, Stations, Waiting, Machines
      <4>2. CounterInv'
        BY <1>1, <2>1, <4>1 DEF CounterInv, NoTraffic, Untouched
      <4>3. c'.pc \in Waiting /\ c.neg # "sas-reject"
        BY <1>1, <2>1, <4>1 DEF Waiting, StandingInv
      <4>4. StandingInv'
        BY <2>1, <4>1, <4>3, StandsOn
      <4>5. Asks
        BY <2>1, <2>3, <3>1, <3>3, <4>1 DEF Asks, Same, Steady, Frame
      <4> QED BY <1>1, <3>1, <4>1, <4>2, <4>4, <4>5 DEF ProcessInv, ProcessStep
    <3> QED BY <3>2, <3>3
  <2> QED BY <1>8, <2>2, <2>3 DEF Phase5Request
<1>9. CASE Phase5Receive
  <2>1. c.pc = "data" /\ c.flow = "phase5" /\ c.pc \in Waiting
    BY <1>9 DEF Phase5Receive, At, Waiting
  <2>2. Running /\ c.root # 0
    BY <2>1, WaitingFacts
  <2>3. CASE TimesOut(Ends("error"))
    BY <2>2, <2>3, LateStep DEF ProcessStep
  <2>4. CASE Takes(Ends("error"))
    BY <2>1, <2>4, HeardEnd DEF ProcessStep
  <2>5. CASE Takes([Opened(Received, Ends("ok")) EXCEPT !.machine = "COMPLETE"]) /\ Received.type = "DATA5"
    <3>1. /\ inbox # <<>> /\ Received \in Messages /\ inbox' = Tail(inbox) /\ inbox' \in Seq(Messages)
          /\ c' = [Opened(Received, Ends("ok")) EXCEPT !.machine = "COMPLETE"]
          /\ UNCHANGED <<vars, runs, faults>> /\ Received = Head(inbox)
      BY <2>5, Taken
    <3>2. Received.seq + 1 \in 0 .. LABELS + 2
      BY <3>1, Bounds DEF Messages
    <3>3. /\ c' \in ProcessSet /\ c'.pc = "cleanup" /\ c'.verdict = "ok" /\ c'.flow = c.flow
          /\ c'.neg = c.neg /\ c'.root = c.root /\ c'.tx = c.tx /\ c'.rx = Received.seq + 1
          /\ c'.round = c.round /\ c'.vouched = c.vouched
      BY <1>1, <3>1, <3>2 DEF Opened, Ends, ProcessSet, Stations, Ending, Machines
    <3>4. CounterInv'
      BY <3>3 DEF CounterInv, Begin
    <3>5. StandingInv'
      BY <1>1, <2>1, <2>2, <3>3 DEF StandingInv, Begin, Asking, Waiting, Confirming, Ending, SixFlows
    <3>6. Hears
      BY <2>1, <2>5, <3>1, <3>3 DEF Hears, Steady, Frame, Asking, SixFlows
    <3> QED BY <1>1, <3>1, <3>3, <3>4, <3>5, <3>6 DEF ProcessInv, ProcessStep
  <2> QED BY <1>9, <2>3, <2>4, <2>5 DEF Phase5Receive, Receives, Require
<1> QED BY <1>2, <1>3, <1>4, <1>5, <1>6, <1>7, <1>8, <1>9 DEF Phase5Next
(* The rounds and the negative tests of v0.6. *)
LEMMA Phase6Traffic ==
    ASSUME BaseInv, Phase6C2pTamper \/ Phase6C2pReplay \/ Phase6P2cTamper \/ Phase6P2cReplay \/ Phase6Send
    PROVE  ProcessInv' /\ ProcessStep
<1>1. /\ c \in ProcessSet /\ inbox \in Seq(Messages) /\ runs \in 0 .. MaxRuns /\ CounterInv /\ StandingInv
      /\ faults \in 0 .. MaxFaults
  BY DEF BaseInv, ProcessInv
<1>2. /\ c.flow \in SixFlows /\ Goal \in Nat /\ Goal <= Rounds /\ c.tx \in Nat /\ c.rx \in Nat /\ c.round \in Nat
      /\ c.flow # "phase7"
  <2>1. c.flow \in SixFlows /\ c.flow # "phase7"
    BY DEF Phase6C2pTamper, Phase6C2pReplay, Phase6P2cTamper, Phase6P2cReplay, Phase6Send, Testing, Six, SixFlows
  <2>2. c.tx \in Nat /\ c.rx \in Nat /\ c.round \in Nat
    BY <1>1, Bounds DEF ProcessSet
  <2>3. Goal \in Nat /\ Goal <= Rounds
    BY Bounds DEF Goal
  <2> QED BY <2>1, <2>2, <2>3
<1>s. ASSUME c.pc = "secure", NEW intact \in BOOLEAN, NEW pc \in {"tampered", "first", "pong"},
             WriteFrame(c.tx, intact, Sealed(To(pc))), c.neg = "c2p-tamper" => ~intact
      PROVE  ProcessInv' /\ ProcessStep
  <2>a. Between /\ c.pc \in Asking /\ c.vouched
    BY <1>1, <1>s DEF CounterInv, StandingInv, Asking, Confirming
  <2>b. c.tx < Rounds
    BY <1>2, <2>a, Bounds DEF Between
  <2>1. Between /\ c.tx < Rounds /\ c.pc \in Asking /\ c.vouched
    BY <2>a, <2>b
  <2>2. pc \in Stations
    BY DEF Stations, Waiting
  <2> DEFINE next == Sealed(To(pc))
  <2>3. /\ next \in ProcessSet /\ next.pc = pc /\ next.flow = c.flow /\ next.neg = c.neg
        /\ next.root = c.root /\ next.rx = c.rx /\ next.round = c.round /\ next.vouched = c.vouched
        /\ next.verdict = c.verdict /\ next.tx = c.tx + 1 /\ c.tx \in Seqs
    BY <1>1, <2>1, <2>2, SealedFields
  <2>4. /\ next.tx = c.round + 1 /\ c.rx = c.round /\ c.round < Goal
    BY <2>1, <2>3 DEF Between
  <2>5. WriteFrame(c.tx, intact, next)
    BY <1>s
  <2> HIDE DEF next
  <2> QED BY <1>2, <1>s, <2>1, <2>3, <2>4, <2>5, FrameStep
<1>w. c.pc \in {"tampered", "first", "replayed"} => c.pc \in Waiting /\ Running
  BY DEF Waiting, Running, Stations
<1>r. ASSUME c.pc \in {"tampered", "first", "replayed"}, c.neg # "none", NEW passed \in BOOLEAN,
             Receives(Verdict(passed)),
             passed => c.neg = "c2p-tamper" \/ c.pc = "replayed" \/ Received.type = "PONG"
      PROVE  ProcessInv' /\ ProcessStep
  <2>1. CASE TimesOut(Ends("error"))
    BY <1>w, <1>r, <2>1, LateStep DEF ProcessStep
  <2>2. CASE Takes(Ends(IF passed THEN "passed" ELSE "error"))
    <3>1. PICK verdict \in {"passed", "error"} : verdict = (IF passed THEN "passed" ELSE "error")
      OBVIOUS
    <3> QED BY <1>2, <1>w, <1>r, <2>2, <3>1, HeardEnd DEF ProcessStep
  <2> QED BY <1>r, <2>1, <2>2 DEF Receives, Verdict
<1>3. CASE Phase6C2pTamper
  <2>1. CASE Testing("c2p-tamper", "secure") /\ WriteFrame(c.tx, FALSE, Sealed(To("tampered")))
    BY <1>s, <2>1 DEF Testing, Six
  <2>2. CASE /\ Testing("c2p-tamper", "tampered")
             /\ Receives(Verdict(RefusedWith(AUTHENTICATION_FAILURE)))
    <3>1. RefusedWith(AUTHENTICATION_FAILURE) \in BOOLEAN
      BY DEF RefusedWith
    <3> QED BY <1>r, <2>2, <3>1 DEF Testing, Six
  <2> QED BY <1>3, <2>1, <2>2 DEF Phase6C2pTamper
<1>4. CASE Phase6C2pReplay
  <2>1. CASE Testing("c2p-replay", "secure") /\ WriteFrame(c.tx, TRUE, Sealed(To("first")))
    BY <1>s, <2>1 DEF Testing, Six
  <2>2. CASE /\ Testing("c2p-replay", "first")
             /\ Receives(IF FirstPong(Received) THEN Opened(Received, To("again")) ELSE Ends("error"))
    <3>1. c.pc = "first" /\ c.pc \in Waiting /\ Running /\ Sent /\ c.vouched
      BY <1>1, <1>w, <2>2 DEF Testing, Six, CounterInv, StandingInv, Confirming
    <3>2. CASE TimesOut(Ends("error"))
      BY <3>1, <3>2, LateStep DEF ProcessStep
    <3>3. CASE Takes(Ends("error"))
      BY <3>1, <3>3, HeardEnd DEF ProcessStep
    <3>4. CASE Takes(Opened(Received, To("again"))) /\ FirstPong(Received)
      <4>1. Received \in Messages /\ c' = Opened(Received, To("again")) /\ Received.type = "PONG"
        BY <3>4, Taken DEF FirstPong, Phase6Frame
      <4>2. Received.seq + 1 \in 0 .. LABELS + 2
        BY <4>1, Bounds DEF Messages
      <4>3. /\ c' \in ProcessSet /\ c'.pc = "again" /\ c'.verdict = c.verdict /\ c'.flow = c.flow
            /\ c'.neg = c.neg /\ c'.root = c.root /\ c'.tx = c.tx /\ c'.rx = Received.seq + 1
            /\ c'.round = c.round /\ c'.vouched = c.vouched
        BY <1>1, <4>1, <4>2 DEF To, Opened, ProcessSet, Stations, Asking
      <4>4. Goal' = Goal
        BY <4>3 DEF Goal
      <4>5. CounterInv'
        BY <1>2, <3>1, <4>3, <4>4 DEF CounterInv, Got, Sent, Begin
      <4>6. c'.pc \in Asking /\ c'.pc \notin {"rejected", "blocked", "quiet"}
        BY <4>3 DEF Asking
      <4>7. ProcessInv' /\ Steady /\ UNCHANGED vars /\ inbox # <<>> /\ inbox' = Tail(inbox) /\ Received = Head(inbox)
        BY <1>2, <3>1, <3>4, <4>3, <4>5, <4>6, HeardMove
      <4>8. Hears
        BY <1>2, <3>1, <4>1, <4>3, <4>6, <4>7 DEF Hears
      <4> QED BY <4>7, <4>8 DEF ProcessStep
    <3> QED BY <2>2, <3>2, <3>3, <3>4 DEF Receives
  <2>3. CASE Testing("c2p-replay", "again") /\ WriteFrame(c.tx - 1, TRUE, To("replayed"))
    <3>1. c.pc = "again" /\ c.pc \in Asking /\ Got /\ c.vouched /\ c.neg = "c2p-replay" /\ "replayed" \in Stations
      BY <1>1, <2>3 DEF Testing, Six, CounterInv, StandingInv, Confirming, Asking, Stations, Waiting
    <3>2. c.tx - 1 = c.round /\ c.tx - 1 \in Seqs
      BY <1>1, <1>2, <3>1, Bounds DEF Got, ProcessSet
    <3> DEFINE next == To("replayed")
    <3>3. /\ next \in ProcessSet /\ next.pc = "replayed" /\ next.flow = c.flow /\ next.neg = c.neg
          /\ next.root = c.root /\ next.rx = c.rx /\ next.round = c.round /\ next.vouched = c.vouched
          /\ next.verdict = c.verdict /\ next.tx = c.tx
      BY <1>1, <3>1, ToFields
    <3>a. next.tx = (c.tx - 1) + 1
      <4> HIDE DEF next
      <4> QED BY <1>2, <3>3
    <3>4. WriteFrame(c.tx - 1, TRUE, next) /\ next.tx = (c.tx - 1) + 1
      BY <2>3, <3>a
    <3> HIDE DEF next
    <3> QED BY <1>2, <3>1, <3>2, <3>3, <3>4, FrameStep
  <2>4. CASE /\ Testing("c2p-replay", "replayed")
             /\ Receives(Verdict(RefusedWith(INVALID_PROTOCOL_STATE)))
    <3>1. RefusedWith(INVALID_PROTOCOL_STATE) \in BOOLEAN
      BY DEF RefusedWith
    <3> QED BY <1>r, <2>4, <3>1 DEF Testing, Six
  <2> QED BY <1>4, <2>1, <2>2, <2>3, <2>4 DEF Phase6C2pReplay
<1>5. CASE Phase6P2cTamper \/ Phase6P2cReplay
  <2>1. CASE c.pc = "secure" /\ c.neg # "c2p-tamper" /\ WriteFrame(c.tx, TRUE, Sealed(To("first")))
    BY <1>s, <2>1
  <2>2. CASE c.pc = "first" /\ c.neg # "none"
             /\ Receives(Verdict(/\ Phase6Frame(Received)
                                 /\ Decrypt(Received, FALSE, c) = "InvalidTag"
                                 /\ FirstPong(Received)))
    BY <1>r, <2>2 DEF Phase6Frame
  <2>3. CASE c.pc = "first" /\ c.neg # "none"
             /\ Receives(Verdict(/\ FirstPong(Received)
                                 /\ Decrypt(Received, TRUE, Opened(Received, c)) = "replay"))
    BY <1>r, <2>3 DEF Phase6Frame, FirstPong
  <2> QED BY <1>5, <2>1, <2>2, <2>3 DEF Phase6P2cTamper, Phase6P2cReplay, Testing, Six
<1>6. CASE Phase6Send
  <2>1. c.pc = "secure" /\ c.neg = "none" /\ c.pc \in Asking /\ Running /\ c.root # 0
    BY <1>1, <1>6 DEF Phase6Send, Testing, Six, Asking, Running, Stations, StandingInv
  <2>2. CASE c' = Ends("error") /\ UNCHANGED <<vars, inbox, runs, faults>>
    BY <2>1, <2>2, QuitStep DEF ProcessStep
  <2>3. CASE WriteFrame(c.tx, TRUE, Sealed(To("pong")))
    BY <1>s, <2>1, <2>3
  <2> QED BY <1>6, <2>2, <2>3 DEF Phase6Send
<1> QED BY <1>3, <1>4, <1>5, <1>6
(* An answer to a round of v0.6: the next round, or the count of both channels. *)
LEMMA Phase6Round ==
    ASSUME BaseInv, Phase6Receive PROVE ProcessInv' /\ ProcessStep
<1>1. /\ c \in ProcessSet /\ inbox \in Seq(Messages) /\ runs \in 0 .. MaxRuns /\ CounterInv /\ StandingInv
      /\ faults \in 0 .. MaxFaults
  BY DEF BaseInv, ProcessInv
<1>2. c.pc = "pong" /\ c.flow \in SixFlows /\ c.flow # "phase7" /\ c.pc \in Waiting /\ c.pc \in Confirming
  BY DEF Phase6Receive, Six, SixFlows, Waiting, Confirming
<1>3. Running /\ c.root # 0 /\ c.vouched /\ Sent /\ c.verdict = "none"
  BY <1>1, <1>2, WaitingFacts DEF StandingInv, CounterInv
<1>4. CASE TimesOut(Ends("error"))
  BY <1>3, <1>4, LateStep DEF ProcessStep
<1>5. CASE Takes(Ends("error"))
  BY <1>2, <1>5, HeardEnd DEF ProcessStep
<1>6. CASE /\ Takes(Phase6Counts([Opened(Received, To("secure")) EXCEPT !.round = @ + 1]))
           /\ Received.type = "PONG" /\ Received.seq = c.round
  <2> DEFINE state == [Opened(Received, To("secure")) EXCEPT !.round = @ + 1]
  <2>1. /\ c.round \in Nat /\ c.tx \in Nat /\ Goal \in Nat /\ Goal <= Rounds /\ Rounds <= LABELS + 1
        /\ LABELS \in Nat /\ Rounds \in Nat
    BY <1>1, Bounds DEF ProcessSet, Goal
  <2>2. c.tx = c.round + 1 /\ c.rx = c.round /\ c.round < Goal /\ SixRounds = Goal
    BY <1>3 DEF Sent, SixRounds, Goal
  <2>3. /\ inbox # <<>> /\ Received \in Messages /\ inbox' = Tail(inbox) /\ inbox' \in Seq(Messages)
        /\ c' = Phase6Counts(state) /\ UNCHANGED <<vars, runs, faults>> /\ Received = Head(inbox)
    BY <1>6, Taken
  <2>4. c.round + 1 \in 0 .. LABELS + 2 /\ c.round + 1 \in 0 .. Rounds
    BY <2>1, <2>2
  <2>5. state = [c EXCEPT !.pc = "secure", !.rx = c.round + 1, !.round = c.round + 1]
    BY <1>1, <1>6 DEF Opened, To, ProcessSet
  <2>6. /\ state \in ProcessSet /\ state.pc = "secure" /\ state.flow = c.flow /\ state.neg = c.neg
        /\ state.root = c.root /\ state.rx = c.round + 1 /\ state.round = c.round + 1
        /\ state.vouched = c.vouched /\ state.verdict = c.verdict /\ state.tx = c.tx
    BY <1>1, <2>4, <2>5 DEF ProcessSet, Stations, Asking
  <2> HIDE DEF state
  <2>7. CASE c.round + 1 < Goal
    <3>1. c' = state
      BY <2>2, <2>3, <2>6, <2>7 DEF Phase6Counts
    <3>2. Goal' = Goal
      BY <2>6, <3>1 DEF Goal
    <3>3. CounterInv'
      <4>1. Between'
        BY <2>2, <2>6, <2>7, <3>1, <3>2 DEF Between
      <4>2. c'.pc = "secure" /\ c'.flow # "phase5"
        BY <1>2, <2>6, <3>1 DEF SixFlows
      <4> QED BY <4>1, <4>2 DEF CounterInv, Begin
    <3>4. c'.pc \in Asking /\ c'.pc \notin {"rejected", "blocked", "quiet", "again"}
      BY <2>6, <3>1 DEF Asking
    <3>5. /\ ProcessInv' /\ Steady /\ UNCHANGED vars /\ inbox # <<>> /\ inbox' = Tail(inbox)
          /\ Received = Head(inbox)
      BY <1>2, <1>3, <1>6, <2>6, <3>1, <3>3, <3>4, HeardMove DEF state
    <3>6. Hears
      BY <1>2, <1>6, <2>6, <3>1, <3>4, <3>5 DEF Hears
    <3> QED BY <3>5, <3>6 DEF ProcessStep
  <2>8. CASE ~(c.round + 1 < Goal)
    <3>1. PICK verdict \in {"ok", "error"} : c' = [state EXCEPT !.pc = "cleanup", !.verdict = verdict]
      BY <2>2, <2>3, <2>6, <2>8 DEF Phase6Counts
    <3>2. c.round + 1 = Goal
      BY <2>1, <2>2, <2>8
    <3>3. /\ c' \in ProcessSet /\ c'.pc = "cleanup" /\ c'.verdict = verdict /\ c'.flow = c.flow
          /\ c'.neg = c.neg /\ c'.root = c.root /\ c'.tx = c.tx /\ c'.rx = c.round + 1 /\ c'.vouched = c.vouched
      BY <2>6, <3>1 DEF ProcessSet, Stations, Ending
    <3>4. Goal' = Goal
      BY <3>3 DEF Goal
    <3>5. CounterInv'
      BY <3>3 DEF CounterInv, Begin
    <3>6. c'.tx = Goal' /\ c'.rx = Goal'
      BY <2>2, <3>2, <3>3, <3>4
    <3>7. StandingInv'
      BY <1>1, <1>2, <1>3, <3>3, <3>6 DEF StandingInv, Begin, Asking, Waiting, Confirming, Ending
    <3>8. Hears
      BY <1>2, <1>6, <2>3, <3>3 DEF Hears, Steady, Frame, Asking
    <3> QED BY <1>1, <2>3, <3>3, <3>5, <3>7, <3>8 DEF ProcessInv, ProcessStep
  <2> QED BY <2>7, <2>8
<1> QED BY <1>4, <1>5, <1>6 DEF Phase6Receive, Receives, Phase6Frame

(* The flow of v0.6. *)
LEMMA Phase6Step == ASSUME BaseInv, Phase6Next PROVE ProcessInv' /\ ProcessStep
<1>1. /\ c \in ProcessSet /\ inbox \in Seq(Messages) /\ runs \in 0 .. MaxRuns /\ CounterInv /\ StandingInv
      /\ faults \in 0 .. MaxFaults
  BY DEF BaseInv, ProcessInv
<1>2. CASE Phase6PreAuth
  <2>1. /\ c.pc = "prepare" /\ c.neg = "pre-auth" /\ c.flow \in SixFlows /\ UNCHANGED <<inbox, runs, faults>>
        /\ c.pc \in Stations \ {"connect", "cleanup", "close", "exit"} /\ c.root = 0 /\ Running
    BY <1>1, <1>2 DEF Phase6PreAuth, Six, SixFlows, Stations, Begin, StandingInv, Running
  <2>2. PICK verdict \in {"passed", "error"} : c' = Ends(verdict)
    BY <1>2 DEF Phase6PreAuth
  <2>3. ProcessInv' /\ Same /\ c'.pc = "cleanup" /\ c'.verdict = verdict
    BY <1>1, <2>1, <2>2, EndStep
  <2>4. CASE WriteSecureData(0, FALSE)
    BY <2>1, <2>3, <2>4 DEF ProbesEarly, ProcessStep
  <2>5. CASE UNCHANGED vars
    BY <2>1, <2>3, <2>5 DEF Quits, ProcessStep
  <2> QED BY <1>2, <2>4, <2>5 DEF Phase6PreAuth
<1>3. CASE Phase6Prepare \/ Phase6Start
  <2>1. CASE c.pc = "prepare" /\ UploadBegins
    BY <2>1, PrepareStep
  <2>2. CASE /\ c.pc = "start" /\ c.flow \in SixFlows
             /\ SendStart("start5", [To("ready") EXCEPT !.machine = "WAIT_READY_FOR_SAS"])
    <3>1. "start5" \in Starts /\ "start5" \in ModesOf(c.flow)
      BY <2>2 DEF Starts, ModesOf, SixFlows
    <3> QED BY <2>2, <3>1, SendStep
  <2> QED BY <1>3, <2>1, <2>2 DEF Phase6Prepare, Phase6Start, MachineStart, Six, SixFlows
<1>4. CASE Phase6Ready
  BY <1>4, ReadyForSasStep DEF Phase6Ready, Six, Five
<1>5. CASE Phase6Sas
  <2>1. PICK yes \in BOOLEAN : /\ UserAnswers(SasMatches, yes)
                               /\ c' = IF yes THEN ConfirmSas ELSE RejectSas("error")
    BY <1>5 DEF Phase6Sas
  <2>2. faults' \in 0 .. MaxFaults
    BY <2>1, UserFaults
  <2>3. c' = ConfirmSas \/ c' = RejectSas("error")
    BY <2>1
  <2>4. c.pc = "sas" /\ c.flow \in Five /\ UNCHANGED <<vars, inbox, runs>>
    BY <1>5 DEF Phase6Sas, Six, Five
  <2> QED BY <2>2, <2>3, <2>4, SasStep
<1>6. CASE Phase6Finish
  <2>1. c.pc = "finished" /\ c.flow \in Five /\ c.flow # "phase5" /\ SendFinishedC(FinishedCValid)
    BY <1>6 DEF Phase6Finish, Six, Five
  <2>2. PICK good \in BOOLEAN : good = FinishedCValid
    BY DEF FinishedCValid
  <2> QED BY <2>1, <2>2, FinishedCStep
<1>7. CASE Phase6Confirm
  BY <1>7, FinishedPStep DEF Phase6Confirm, Six, Five
<1> QED BY <1>2, <1>3, <1>4, <1>5, <1>6, <1>7, Phase6Traffic, Phase6Round DEF Phase6Next
(* The quiet window of a negative test of v0.7. *)
LEMMA QuietFields ==
    ASSUME c \in ProcessSet, NEW pc \in {"sas", "passed", "retry", "next"}
    PROVE  LET next == QuietThen(pc)
           IN  /\ next \in ProcessSet /\ next.pc = "quiet" /\ next.then = pc /\ next.flow = c.flow
               /\ next.neg = c.neg /\ next.root = c.root /\ next.rx = c.rx /\ next.tx = c.tx
               /\ next.round = c.round /\ next.vouched = c.vouched /\ next.verdict = c.verdict
<1>1. "quiet" \in Stations
  BY DEF Stations, Asking
<1>2. QuietThen(pc) = [c EXCEPT !.pc = "quiet", !.then = pc]
  BY DEF QuietThen, To, ProcessSet
<1> QED BY <1>1, <1>2 DEF ProcessSet
LEMMA QuietStep == ASSUME BaseInv, RequireQuiet PROVE ProcessInv' /\ ProcessStep
<1>1. /\ c \in ProcessSet /\ inbox \in Seq(Messages) /\ runs \in 0 .. MaxRuns /\ CounterInv /\ StandingInv
      /\ faults \in 0 .. MaxFaults
  BY DEF BaseInv, ProcessInv
<1>2. /\ c.pc = "quiet" /\ c.flow = "phase7" /\ c.pc \in Asking /\ Running /\ c.root # 0 /\ c.verdict = "none"
  BY <1>1 DEF RequireQuiet, Seven, At, Asking, Running, Stations, StandingInv, Ending
<1>3. CASE Takes(Ends("error"))
  BY <1>2, <1>3, HeardEnd DEF ProcessStep
<1>4. CASE c' = Ends("error") /\ UNCHANGED <<vars, inbox, runs, faults>>
  BY <1>2, <1>4, QuitStep DEF ProcessStep
<1>5. CASE /\ c.then = "passed" /\ c' = [Ends("passed") EXCEPT !.checked = TRUE]
           /\ UNCHANGED <<vars, inbox, runs, faults>>
  <2>1. /\ c' \in ProcessSet /\ c'.pc = "cleanup" /\ c'.verdict = "passed" /\ c'.flow = c.flow
        /\ c'.neg = c.neg /\ c'.root = c.root /\ c'.tx = c.tx /\ c'.rx = c.rx /\ c'.round = c.round
        /\ c'.vouched = c.vouched
    BY <1>1, <1>5 DEF Ends, ProcessSet, Stations, Ending
  <2>2. IF HandshakeTest THEN NoTraffic ELSE AllRounds
    BY <1>1, <1>2, <1>5 DEF CounterInv
  <2>3. IF HandshakeTest' THEN NoTraffic' ELSE AllRounds'
    BY <2>1, <2>2 DEF HandshakeTest, NoTraffic, Untouched, AllRounds
  <2>4. CounterInv'
    BY <2>1 DEF CounterInv, Begin
  <2>5. StandingInv'
    BY <1>1, <1>2, <2>1, <2>3 DEF StandingInv, Begin, Asking, Waiting, Confirming, Ending, SixFlows
  <2>6. Goes
    BY <1>2, <1>5, <2>1 DEF Goes, Steady, Frame, SixFlows
  <2> QED BY <1>1, <1>5, <2>1, <2>4, <2>5, <2>6 DEF ProcessInv, ProcessStep
<1>6. CASE /\ c.then # "passed" /\ c' = [To(c.then) EXCEPT !.checked = TRUE]
           /\ UNCHANGED <<vars, inbox, runs, faults>>
  <2>1. c.then \in {"sas", "retry", "next"}
    BY <1>1, <1>2, <1>6 DEF CounterInv
  <2>2. c.then \in Stations
    BY <2>1 DEF Stations, Asking
  <2>3. /\ c' \in ProcessSet /\ c'.pc = c.then /\ c'.verdict = c.verdict /\ c'.flow = c.flow
        /\ c'.neg = c.neg /\ c'.root = c.root /\ c'.tx = c.tx /\ c'.rx = c.rx /\ c'.round = c.round
        /\ c'.vouched = c.vouched
    BY <1>1, <1>6, <2>2 DEF To, ProcessSet
  <2>4. CounterInv'
    <3>1. /\ (c'.pc = "sas" => NoTraffic) /\ (c'.pc = "retry" => Sent) /\ (c'.pc = "next" => Got)
          /\ c'.pc \in {"sas", "retry", "next"}
      BY <1>1, <1>2, <2>1, <2>3 DEF CounterInv
    <3>2. (NoTraffic => NoTraffic') /\ (Sent => Sent') /\ (Got => Got')
      BY <2>3 DEF NoTraffic, Untouched, Sent, Got, Goal
    <3> QED BY <3>1, <3>2 DEF CounterInv, Begin
  <2>5. c'.pc \in Asking /\ (c'.pc \in Confirming => c'.pc \in {"retry", "next"})
        /\ c'.pc \notin {"rejected", "blocked", "again", "quiet", "secure", "cleanup"}
    BY <2>1, <2>3 DEF Asking, Confirming
  <2>6. StandingInv'
    <3>1. /\ c.vouched => c.neg # "sas-reject"
          /\ c.then \in {"retry", "next"} => c.vouched /\ ~HandshakeTest
      BY <1>1, <1>2 DEF StandingInv
    <3>2. c'.pc \in {"secure", "tampered", "retry", "pong", "next", "replay", "replayed"} => c.then \in {"retry", "next"}
      BY <2>1, <2>3
    <3>3. c'.pc \notin {"ready", "probe"}
      BY <2>1, <2>3
    <3> QED BY <1>2, <2>3, <2>5, <3>1, <3>2, <3>3, StandsOn
  <2>7. Goes
    BY <1>2, <1>6, <2>3, <2>5 DEF Goes, Steady, Frame
  <2> QED BY <1>1, <1>6, <2>3, <2>4, <2>6, <2>7 DEF ProcessInv, ProcessStep
<1>7. \/ Takes(Ends("error"))
      \/ /\ c' = IF cur = 0 THEN Ends("error")
                 ELSE [(IF c.then = "passed" THEN Ends("passed") ELSE To(c.then)) EXCEPT !.checked = TRUE]
         /\ UNCHANGED <<vars, inbox, runs, faults>>
  BY DEF RequireQuiet
<1> QED BY <1>3, <1>4, <1>5, <1>6, <1>7

(* A frame that must be refused. *)
LEMMA RejectionStep ==
    ASSUME BaseInv, c.flow = "phase7", NEW pc \in {"sas", "passed"}, RequirePreauthRejection(pc),
           \/ c.pc = "probe" /\ pc = "sas"
           \/ c.pc \in {"rejected", "blocked"} /\ pc = "passed"
    PROVE  ProcessInv' /\ ProcessStep
<1>1. /\ c \in ProcessSet /\ inbox \in Seq(Messages) /\ runs \in 0 .. MaxRuns /\ CounterInv /\ StandingInv
      /\ faults \in 0 .. MaxFaults
  BY DEF BaseInv, ProcessInv
<1>2. /\ c.pc \in Asking /\ Running /\ c.root # 0 /\ c.verdict = "none" /\ NoTraffic
      /\ pc = "passed" => HandshakeTest
  BY <1>1 DEF Asking, Running, Stations, StandingInv, Ending, CounterInv, HandshakeTest
<1>3. UNCHANGED <<inbox, runs, faults>>
  BY DEF RequirePreauthRejection
<1>e. c' = Ends("error") => ProcessInv' /\ Same /\ c'.pc = "cleanup" /\ c'.verdict = "error"
  BY <1>1, <1>2, <1>3, EndStep
<1>q. ASSUME c' = QuietThen(pc)
      PROVE  ProcessInv' /\ Same /\ c'.pc = "quiet"
  <2>1. /\ c' \in ProcessSet /\ c'.pc = "quiet" /\ c'.then = pc /\ c'.flow = c.flow
        /\ c'.neg = c.neg /\ c'.root = c.root /\ c'.rx = c.rx /\ c'.tx = c.tx
        /\ c'.round = c.round /\ c'.vouched = c.vouched /\ c'.verdict = c.verdict
    BY <1>1, <1>q, QuietFields
  <2>2. NoTraffic' /\ (pc = "passed" => HandshakeTest')
    BY <1>2, <2>1 DEF NoTraffic, Untouched, HandshakeTest
  <2>3. CounterInv'
    BY <2>1, <2>2 DEF CounterInv, Begin
  <2>4. c'.pc \in Asking /\ c'.pc \notin Confirming /\ (c.vouched => c.neg # "sas-reject")
    BY <1>1, <2>1 DEF Asking, Confirming, StandingInv
  <2>5. StandingInv'
    BY <1>2, <2>1, <2>4, StandsOn
  <2> QED BY <1>1, <1>3, <2>1, <2>3, <2>5 DEF ProcessInv, Same, Steady, Frame
<1>4. CASE WriteSecureData(0, OpenRoot = c.root)
           /\ c' = IF jobConn' = 0 /\ SlotFree THEN QuietThen(pc) ELSE Ends("error")
  <2>1. PICK good \in BOOLEAN : WriteSecureData(0, good)
    BY <1>4
  <2>2. CASE c' = QuietThen(pc) /\ jobConn' = 0
    BY <1>3, <1>q, <2>1, <2>2 DEF Probes, ProcessStep
  <2>3. CASE c' = Ends("error")
    BY <1>3, <1>e, <2>1, <2>3 DEF Probes, ProcessStep
  <2> QED BY <1>4, <2>2, <2>3
<1>5. CASE UNCHANGED vars /\ (c' = QuietThen(pc) \/ c' = Ends("error"))
  <2>1. CASE c' = QuietThen(pc)
    <3>1. "quiet" \in Asking
      BY DEF Asking
    <3> QED BY <1>2, <1>3, <1>5, <1>q, <2>1, <3>1 DEF Goes, Same, ProcessStep
  <2>2. CASE c' = Ends("error")
    BY <1>2, <1>3, <1>5, <1>e, <2>2 DEF Quits, Running, ProcessStep
  <2> QED BY <1>5, <2>1, <2>2
<1> QED BY <1>4, <1>5 DEF RequirePreauthRejection
(* The handshake of v0.7. *)
LEMMA Phase7Handshake ==
    ASSUME BaseInv, \/ RequireQuiet \/ Phase7Prepare \/ Phase7Start \/ Phase7Ready \/ Phase7Probe
                    \/ Phase7Sas \/ Phase7Rejected \/ Phase7Finish \/ Phase7Confirm \/ Phase7Blocked
    PROVE  ProcessInv' /\ ProcessStep
<1>1. /\ c \in ProcessSet /\ inbox \in Seq(Messages) /\ runs \in 0 .. MaxRuns /\ CounterInv /\ StandingInv
      /\ faults \in 0 .. MaxFaults
  BY DEF BaseInv, ProcessInv
<1>2. CASE Phase7Prepare \/ Phase7Start
  <2>1. CASE c.pc = "prepare" /\ UploadBegins
    BY <2>1, PrepareStep
  <2>2. CASE c.pc = "start" /\ c.flow = "phase7" /\ SendStart("start7", To("ready"))
    <3>1. "start7" \in Starts /\ "start7" \in ModesOf(c.flow)
      BY <2>2 DEF Starts, ModesOf, SixFlows, Jobs7
    <3> QED BY <2>2, <3>1, SendStep
  <2> QED BY <1>2, <2>1, <2>2 DEF Phase7Prepare, Phase7Start, Seven, At
<1>3. CASE Phase7Ready
  <2>1. c.pc = "ready" /\ c.flow = "phase7" /\ c.pc \in Waiting
    BY <1>3 DEF Phase7Ready, Seven, At, Waiting
  <2>2. Running
    BY <2>1, WaitingFacts
  <2>3. CASE TimesOut(Ends("error"))
    BY <2>2, <2>3, LateStep DEF ProcessStep
  <2>4. CASE Takes(Ends("error"))
    BY <2>1, <2>4, HeardEnd DEF ProcessStep
  <2>5. ASSUME NEW pc \in {"probe", "sas"}, Takes([To(pc) EXCEPT !.shown = Received.root])
        PROVE  ProcessInv' /\ ProcessStep
    <3>1. Received.root \in Roots /\ c' = [To(pc) EXCEPT !.shown = Received.root]
      BY <2>5, Taken DEF Messages
    <3>2. pc \in Asking /\ pc \notin Confirming \cup {"rejected", "blocked", "quiet", "secure", "again", "cleanup"}
          /\ pc \in Stations
      BY DEF Asking, Stations, Confirming
    <3>3. /\ c' \in ProcessSet /\ c'.pc = pc /\ c'.verdict = c.verdict /\ c'.flow = c.flow
          /\ c'.neg = c.neg /\ c'.root = c.root /\ c'.tx = c.tx /\ c'.rx = c.rx /\ c'.round = c.round
          /\ c'.vouched = c.vouched
      BY <1>1, <3>1, <3>2 DEF To, ProcessSet
    <3>4. CounterInv'
      BY <1>1, <2>1, <3>3 DEF CounterInv, NoTraffic, Untouched
    <3>5. ProcessInv' /\ Steady /\ UNCHANGED vars /\ inbox # <<>> /\ inbox' = Tail(inbox)
      <4>1. ~c.vouched
        BY <1>1, <2>1 DEF StandingInv
      <4> QED BY <2>1, <2>5, <3>2, <3>3, <3>4, <4>1, HeardMove
    <3> QED BY <2>1, <3>2, <3>3, <3>5 DEF Hears, ProcessStep
  <2>6. \/ TimesOut(Ends("error")) \/ Takes(Ends("error"))
        \/ \E pc \in {"probe", "sas"} : Takes([To(pc) EXCEPT !.shown = Received.root])
    BY <1>3 DEF Phase7Ready, Receives
  <2> QED BY <2>3, <2>4, <2>5, <2>6
<1>4. CASE Phase7Probe \/ Phase7Rejected \/ Phase7Blocked
  BY <1>4, RejectionStep DEF Phase7Probe, Phase7Rejected, Phase7Blocked, Seven, At
<1>5. CASE Phase7Sas
  <2>1. /\ c.pc = "sas" /\ c.flow = "phase7" /\ c.pc \in Asking /\ Running /\ c.root # 0 /\ c.verdict = "none"
        /\ NoTraffic
    BY <1>1, <1>5 DEF Phase7Sas, Seven, At, Asking, Running, Stations, StandingInv, Ending, CounterInv
  <2>2. PICK yes \in BOOLEAN :
            /\ IF c.neg = "sas-reject" THEN ~yes /\ UNCHANGED faults ELSE UserAnswers(HybridSasMatches, yes)
            /\ c' = IF yes THEN [To("finished") EXCEPT !.vouched = TRUE]
                    ELSE IF c.neg = "sas-reject" THEN To("rejected") ELSE Ends("error")
    BY <1>5 DEF Phase7Sas
  <2>3. faults' \in 0 .. MaxFaults /\ UNCHANGED <<vars, inbox, runs>>
    BY <1>1, <1>5, <2>2, UserFaults DEF Phase7Sas
  <2>4. CASE c' = Ends("error")
    <3>1. ProcessInv' /\ Same /\ c'.pc = "cleanup" /\ c'.verdict = "error"
      BY <1>1, <2>1, <2>3, <2>4, EndStep
    <3> QED BY <2>1, <2>3, <3>1 DEF Quits, Running, ProcessStep
  <2>5. CASE \/ c' = [To("finished") EXCEPT !.vouched = TRUE] /\ c.neg # "sas-reject"
             \/ c' = To("rejected") /\ c.neg = "sas-reject"
    <3>1. /\ c' \in ProcessSet /\ c'.verdict = c.verdict /\ c'.flow = c.flow
          /\ c'.neg = c.neg /\ c'.root = c.root /\ c'.tx = c.tx /\ c'.rx = c.rx /\ c'.round = c.round
          /\ \/ c'.pc = "finished" /\ c'.vouched /\ c.neg # "sas-reject"
             \/ c'.pc = "rejected" /\ c'.vouched = c.vouched /\ c.neg = "sas-reject"
      BY <1>1, <2>5 DEF To, ProcessSet, Stations, Asking
    <3>2. CounterInv'
      BY <2>1, <3>1 DEF CounterInv, NoTraffic, Untouched
    <3>3. /\ c'.pc \in Asking /\ c'.pc \notin {"blocked", "quiet", "secure", "again", "cleanup"}
          /\ (c'.pc \in Confirming => c'.pc = "finished") /\ (c.vouched => c.neg # "sas-reject")
      BY <1>1, <3>1 DEF Asking, Confirming, StandingInv
    <3>4. StandingInv'
      BY <2>1, <3>1, <3>3, StandsOn
    <3>5. Goes
      BY <2>1, <2>3, <3>1, <3>3 DEF Goes, Steady, Frame
    <3> QED BY <1>1, <2>3, <3>1, <3>2, <3>4, <3>5 DEF ProcessInv, ProcessStep
  <2> QED BY <2>2, <2>4, <2>5
<1>6. CASE Phase7Finish
  <2>1. /\ c.pc = "finished" /\ c.flow = "phase7" /\ c.pc \in Asking /\ Running /\ c.root # 0 /\ c.vouched
        /\ c.neg # "sas-reject"
    BY <1>1, <1>6 DEF Phase7Finish, Seven, At, Asking, Running, Stations, StandingInv, Confirming
  <2>2. CASE Refused(Phase7Expects)
    BY <2>1, <2>2, RefusedStep DEF ProcessStep
  <2>3. CASE Phase7FinishedC(HybridFinishedC) /\ Submitted(To("confirm"))
    <3>1. UNCHANGED <<inbox, runs, faults>> /\ c' = IF jobConn' = 0 THEN Ends("error") ELSE To("confirm")
      BY <2>3 DEF Submitted
    <3>2. PICK good \in BOOLEAN : good = HybridFinishedC
      BY DEF HybridFinishedC
    <3>3. Phase7FinishedC(good) /\ (c.neg = "finished-c" => ~good)
      BY <2>3, <3>2 DEF HybridFinishedC
    <3>4. CASE jobConn' = 0
      <4>1. ProcessInv' /\ Same /\ c'.pc = "cleanup" /\ c'.verdict = "error"
        BY <1>1, <2>1, <3>1, <3>4, EndStep
      <4> QED BY <2>1, <3>1, <3>3, <3>4, <4>1 DEF Finishes, Fails, ProcessStep
    <3>5. CASE jobConn' # 0
      <4>1. /\ c' \in ProcessSet /\ c'.pc = "confirm" /\ c'.verdict = c.verdict /\ c'.flow = c.flow
            /\ c'.neg = c.neg /\ c'.root = c.root /\ c'.tx = c.tx /\ c'.rx = c.rx /\ c'.round = c.round
            /\ c'.vouched = c.vouched
        BY <1>1, <3>1, <3>5 DEF To, ProcessSet, Stations, Waiting
      <4>2. CounterInv'
        BY <1>1, <2>1, <4>1 DEF CounterInv, NoTraffic, Untouched
      <4>3. c'.pc \in Waiting
        BY <4>1 DEF Waiting
      <4>4. StandingInv'
        BY <2>1, <4>1, <4>3, StandsOn
      <4>5. Finishes
        BY <2>1, <3>1, <3>3, <3>5, <4>1 DEF Finishes, Same, Steady, Frame
      <4> QED BY <1>1, <3>1, <4>1, <4>2, <4>4, <4>5 DEF ProcessInv, ProcessStep
    <3> QED BY <3>4, <3>5
  <2> QED BY <1>6, <2>2, <2>3 DEF Phase7Finish
<1>7. CASE Phase7Confirm
  <2>1. c.pc = "confirm" /\ c.flow = "phase7" /\ c.pc \in Waiting /\ c.pc \in Confirming
    BY <1>7 DEF Phase7Confirm, Seven, At, Waiting, Confirming
  <2>2. Running /\ c.vouched /\ c.neg # "sas-reject" /\ NoTraffic
    BY <1>1, <2>1, WaitingFacts DEF StandingInv, CounterInv
  <2>3. CASE TimesOut(Ends("error"))
    BY <2>2, <2>3, LateStep DEF ProcessStep
  <2>4. CASE Takes(Ends("error"))
    BY <2>1, <2>4, HeardEnd DEF ProcessStep
  <2>5. ASSUME NEW pc \in {"blocked", "secure"}, Takes(To(pc)), pc = "blocked" => c.neg = "finished-c",
               pc = "secure" => c.neg # "finished-c"
        PROVE  ProcessInv' /\ ProcessStep
    <3>1. pc \in Asking /\ pc \in Stations /\ pc \notin {"rejected", "quiet", "again", "cleanup"}
      BY DEF Asking, Stations
    <3>2. /\ c' \in ProcessSet /\ c'.pc = pc /\ c'.verdict = c.verdict /\ c'.flow = c.flow
          /\ c'.neg = c.neg /\ c'.root = c.root /\ c'.tx = c.tx /\ c'.rx = c.rx /\ c'.round = c.round
          /\ c'.vouched = c.vouched
      BY <1>1, <2>5, <3>1, Taken, ToFields
    <3>3. CounterInv'
      <4>1. 0 < Goal /\ Goal' = Goal
        BY <3>2, Bounds DEF Goal
      <4> QED BY <2>1, <2>2, <3>2, <4>1 DEF CounterInv, NoTraffic, Untouched, Between, Begin
    <3>4. c.flow = "phase7" /\ c'.pc \in {"secure", "retry", "next", "replay", "quiet"} => ~HandshakeTest
      BY <2>2, <2>5, <3>2 DEF HandshakeTest
    <3>5. ProcessInv' /\ Steady /\ UNCHANGED vars /\ inbox # <<>> /\ inbox' = Tail(inbox)
      BY <2>1, <2>2, <2>5, <3>1, <3>2, <3>3, <3>4, HeardMove
    <3> QED BY <2>1, <3>1, <3>2, <3>5 DEF Hears, ProcessStep
  <2>6. \/ TimesOut(Ends("error")) \/ Takes(Ends("error"))
        \/ Takes(To("blocked")) /\ c.neg = "finished-c"
        \/ Takes(To("secure")) /\ c.neg # "finished-c"
    BY <1>7 DEF Phase7Confirm, Receives
  <2> QED BY <2>3, <2>4, <2>5, <2>6
<1> QED BY <1>2, <1>3, <1>4, <1>5, <1>6, <1>7, QuietStep
(* The rounds and the negative tests of v0.7. *)
LEMMA Phase7Traffic ==
    ASSUME BaseInv, Phase7Send \/ Phase7Tampered \/ Phase7Retry \/ Phase7Receive \/ Phase7Replay \/ Phase7Round
    PROVE  ProcessInv' /\ ProcessStep
<1>1. /\ c \in ProcessSet /\ inbox \in Seq(Messages) /\ runs \in 0 .. MaxRuns /\ CounterInv /\ StandingInv
      /\ faults \in 0 .. MaxFaults
  BY DEF BaseInv, ProcessInv
<1>2. /\ c.flow = "phase7" /\ Goal = Rounds /\ Rounds \in Nat /\ c.tx \in Nat /\ c.rx \in Nat /\ c.round \in Nat
      /\ Rounds <= LABELS + 1 /\ LABELS \in Nat
  <2>1. c.flow = "phase7"
    BY DEF Phase7Send, Phase7Tampered, Phase7Retry, Phase7Receive, Phase7Replay, Phase7Round, Seven, At
  <2>2. c.tx \in Nat /\ c.rx \in Nat /\ c.round \in Nat
    BY <1>1, Bounds DEF ProcessSet
  <2> QED BY <2>1, <2>2, Bounds DEF Goal
<1>3. c.pc \in {"secure", "tampered", "retry", "pong", "next", "replay", "replayed"}
  BY DEF Phase7Send, Phase7Tampered, Phase7Retry, Phase7Receive, Phase7Replay, Phase7Round, Seven, At
<1>4. /\ c.vouched /\ ~HandshakeTest /\ Running /\ c.root # 0 /\ c.verdict = "none" /\ c.neg # "sas-reject"
      /\ (c.pc = "secure" => Between) /\ (c.pc \in {"tampered", "retry", "pong"} => Sent)
      /\ (c.pc \in {"next", "replay", "replayed"} => Got)
      /\ (c.pc \in {"secure", "retry", "next", "replay"} => c.pc \in Asking)
      /\ (c.pc \in {"tampered", "pong", "replayed"} => c.pc \in Waiting)
  BY <1>1, <1>2, <1>3 DEF StandingInv, CounterInv, Confirming, Asking, Waiting, Running, Stations, Ending
<1>s. ASSUME c.pc = "secure", NEW intact \in BOOLEAN, NEW pc \in {"tampered", "pong"},
             WriteFrame(c.tx, intact, Sealed(To(pc)))
      PROVE  ProcessInv' /\ ProcessStep
  <2>1. Between /\ c.pc \in Asking /\ pc \in Stations
    BY <1>4, <1>s DEF Stations, Waiting
  <2>b. c.tx < Rounds
    BY <1>2, <2>1 DEF Between
  <2> DEFINE next == Sealed(To(pc))
  <2>3. /\ next \in ProcessSet /\ next.pc = pc /\ next.flow = c.flow /\ next.neg = c.neg
        /\ next.root = c.root /\ next.rx = c.rx /\ next.round = c.round /\ next.vouched = c.vouched
        /\ next.verdict = c.verdict /\ next.tx = c.tx + 1 /\ c.tx \in Seqs
    BY <1>1, <2>1, <2>b, SealedFields
  <2>4. /\ next.tx = c.round + 1 /\ c.rx = c.round /\ c.round < Goal
    BY <2>1, <2>3 DEF Between
  <2>5. WriteFrame(c.tx, intact, next)
    BY <1>s
  <2> HIDE DEF next
  <2>6. c.flow \notin SixFlows
    BY <1>2 DEF SixFlows
  <2> QED BY <1>2, <1>4, <2>1, <2>3, <2>4, <2>5, <2>6, FrameStep
<1>a. ASSUME NEW pc \in {"pong", "replayed"}, WriteFrame(c.tx - 1, TRUE, To(pc)),
             \/ c.pc = "retry" /\ pc = "pong"
             \/ c.pc = "replay" /\ pc = "replayed"
      PROVE  ProcessInv' /\ ProcessStep
  <2>1. c.pc \in Asking /\ pc \in Stations /\ (pc = "pong" => Sent) /\ (pc = "replayed" => Got)
    BY <1>4, <1>a DEF Stations, Waiting
  <2>2. c.tx - 1 \in Seqs /\ c.tx = c.round + 1 /\ c.round < Goal /\ (pc = "pong" => c.rx = c.round)
    BY <1>1, <1>2, <2>1, Bounds DEF Got, Sent, ProcessSet
  <2> DEFINE next == To(pc)
  <2>3. /\ next \in ProcessSet /\ next.pc = pc /\ next.flow = c.flow /\ next.neg = c.neg
        /\ next.root = c.root /\ next.rx = c.rx /\ next.round = c.round /\ next.vouched = c.vouched
        /\ next.verdict = c.verdict /\ next.tx = c.tx
    BY <1>1, <2>1, ToFields
  <2>4. WriteFrame(c.tx - 1, TRUE, next)
    BY <1>a
  <2> HIDE DEF next
  <2>5. next.tx = (c.tx - 1) + 1 /\ next.tx \in {c.tx, c.tx + 1}
    BY <1>2, <2>3
  <2>6. \/ next.pc \in {"pong", "tampered", "first"} /\ next.tx = c.round + 1 /\ c.rx = c.round /\ c.round < Goal
        \/ next.pc = "replayed" /\ Got /\ next.tx = c.tx /\ c.rx = c.tx
    <3>1. CASE pc = "pong"
      BY <2>2, <2>3, <3>1
    <3>2. CASE pc = "replayed"
      BY <1>2, <2>1, <2>3, <3>2 DEF Got
    <3> QED BY <3>1, <3>2
  <2>7. c.flow \notin SixFlows
    BY <1>2 DEF SixFlows
  <2> QED BY <1>2, <1>4, <2>1, <2>2, <2>3, <2>4, <2>5, <2>6, <2>7, FrameStep
<1>q. ASSUME NEW pc \in {"retry", "next"}, Takes(QuietThen(pc)),
             \/ c.pc = "tampered" /\ pc = "retry"
             \/ c.pc = "replayed" /\ pc = "next"
      PROVE  ProcessInv' /\ ProcessStep
  <2>1. /\ c' \in ProcessSet /\ c'.pc = "quiet" /\ c'.then = pc /\ c'.flow = c.flow
        /\ c'.neg = c.neg /\ c'.root = c.root /\ c'.rx = c.rx /\ c'.tx = c.tx
        /\ c'.round = c.round /\ c'.vouched = c.vouched /\ c'.verdict = c.verdict
    BY <1>1, <1>q, QuietFields, Taken
  <2>2. (Sent => Sent') /\ (Got => Got')
    BY <2>1 DEF Sent, Got, Goal
  <2>3. CounterInv'
    BY <1>2, <1>4, <1>q, <2>1, <2>2 DEF CounterInv, Begin
  <2>4. c'.pc \in Asking /\ c'.pc \notin Confirming /\ c.pc \in Waiting
    BY <1>4, <1>q, <2>1 DEF Asking, Confirming
  <2>5. ProcessInv' /\ Steady /\ UNCHANGED vars /\ inbox # <<>> /\ inbox' = Tail(inbox)
    BY <1>2, <1>4, <1>q, <2>1, <2>3, <2>4, HeardMove
  <2> QED BY <1>2, <2>1, <2>4, <2>5 DEF Hears, ProcessStep
<1>e. ASSUME c.pc \in Waiting, TimesOut(Ends("error")) \/ Takes(Ends("error"))
      PROVE  ProcessInv' /\ ProcessStep
  BY <1>4, <1>e, LateStep, HeardEnd DEF ProcessStep
<1>5. CASE Phase7Send
  <2>1. c.pc = "secure"
    BY <1>5 DEF Phase7Send, Seven, At
  <2>2. CASE c' = Ends("error") /\ UNCHANGED <<vars, inbox, runs, faults>>
    BY <1>4, <2>2, QuitStep DEF ProcessStep
  <2>3. CASE WriteFrame(c.tx, FALSE, Sealed(To("tampered")))
    BY <1>s, <2>1, <2>3
  <2>4. CASE WriteFrame(c.tx, TRUE, Sealed(To("pong")))
    BY <1>s, <2>1, <2>4
  <2> QED BY <1>5, <2>2, <2>3, <2>4 DEF Phase7Send
<1>6. CASE Phase7Tampered
  <2>1. c.pc = "tampered" /\ c.pc \in Waiting
    BY <1>4, <1>6 DEF Phase7Tampered, Seven, At
  <2>2. TimesOut(Ends("error")) \/ Takes(Ends("error")) \/ Takes(QuietThen("retry"))
    BY <1>6 DEF Phase7Tampered, Receives
  <2> QED BY <1>e, <1>q, <2>1, <2>2
<1>7. CASE Phase7Retry
  BY <1>7, <1>a DEF Phase7Retry, Seven, At
<1>8. CASE Phase7Receive
  <2>1. c.pc = "pong" /\ c.pc \in Waiting /\ Sent
    BY <1>4, <1>8 DEF Phase7Receive, Seven, At
  <2>2. ASSUME NEW pc \in {"replay", "next"}, NEW checked \in BOOLEAN,
               Takes([Opened(Received, To(pc)) EXCEPT !.checked = checked]),
               Received.type = "PONG", Received.seq = c.round
        PROVE  ProcessInv' /\ ProcessStep
    <3>1. c' = [Opened(Received, To(pc)) EXCEPT !.checked = checked]
      BY <2>2, Taken
    <3>2. pc \in Stations /\ pc \in Asking /\ pc \notin {"again", "cleanup", "rejected", "blocked", "quiet"}
      BY DEF Stations, Asking
    <3>3. c.round + 1 \in 0 .. LABELS + 2 /\ Received.seq + 1 = c.round + 1
      BY <1>2, <2>1, <2>2 DEF Sent
    <3>4. /\ c' \in ProcessSet /\ c'.pc = pc /\ c'.verdict = c.verdict /\ c'.flow = c.flow
          /\ c'.neg = c.neg /\ c'.root = c.root /\ c'.tx = c.tx /\ c'.rx = c.round + 1 /\ c'.round = c.round
          /\ c'.vouched = c.vouched
      BY <1>1, <3>1, <3>2, <3>3 DEF Opened, To, ProcessSet
    <3>5. Got'
      BY <2>1, <3>4 DEF Got, Sent, Goal
    <3>6. CounterInv'
      BY <3>4, <3>5 DEF CounterInv, Begin
    <3>7. ProcessInv' /\ Steady /\ UNCHANGED vars /\ inbox # <<>> /\ inbox' = Tail(inbox) /\ Received = Head(inbox)
      BY <1>2, <1>4, <2>1, <2>2, <3>2, <3>4, <3>6, HeardMove
    <3> QED BY <1>2, <2>1, <2>2, <3>2, <3>3, <3>4, <3>7 DEF Hears, ProcessStep
  <2>3. \/ TimesOut(Ends("error")) \/ Takes(Ends("error"))
        \/ /\ Received.type = "PONG" /\ Received.seq = c.round
           /\ Takes([Opened(Received, To(IF FirstRound("c2p-replay") THEN "replay" ELSE "next"))
                         EXCEPT !.checked = @ \/ FirstRound("p2c-tamper") \/ FirstRound("p2c-replay")])
    BY <1>8 DEF Phase7Receive, Receives
  <2>4. CASE /\ Received.type = "PONG" /\ Received.seq = c.round
             /\ Takes([Opened(Received, To(IF FirstRound("c2p-replay") THEN "replay" ELSE "next"))
                           EXCEPT !.checked = @ \/ FirstRound("p2c-tamper") \/ FirstRound("p2c-replay")])
    <3>1. PICK pc \in {"replay", "next"} : pc = (IF FirstRound("c2p-replay") THEN "replay" ELSE "next")
      OBVIOUS
    <3>2. PICK checked \in BOOLEAN :
              checked = (Opened(Received, To(pc)).checked \/ FirstRound("p2c-tamper") \/ FirstRound("p2c-replay"))
      OBVIOUS
    <3>3. Takes([Opened(Received, To(pc)) EXCEPT !.checked = checked])
      BY <2>4, <3>1, <3>2
    <3> QED BY <2>2, <2>4, <3>3
  <2> QED BY <1>e, <2>1, <2>3, <2>4
<1>9. CASE Phase7Replay
  <2>1. CASE c.pc = "replay" /\ WriteFrame(c.tx - 1, TRUE, To("replayed"))
    BY <1>a, <2>1
  <2>2. CASE /\ c.pc = "replayed"
             /\ TimesOut(Ends("error")) \/ Takes(Ends("error")) \/ Takes(QuietThen("next"))
    <3>1. c.pc \in Waiting
      BY <1>4, <2>2
    <3> QED BY <1>e, <1>q, <2>2, <3>1
  <2> QED BY <1>9, <2>1, <2>2 DEF Phase7Replay, Seven, At, Receives
<1>10. CASE Phase7Round
  <2>1. c.pc = "next" /\ c.pc \in Asking /\ Got /\ UNCHANGED <<vars, inbox, runs, faults>>
    BY <1>4, <1>10 DEF Phase7Round, Seven, At
  <2>2. c.tx = c.round + 1 /\ c.rx = c.round + 1 /\ c.round < Rounds
    BY <1>2, <2>1 DEF Got
  <2>3. CASE c' = Ends("error")
    BY <1>4, <2>1, <2>3, QuitStep DEF ProcessStep
  <2>4. CASE c' = [To("secure") EXCEPT !.round = @ + 1] /\ c.round + 1 < Rounds
    <3>1. c' = [c EXCEPT !.pc = "secure", !.round = c.round + 1] /\ c.round + 1 \in 0 .. Rounds
      BY <1>1, <1>2, <2>4 DEF To, ProcessSet
    <3>2. /\ c' \in ProcessSet /\ c'.pc = "secure" /\ c'.verdict = c.verdict /\ c'.flow = c.flow
          /\ c'.neg = c.neg /\ c'.root = c.root /\ c'.tx = c.tx /\ c'.rx = c.rx /\ c'.round = c.round + 1
          /\ c'.vouched = c.vouched
      BY <1>1, <3>1 DEF ProcessSet, Stations, Asking
    <3>3. Between'
      BY <1>2, <2>2, <2>4, <3>2 DEF Between, Goal
    <3>4. CounterInv'
      BY <1>2, <3>2, <3>3 DEF CounterInv, Begin
    <3>5. c'.pc \in Asking
      BY <3>2 DEF Asking
    <3>6. StandingInv'
      BY <1>4, <2>1, <3>2, <3>5, StandsOn
    <3>7. Goes
      BY <2>1, <3>2, <3>5 DEF Goes, Steady, Frame
    <3> QED BY <1>1, <2>1, <3>2, <3>4, <3>6, <3>7 DEF ProcessInv, ProcessStep
  <2>5. CASE c' = Ends("ok") /\ ~(c.round + 1 < Rounds)
    <3>1. /\ c' \in ProcessSet /\ c'.pc = "cleanup" /\ c'.verdict = "ok" /\ c'.flow = c.flow
          /\ c'.neg = c.neg /\ c'.root = c.root /\ c'.tx = c.tx /\ c'.rx = c.rx /\ c'.round = c.round
          /\ c'.vouched = c.vouched
      BY <1>1, <2>5 DEF Ends, ProcessSet, Stations, Ending
    <3>2. AllRounds' /\ ~HandshakeTest'
      BY <1>2, <1>4, <2>2, <2>5, <3>1 DEF AllRounds, HandshakeTest
    <3>3. CounterInv'
      BY <3>1 DEF CounterInv, Begin
    <3>4. StandingInv'
      BY <1>1, <1>2, <1>4, <3>1, <3>2 DEF StandingInv, Begin, Asking, Waiting, Confirming, Ending, SixFlows
    <3>5. Goes
      BY <1>2, <2>1, <3>1 DEF Goes, Steady, Frame, SixFlows
    <3> QED BY <1>1, <2>1, <3>1, <3>3, <3>4, <3>5 DEF ProcessInv, ProcessStep
  <2>6. CASE c' = QuietThen("passed") /\ ~(c.round + 1 < Rounds)
    <3>1. /\ c' \in ProcessSet /\ c'.pc = "quiet" /\ c'.then = "passed" /\ c'.flow = c.flow
          /\ c'.neg = c.neg /\ c'.root = c.root /\ c'.rx = c.rx /\ c'.tx = c.tx
          /\ c'.round = c.round /\ c'.vouched = c.vouched /\ c'.verdict = c.verdict
      BY <1>1, <2>6, QuietFields
    <3>2. AllRounds' /\ ~HandshakeTest'
      BY <1>2, <1>4, <2>2, <2>6, <3>1 DEF AllRounds, HandshakeTest
    <3>3. CounterInv'
      BY <1>2, <3>1, <3>2 DEF CounterInv, Begin
    <3>4. c'.pc \in Asking /\ c'.pc \notin Confirming
      BY <3>1 DEF Asking, Confirming
    <3>5. StandingInv'
      BY <1>4, <2>1, <3>1, <3>4, StandsOn
    <3>6. Goes
      BY <2>1, <3>1, <3>4 DEF Goes, Steady, Frame
    <3> QED BY <1>1, <2>1, <3>1, <3>3, <3>5, <3>6 DEF ProcessInv, ProcessStep
  <2> QED BY <1>10, <2>3, <2>4, <2>5, <2>6 DEF Phase7Round
<1> QED BY <1>5, <1>6, <1>7, <1>8, <1>9, <1>10
LEMMA Phase7Step == ASSUME BaseInv, Phase7Next PROVE ProcessInv' /\ ProcessStep
  BY Phase7Handshake, Phase7Traffic DEF Phase7Next
-----------------------------------------------------------------------------
(* The Peripheral leaves the process alone, but for the queue. *)
LEMMA ModesBound == Modes \subseteq DOMAIN Reply /\ \A mode \in Modes : Reply[mode] \in
    {"PQM2", "DATA3", "READY_FOR_SAS", "FINISHED_P", "DATA5", "PONG", "READY7_CP2", "READY7_AUTH"}
  BY DEF Modes, Reply, Starts, Jobs5, Jobs7
LEMMA AnswerTyped ==
    ASSUME w \in Workers, w.mode \in Modes PROVE Answer \in Messages /\ Answer.root = w.root
<1>1. /\ Reply[w.mode] \in {"PQM2", "DATA3", "READY_FOR_SAS", "FINISHED_P", "DATA5", "PONG",
                            "READY7_CP2", "READY7_AUTH"}
      /\ w.root \in Roots /\ w.tx \in Counted /\ w.seq \in Seqs /\ 0 \in Counted /\ 0 \in Seqs
  BY ModesBound, Zero DEF Workers
<1>2. Status \in {0, 4, 5, 6}
  BY DEF Status, INVALID_PROTOCOL_STATE, AUTHENTICATION_FAILURE, SECURE_CHANNEL_FAILURE
<1>3. CASE w.ok
  <2>1. Answer = [type |-> Reply[w.mode], root |-> w.root, seq |-> w.tx, label |-> w.seq, status |-> 0]
    BY <1>3 DEF Answer
  <2> QED BY <1>1, <2>1 DEF Messages
<1>4. CASE ~w.ok
  <2>1. Answer = [type |-> "ERROR", root |-> w.root, seq |-> 0, label |-> 0, status |-> Status]
    BY <1>4 DEF Answer
  <2> HIDE DEF Status
  <2> QED BY <1>1, <1>2, <2>1 DEF Messages
<1> QED BY <1>3, <1>4
LEMMA PeripheralStep ==
    ASSUME BaseInv, SlotTaken, PeripheralNext \/ WorkerComputes(FALSE)
    PROVE  ProcessInv' /\ c' = c /\ runs' = runs
<1>1. /\ c \in ProcessSet /\ inbox \in Seq(Messages) /\ runs \in 0 .. MaxRuns /\ CounterInv /\ StandingInv
      /\ faults \in 0 .. MaxFaults /\ MaxFaults \in Nat /\ w \in Workers
  BY Bounds DEF BaseInv, ProcessInv, Typed
<1>2. c' = c /\ runs' = runs
  BY DEF PeripheralNext, WorkerMoves, WorkerComputes, Delivers, DeliveryFails, HostFinishes, central
<1>3. CounterInv'
  BY <1>1, <1>2 DEF CounterInv, NoTraffic, Untouched, Between, Sent, Got, AllRounds, Goal, HandshakeTest
<1>4. StandingInv'
  BY <1>1, <1>2 DEF StandingInv, NoTraffic, Untouched, AllRounds, Goal, HandshakeTest
<1>5. faults' \in 0 .. MaxFaults
  <2>1. faults' = faults \/ Disturbs
    BY DEF PeripheralNext, WorkerMoves, WorkerComputes, Delivers, DeliveryFails, HostFinishes, central
  <2> QED BY <1>1, <2>1 DEF Disturbs
<1>6. inbox' \in Seq(Messages)
  <2>1. CASE inbox' = inbox
    BY <1>1, <2>1
  <2>2. CASE Delivers
    <3>1. w.mode \in Modes /\ inbox' = Append(inbox, Answer)
      BY <1>1, <2>2 DEF Delivers, Notify, SlotTaken, Workers
    <3> QED BY <1>1, <3>1, AnswerTyped
  <2>3. CASE inbox' = Append(inbox, [type |-> "ERROR", root |-> w.root, seq |-> 0, label |-> 0,
                                     status |-> SECURE_CHANNEL_FAILURE])
    <3>1. [type |-> "ERROR", root |-> w.root, seq |-> 0, label |-> 0, status |-> SECURE_CHANNEL_FAILURE]
              \in Messages
      BY <1>1, Zero DEF Messages, Workers, SECURE_CHANNEL_FAILURE
    <3> QED BY <1>1, <2>3, <3>1
  <2> QED BY <2>1, <2>2, <2>3
          DEF PeripheralNext, WorkerMoves, WorkerComputes, DeliveryFails, HostFinishes, central
<1> QED BY <1>1, <1>2, <1>3, <1>4, <1>5, <1>6 DEF ProcessInv

(* Every step keeps the process in order, and is of one of the kinds. *)
LEMMA StepKinds ==
    ASSUME BaseInv, SlotTaken, CentralNext
    PROVE  /\ ProcessInv'
           /\ ProcessStep \/ PeripheralNext \/ WorkerComputes(FALSE) \/ UNCHANGED system
<1>1. CASE NewProcess \/ ProcessNext \/ CleanupDisturbed \/ LinkLost
  BY <1>1, PrepareStep, CloseStep DEF ProcessNext, CleanupDisturbed
<1>2. CASE FlowNext
  BY <1>2, OneShotStep, Phase5Step, Phase6Step, Phase7Step DEF FlowNext
<1>3. CASE PeripheralNext \/ WorkerComputes(FALSE)
  BY <1>3, PeripheralStep
<1>4. CASE AllDone
  <2>1. UNCHANGED system
    BY <1>4 DEF AllDone
  <2>2. UNCHANGED <<c, inbox, runs, faults>>
    BY <2>1 DEF system, central
  <2>3. CounterInv'
    BY <2>2 DEF BaseInv, ProcessInv, CounterInv, NoTraffic, Untouched, Between, Sent, Got, AllRounds, Goal,
                HandshakeTest
  <2>4. StandingInv'
    BY <2>2 DEF BaseInv, ProcessInv, StandingInv, NoTraffic, Untouched, AllRounds, Goal, HandshakeTest
  <2> QED BY <2>1, <2>2, <2>3, <2>4 DEF BaseInv, ProcessInv
<1> QED BY <1>1, <1>2, <1>3, <1>4 DEF CentralNext

(* Whatever the process does, the Peripheral takes a step of V07Session or  *)
(* none.                                                                    *)
LEMMA PeripheralOwn ==
    ASSUME BaseInv, ProcessStep \/ PeripheralNext \/ WorkerComputes(FALSE) \/ UNCHANGED system
    PROVE  [Next]_vars
<1>1. CASE Quits \/ Goes \/ Hears \/ Closes \/ Renews \/ UNCHANGED system
  BY <1>1 DEF Quits, Goes, Hears, Closes, Renews, system
<1>2. CASE Prepares \/ Begins \/ Finishes \/ Asks \/ Connects \/ Leaves \/ Drops
  <2>1. HostNext
    BY <1>2 DEF Prepares, Begins, Finishes, Asks, Connects, Leaves, Drops, HostNext
  <2> QED BY <2>1 DEF Next
<1>3. CASE Writes \/ Probes \/ ProbesEarly
  <2>1. \E seq \in Seqs, good \in BOOLEAN : WriteSecureData(seq, good)
    BY <1>3, Zero DEF Writes, Probes, ProbesEarly
  <2>2. HostNext
    BY <2>1 DEF HostNext
  <2> QED BY <2>2 DEF Next
<1>4. CASE PeripheralNext \/ WorkerComputes(FALSE)
  <2>1. CASE HostFinishes
    BY <2>1 DEF HostFinishes, Next
  <2>2. CASE WorkerMoves \/ Delivers \/ DeliveryFails
    <3>1. WorkerNext
      BY <2>2 DEF WorkerMoves, Delivers, DeliveryFails, WorkerNext
    <3> QED BY <3>1 DEF Next
  <2>3. CASE \E crypto \in BOOLEAN : WorkerComputes(crypto)
    <3>1. WorkerNext
      BY <2>3 DEF WorkerComputes, WorkerNext
    <3> QED BY <3>1 DEF Next
  <2> QED BY <1>4, <2>1, <2>2, <2>3 DEF PeripheralNext
<1> QED BY <1>1, <1>2, <1>3, <1>4 DEF ProcessStep
LEMMA CentralStart == CentralInit => Inv /\ ProcessInv
<1> SUFFICES ASSUME CentralInit PROVE Inv /\ ProcessInv
  OBVIOUS
<1>1. Inv
  BY InitInv DEF CentralInit
<1>2. c \in ProcessSet /\ inbox \in Seq(Messages) /\ runs \in 0 .. MaxRuns /\ faults \in 0 .. MaxFaults
  BY NoProcessTyped, Bounds DEF CentralInit
<1>3. c.pc = "exit" /\ c.neg = "none" /\ c.flow = "none" /\ c.vouched = FALSE /\ c.pc \notin Begin \cup Asking
      /\ c.pc \notin Waiting \cup Confirming
  BY DEF CentralInit, NoProcess, Begin, Asking, Waiting, Confirming
<1>4. CounterInv
  BY <1>3 DEF CounterInv
<1>5. StandingInv
  BY <1>3 DEF StandingInv, Ending
<1> QED BY <1>1, <1>2, <1>4, <1>5 DEF ProcessInv
-----------------------------------------------------------------------------
(* The whole invariant, and the types it gives. *)
Whole == Inv /\ ProcessInv /\ CoreInv
LEMMA ProcessTypes ==
    ASSUME Whole
    PROVE  /\ BaseInv /\ c \in ProcessSet /\ c.root \in Nat /\ c.tx \in Nat /\ c.rx \in Nat /\ c.round \in Nat
           /\ c.vouched \in BOOLEAN /\ inbox \in Seq(Messages) /\ Len(inbox) \in Nat
<1>1. BaseInv /\ c \in ProcessSet /\ inbox \in Seq(Messages)
  BY DEF Whole, Inv, BaseInv, ProcessInv
<1>2. c.root \in Roots /\ c.tx \in 0 .. Rounds /\ c.rx \in 0 .. LABELS + 2 /\ c.round \in 0 .. Rounds
      /\ c.vouched \in BOOLEAN
  BY <1>1 DEF ProcessSet
<1>3. c.root \in Nat /\ c.tx \in Nat /\ c.rx \in Nat /\ c.round \in Nat
  <2>1. c.root \in Nat
    BY <1>2, Zero
  <2>2. Rounds \in Nat /\ LABELS \in Nat
    BY Bounds
  <2> QED BY <1>2, <2>1, <2>2
<1> QED BY <1>1, <1>2, <1>3
LEMMA MaterialTypes ==
    ASSUME Typed
    PROVE  /\ s5.wait \in BOOLEAN /\ s5.ready \in BOOLEAN /\ s6.active \in BOOLEAN /\ s7.wait \in BOOLEAN
           /\ s7.pend \in BOOLEAN /\ s7.auth \in BOOLEAN /\ s6.rx \in Nat /\ s7.rx \in Nat /\ s6.tx \in Nat
           /\ s7.tx \in Nat /\ slot.seq \in Nat /\ slot.good \in BOOLEAN /\ w.seq \in Nat /\ w.rx \in Nat
           /\ w.tx \in Nat /\ w.good \in BOOLEAN /\ notify \in BOOLEAN
           /\ s5.root \in Nat /\ s6.root \in Nat /\ s7.root \in Nat
<1>1. s5 \in S5 /\ s6 \in S6 /\ s7 \in S7 /\ slot \in Slots /\ w \in Workers /\ notify \in BOOLEAN
  BY TypedParts
<1> QED BY <1>1, Zero DEF S5, S6, S7, Slots, Workers

(* A process that moves on while the Peripheral does not. *)
Still == UNCHANGED <<cur, notify, p5, p7, jobConn, resets, s5, s6, s7, slot, w, starts, born>>
LEMMA VarsStill == ASSUME UNCHANGED vars PROVE Still
  BY DEF Still, vars, control, session, history
LEMMA StayStep ==
    ASSUME Whole, Still, Steady, c.vouched => c'.vouched, c'.pc \notin {"exit", "connect"} \/ cur = 0
    PROVE  ProcessLink' /\ JobInv' /\ PhaseInv' /\ FlowInv' /\ VouchInv' /\ RefusedInv'
<1>1. UNCHANGED <<cur, notify, p5, p7, jobConn, resets, s5, s6, s7, slot, w, starts, born>>
  BY DEF Still
<1>2. c'.root = c.root /\ c'.tx = c.tx /\ c'.flow = c.flow /\ c'.neg = c.neg
  BY DEF Steady, Frame
<1>3. ProcessLink'
  BY <1>1, <1>2 DEF Whole, CoreInv, ProcessLink, HostFree
<1>4. JobInv'
  BY <1>1, <1>2 DEF Whole, CoreInv, JobInv, Working, ToUs, Usable
<1>5. PhaseInv'
  BY <1>1, <1>2 DEF Whole, CoreInv, PhaseInv, InSlot, InWorker, ToUs
<1>6. FlowInv' /\ VouchInv'
  BY <1>1, <1>2 DEF Whole, CoreInv, FlowInv, VouchInv, Ours, Working
<1>7. RefusedInv'
  BY <1>1, <1>2 DEF Whole, CoreInv, RefusedInv, Ours, InSlot
<1> QED BY <1>3, <1>4, <1>5, <1>6, <1>7
(* If its counters stay too, so do the planes. *)
LEMMA StayPlanes ==
    ASSUME Whole, Still, Steady, c'.rx = c.rx PROVE PlaneInv' /\ FrameInv'
<1>1. UNCHANGED <<cur, notify, p5, p7, jobConn, resets, s5, s6, s7, slot, w, starts, born>>
  BY DEF Still
<1>2. c'.root = c.root /\ c'.tx = c.tx /\ c'.flow = c.flow /\ c'.neg = c.neg
  BY DEF Steady, Frame
<1>3. PlaneInv'
  BY <1>1, <1>2 DEF Whole, CoreInv, PlaneInv, Ours, Even, Untouched
<1>4. FrameInv'
  BY <1>1, <1>2 DEF Whole, CoreInv, FrameInv, Untouched, CarriesTold, Told5, Working, ToUs, InSlot
<1> QED BY <1>3, <1>4
(* A process that ends, one that goes on by itself, and one that cleans up. *)
LEMMA EndsCore ==
    ASSUME Whole, Still, inbox' = inbox, Same, c'.pc = "cleanup",
           c'.verdict = "error" \/ c.flow = "phase5" \/ c.root = 0
    PROVE  CoreInv'
<1>1. UNCHANGED <<cur, notify, p5, p7, jobConn, resets, s5, s6, s7, slot, w, starts, born>>
  BY DEF Still
<1>2. /\ c'.root = c.root /\ c'.tx = c.tx /\ c'.flow = c.flow /\ c'.neg = c.neg /\ c'.rx = c.rx
      /\ c'.vouched = c.vouched /\ c'.pc = "cleanup" /\ Steady
  BY DEF Same, Steady, Frame
<1>3. ProcessLink' /\ JobInv' /\ PhaseInv' /\ FlowInv' /\ VouchInv' /\ RefusedInv' /\ PlaneInv' /\ FrameInv'
  BY <1>2, StayStep, StayPlanes
<1>4. QueueInv'
  BY <1>1, <1>2 DEF Whole, CoreInv, QueueInv, NoneUnderWay, JobHere, ToUs, Settled, Asking
<1>5. AnswerInv'
  BY <1>1, <1>2 DEF Whole, CoreInv, AnswerInv, Ours
<1>6. EarnInv'
  BY <1>1, <1>2 DEF EarnInv, Ours, SixFlows
<1> QED BY <1>3, <1>4, <1>5, <1>6 DEF CoreInv
LEMMA GoesOnCore ==
    ASSUME Whole, Still, inbox' = inbox, Steady, c.pc \in Asking, c'.pc \in Asking \cup {"cleanup"}, c'.pc # "again",
           c.vouched => c'.vouched, c'.rx = c.rx \/ (c.flow = "phase3" /\ c'.rx = 1),
           c'.pc = "cleanup" /\ c.flow \in SixFlows => c'.verdict = "error"
    PROVE  CoreInv'
<1>1. UNCHANGED <<cur, notify, p5, p7, jobConn, resets, s5, s6, s7, slot, w, starts, born>>
  BY DEF Still
<1>2. c'.root = c.root /\ c'.tx = c.tx /\ c'.flow = c.flow /\ c'.neg = c.neg
  BY DEF Steady, Frame
<1>3. c'.pc \notin {"exit", "connect", "replayed"} /\ "cleanup" \notin Asking
  BY DEF Asking
<1>4. ProcessLink' /\ JobInv' /\ PhaseInv' /\ FlowInv' /\ VouchInv' /\ RefusedInv'
  BY <1>3, StayStep
<1>5. inbox = <<>> /\ NoneUnderWay /\ (cur # 0 => Settled)
  BY DEF Whole, CoreInv, QueueInv
<1>6. QueueInv' /\ AnswerInv'
  BY <1>1, <1>2, <1>3, <1>5 DEF QueueInv, AnswerInv, NoneUnderWay, JobHere, ToUs, Settled
<1>7. EarnInv'
  BY <1>1, <1>2, <1>3, <1>5 DEF EarnInv, NoneUnderWay, JobHere
<1>8. PlaneInv' /\ FrameInv'
  <2>1. CASE c'.rx = c.rx
    BY <2>1, StayPlanes
  <2>2. CASE c.flow = "phase3" /\ c'.rx = 1
    <3>1. c.flow \notin SixFlows \cup Five \cup {"phase7"} /\ c.tx \in Nat
      BY <2>2, ProcessTypes DEF SixFlows, Five
    <3>2. ~slot.pending /\ w.pc \notin Computing \cup {"result"}
      BY <1>5 DEF NoneUnderWay, JobHere, Whole, Inv, Parts, OwnInv, SlotTaken
    <3>3. PlaneInv'
      BY <1>1, <1>2, <2>2, <3>1 DEF Whole, CoreInv, PlaneInv, FlowInv, Ours
    <3>4. FrameInv'
      BY <1>1, <1>2, <1>5, <2>2, <3>2, Places
         DEF FrameInv, InSlot, CarriesTold, Told5, Working, ToUs, NoneUnderWay, Computing, DataModes, Modes, Jobs5, Jobs7
    <3> QED BY <3>3, <3>4
  <2> QED BY <2>1, <2>2
<1> QED BY <1>4, <1>6, <1>7, <1>8 DEF CoreInv
LEMMA QuitsCore == ASSUME Whole, Quits PROVE CoreInv'
<1>1. Still /\ inbox' = inbox /\ Same /\ c'.pc = "cleanup" /\ (c'.verdict = "error" \/ c.flow = "phase5" \/ c.root = 0)
  BY VarsStill DEF Quits
<1> QED BY <1>1, EndsCore
LEMMA GoesCore == ASSUME Whole, Goes PROVE CoreInv'
<1>1. Still /\ inbox' = inbox
  BY VarsStill DEF Goes
<1> QED BY <1>1, GoesOnCore DEF Goes
LEMMA ClosesCore == ASSUME Whole, Closes PROVE CoreInv'
<1>1. Still /\ UNCHANGED <<cur, notify, p5, p7, jobConn, resets, s5, s6, s7, slot, w, starts, born>>
  BY VarsStill DEF Closes, Still
<1>2. /\ c'.root = c.root /\ c'.tx = c.tx /\ c'.flow = c.flow /\ c'.neg = c.neg /\ c'.rx = c.rx
      /\ c'.vouched = c.vouched /\ c'.pc \in {"close", "exit"} /\ Steady
      /\ inbox' \in {inbox, <<>>} /\ (c'.pc = "exit" => c.pc = "connect" \/ (cur = 0 /\ inbox' = <<>>))
  BY DEF Closes, Same, Steady, Frame
<1>i. c.pc = "connect" => cur = 0 /\ inbox = <<>>
  BY DEF Whole, CoreInv, ProcessLink, QueueInv, ProcessInv, StandingInv, Begin
<1>3. ProcessLink' /\ JobInv' /\ PhaseInv' /\ FlowInv' /\ VouchInv' /\ RefusedInv' /\ PlaneInv' /\ FrameInv'
  BY <1>1, <1>2, <1>i, StayStep, StayPlanes
<1>4. QueueInv'
  BY <1>1, <1>2, <1>i DEF Whole, CoreInv, QueueInv, NoneUnderWay, JobHere, ToUs, Settled, Asking
<1>5. AnswerInv'
  BY <1>1, <1>2 DEF Whole, CoreInv, AnswerInv, Ours
<1>6. EarnInv'
  BY <1>1, <1>2 DEF EarnInv
<1> QED BY <1>3, <1>4, <1>5, <1>6 DEF CoreInv
(* It takes its answer, and starts again. *)
LEMMA HeadOfOne ==
    ASSUME Whole, inbox # <<>>
    PROVE  /\ Tail(inbox) = <<>> /\ Head(inbox) = inbox[1] /\ inbox[1] \in Messages /\ c.root # 0
           /\ inbox[1].root = c.root /\ NoneUnderWay
           /\ cur # 0 => Settled \/ (inbox[1].type = "ERROR" /\ c.flow \in Five)
<1>1. /\ inbox \in Seq(Messages) /\ Len(inbox) = 1 /\ c.root # 0 /\ inbox[1].root = c.root /\ NoneUnderWay
      /\ cur # 0 => Settled \/ (inbox[1].type = "ERROR" /\ c.flow \in Five)
  BY ProcessTypes DEF Whole, CoreInv, QueueInv
<1>2. Head(inbox) = inbox[1] /\ inbox[1] \in Messages /\ Tail(inbox) \in Seq(Messages) /\ Len(Tail(inbox)) = 0
  BY <1>1
<1>3. Tail(inbox) = <<>>
  BY <1>2, EmptySeq
<1> QED BY <1>1, <1>2, <1>3
LEMMA HearsCore == ASSUME Whole, Hears PROVE CoreInv'
<1>1. Still /\ UNCHANGED <<cur, notify, p5, p7, jobConn, resets, s5, s6, s7, slot, w, starts, born>>
  BY VarsStill DEF Hears, Still
<1>2. /\ c'.root = c.root /\ c'.tx = c.tx /\ c'.flow = c.flow /\ c'.neg = c.neg /\ c'.pc \in Asking \cup {"cleanup"}
      /\ Steady /\ c'.vouched = c.vouched /\ c.pc \in Waiting \cup {"quiet"}
      /\ inbox # <<>> /\ inbox' = Tail(inbox)
  BY DEF Hears, Steady, Frame
<1>3. c'.pc \notin {"exit", "connect", "replayed"} /\ "cleanup" \notin Asking
  BY <1>2 DEF Asking
<1>4. ProcessLink' /\ JobInv' /\ PhaseInv' /\ FlowInv' /\ VouchInv' /\ RefusedInv'
  BY <1>1, <1>2, <1>3, StayStep
<1>5. /\ inbox' = <<>> /\ Head(inbox) = inbox[1] /\ inbox[1] \in Messages /\ c.root # 0 /\ NoneUnderWay
      /\ cur # 0 => Settled \/ (inbox[1].type = "ERROR" /\ c.flow \in Five)
  BY <1>2, HeadOfOne
<1>6. /\ c'.pc \in Asking => c.flow = "phase7" \/ inbox[1].type # "ERROR"
      /\ \/ c'.rx = c.rx
         \/ /\ c'.rx = inbox[1].seq + 1
            /\ \/ inbox[1].type = "PONG" /\ c.flow \in SixFlows \cup {"phase7"}
               \/ inbox[1].type = "DATA5" /\ c.flow = "phase5"
      /\ c'.pc = "again" => c.flow \in SixFlows /\ inbox[1].type = "PONG" /\ c'.rx = inbox[1].seq + 1
      /\ c'.pc = "cleanup" /\ c.flow \in SixFlows =>
             c'.verdict = "error" \/ inbox[1].type = "PONG" \/ c.neg = "c2p-tamper" \/ c.pc = "replayed"
  BY <1>5 DEF Hears
<1>7. QueueInv' /\ AnswerInv'
  <2>1. c'.pc \in Asking /\ cur # 0 => Settled
    BY <1>5, <1>6 DEF Five
  <2> QED BY <1>1, <1>2, <1>3, <1>5, <2>1 DEF QueueInv, AnswerInv, NoneUnderWay, JobHere, ToUs, Settled
<1>8. /\ inbox[1].type = "PONG" =>
           /\ c.tx = inbox[1].seq + 1 /\ ~Ours(s5)
           /\ Ours(s6) => s6.tx = c.tx
           /\ Ours(s7) => s7.auth /\ s7.tx = c.tx
      /\ inbox[1].type = "DATA5" => inbox[1].seq = 0 /\ ~Ours(s5)
  BY <1>2 DEF Whole, CoreInv, AnswerInv
<1>9. PlaneInv' /\ FrameInv'
  <2>1. CASE c'.rx = c.rx
    BY <1>1, <1>2, <2>1, StayPlanes
  <2>2. CASE c'.rx # c.rx
    <3>1. ~slot.pending /\ w.pc \notin Computing \cup {"result"} /\ ~(ToUs /\ w.pc = "notify")
      BY <1>5 DEF NoneUnderWay, JobHere, Whole, Inv, Parts, OwnInv, SlotTaken
    <3>2. FrameInv'
      BY <1>1, <1>2, <3>1, Places
         DEF FrameInv, InSlot, CarriesTold, Told5, Working, ToUs, Computing, DataModes, Modes, Jobs5, Jobs7
    <3>3. c.tx \in Nat /\ c.rx \in Nat /\ inbox[1].seq \in Nat /\ c.tx <= c.rx + 1
      <4>1. inbox[1].seq \in Counted
        BY <1>5 DEF Messages
      <4> QED BY <4>1, ProcessTypes, Zero DEF Whole, CoreInv, PlaneInv
    <3>4. CASE inbox[1].type = "PONG" /\ c.flow \in SixFlows \cup {"phase7"} /\ c'.rx = inbox[1].seq + 1
      <4>1. c'.rx = c.tx /\ ~Ours(s5)
        BY <1>8, <3>4
      <4>2. PlaneInv'
        BY <1>1, <1>2, <1>8, <3>3, <3>4, <4>1 DEF Whole, CoreInv, PlaneInv, Ours, Even, Untouched
      <4> QED BY <3>2, <4>2
    <3>5. CASE inbox[1].type = "DATA5" /\ c.flow = "phase5" /\ c'.rx = inbox[1].seq + 1
      <4>1. c'.rx = 1 /\ ~Ours(s5) /\ ~Ours(s6) /\ ~Ours(s7) /\ c.flow \notin SixFlows \cup {"phase7"}
        BY <1>8, <3>5 DEF Whole, CoreInv, FlowInv, SixFlows
      <4>2. PlaneInv'
        BY <1>1, <1>2, <3>3, <4>1 DEF Whole, CoreInv, PlaneInv, Ours
      <4> QED BY <3>2, <4>2
    <3> QED BY <1>6, <2>2, <3>4, <3>5
  <2> QED BY <2>1, <2>2
<1>10. EarnInv'
  <2>1. c'.pc = "again" => c.flow \in SixFlows /\ c'.rx = c'.tx
    BY <1>2, <1>6, <1>8
  <2>2. ~JobHere'
    BY <1>1, <1>5 DEF NoneUnderWay, JobHere
  <2>3. ASSUME c'.pc = "cleanup", c'.verdict \in {"ok", "passed"}, c.flow \in SixFlows, Ours(s6) PROVE s6.tx = c.tx
    <3>1. CASE inbox[1].type = "PONG"
      BY <1>8, <2>3, <3>1
    <3>2. CASE c.neg = "c2p-tamper"
      BY <2>3, <3>2 DEF Whole, CoreInv, RefusedInv, Ours
    <3>3. CASE c.pc = "replayed"
      BY <2>3, <3>3 DEF Whole, CoreInv, EarnInv, PlaneInv, Even
    <3> QED BY <1>6, <2>3, <3>1, <3>2, <3>3
  <2> QED BY <1>1, <1>2, <1>3, <2>1, <2>2, <2>3 DEF EarnInv, Ours
<1> QED BY <1>4, <1>7, <1>9, <1>10 DEF CoreInv
LEMMA RenewsCore == ASSUME Whole, Renews PROVE CoreInv'
<1>1. UNCHANGED <<cur, notify, p5, p7, jobConn, resets, s5, s6, s7, slot, w, starts, born, inbox>>
  BY VarsStill DEF Renews, Still
<1>2. c'.pc = "connect" /\ c'.root = 0 /\ c'.tx = 0 /\ c'.rx = 0 /\ ~c'.vouched /\ c.pc = "exit"
  BY DEF Renews
<1>3. cur = 0 /\ inbox = <<>> /\ p5 = "IDLE" /\ p7 = "IDLE" /\ jobConn = 0 /\ ~notify
  BY <1>2 DEF Whole, CoreInv, ProcessLink, QueueInv, Inv, Typed, V07TypeOK
<1>4. w.pc \in Delivering => w.conn # 0
  BY DEF Whole, Inv, Parts, OwnInv, DeliversTo
<1>5. ProcessLink' /\ JobInv' /\ FlowInv' /\ VouchInv' /\ RefusedInv' /\ FrameInv'
  BY <1>1, <1>2, <1>3, <1>4 DEF ProcessLink, JobInv, FlowInv, VouchInv, RefusedInv, FrameInv, ToUs, Ours
<1>6. PhaseInv'
  BY <1>1, <1>2, <1>3, <1>4 DEF Whole, CoreInv, PhaseInv, InSlot, InWorker, ToUs
<1>7. QueueInv' /\ AnswerInv' /\ EarnInv'
  BY <1>1, <1>2, <1>3 DEF QueueInv, AnswerInv, EarnInv, Asking
<1>8. PlaneInv'
  BY <1>1, <1>2 DEF PlaneInv, Ours
<1> QED BY <1>5, <1>6, <1>7, <1>8 DEF CoreInv
(* The link comes and goes, and nothing reaches the process through it yet. *)
LEMMA ConnectsCore == ASSUME Whole, Connects PROVE CoreInv'
<1>1. /\ UNCHANGED <<jobConn, s5, s6, s7, slot, w, starts, sent>>
      /\ cur = 0 /\ cur' = gen + 1 /\ ~notify' /\ p5' = "IDLE" /\ p7' = "IDLE" /\ born' = starts
  BY DEF Connects, Connected, session
<1>2. /\ c'.root = c.root /\ c'.tx = c.tx /\ c'.flow = c.flow /\ c'.neg = c.neg /\ c'.rx = c.rx
      /\ c'.vouched = c.vouched /\ c.pc = "connect" /\ c'.pc = "subscribe" /\ inbox' = <<>>
  BY DEF Connects, Same, Steady, Frame
<1>3. c.root = 0
  BY <1>2 DEF Whole, ProcessInv, StandingInv, Begin
<1>4. jobConn = 0 /\ gen \in Nat /\ (w.pc \in Delivering => w.conn \in 1 .. gen)
  BY <1>1, Zero, TypedParts DEF Whole, Inv, Parts, OwnInv, DeliversTo
<1>5. ~ToUs'
  BY <1>1, <1>4 DEF ToUs
<1>6. ProcessLink' /\ JobInv' /\ FlowInv' /\ VouchInv' /\ RefusedInv' /\ FrameInv' /\ AnswerInv'
  BY <1>1, <1>2, <1>3, <1>4, <1>5
     DEF ProcessLink, JobInv, FlowInv, VouchInv, RefusedInv, FrameInv, AnswerInv, Ours
<1>7. PhaseInv'
  BY <1>1, <1>2, <1>5 DEF Whole, CoreInv, PhaseInv, Open7
<1>8. QueueInv' /\ EarnInv'
  BY <1>2 DEF QueueInv, EarnInv, Asking
<1>9. PlaneInv'
  BY <1>1, <1>2, <1>3 DEF Whole, CoreInv, PlaneInv, Ours
<1> QED BY <1>6, <1>7, <1>8, <1>9 DEF CoreInv
LEMMA PreparesCore == ASSUME Whole, Prepares PROVE CoreInv'
<1>1. /\ UNCHANGED <<cur, p5, p7, jobConn, resets, s5, s6, s7, slot, w, starts, born, sent>> /\ HostFree /\ cur # 0
  BY DEF Prepares, Subscribe, WriteCiphertext, CiphertextWritable, session, history
<1>2. /\ c'.root = c.root /\ c'.tx = c.tx /\ c'.flow = c.flow /\ c'.neg = c.neg /\ c'.rx = c.rx
      /\ c'.vouched = c.vouched /\ c.pc \in Begin \ {"connect"} /\ c'.pc \in Begin \ {"connect"} /\ inbox' = inbox
  BY DEF Prepares, Same, Steady, Frame
<1>3. c.root = 0
  BY <1>2 DEF Whole, ProcessInv, StandingInv
<1>4. inbox = <<>> /\ jobConn = 0 /\ ~ToUs
  BY <1>3 DEF Whole, CoreInv, QueueInv, JobInv
<1>5. ProcessLink' /\ JobInv' /\ FlowInv' /\ VouchInv' /\ RefusedInv' /\ FrameInv' /\ AnswerInv'
  BY <1>1, <1>2, <1>3, <1>4
     DEF ProcessLink, JobInv, FlowInv, VouchInv, RefusedInv, FrameInv, AnswerInv, Ours, ToUs, HostFree, Begin, Whole, CoreInv
<1>6. PhaseInv'
  BY <1>1, <1>2, <1>4 DEF Whole, CoreInv, PhaseInv, Open7, ToUs, InSlot, InWorker
<1>7. QueueInv' /\ EarnInv'
  BY <1>2, <1>4 DEF QueueInv, EarnInv, Asking, Begin
<1>8. PlaneInv'
  BY <1>1, <1>2, <1>3 DEF Whole, CoreInv, PlaneInv, Ours
<1> QED BY <1>5, <1>6, <1>7, <1>8 DEF CoreInv
LEMMA LeavesCore == ASSUME Whole, Leaves PROVE CoreInv'
<1>1. /\ UNCHANGED <<cur, jobConn, s5, s6, s7, slot, w, starts, born, sent>>
      /\ ~notify' /\ p5' = "IDLE" /\ p7' = "IDLE"
  BY DEF Leaves, Unsubscribe, session, history
<1>2. /\ c'.root = c.root /\ c'.tx = c.tx /\ c'.flow = c.flow /\ c'.neg = c.neg /\ c'.rx = c.rx
      /\ c'.vouched = c.vouched /\ c'.pc = "close" /\ inbox' = inbox
  BY DEF Leaves, Same, Steady, Frame
<1>3. ProcessLink'
  BY <1>1, <1>2 DEF Whole, CoreInv, ProcessLink
<1>4. JobInv'
  BY <1>1, <1>2 DEF Whole, CoreInv, JobInv, Working, ToUs
<1>5. PhaseInv'
  BY <1>1, <1>2 DEF Whole, CoreInv, PhaseInv, Open7
<1>6. QueueInv'
  BY <1>1, <1>2 DEF Whole, CoreInv, QueueInv, NoneUnderWay, JobHere, ToUs, Settled, Asking, Open7
<1>7. FlowInv' /\ VouchInv' /\ RefusedInv'
  BY <1>1, <1>2 DEF Whole, CoreInv, FlowInv, VouchInv, RefusedInv, Ours, Working, InSlot
<1>8. PlaneInv' /\ AnswerInv' /\ EarnInv'
  BY <1>1, <1>2 DEF Whole, CoreInv, PlaneInv, AnswerInv, EarnInv, Ours, Even, Untouched
<1>9. FrameInv'
  BY <1>1, <1>2 DEF Whole, CoreInv, FrameInv, Untouched, CarriesTold, Told5, Working, ToUs, InSlot
<1> QED BY <1>3, <1>4, <1>5, <1>6, <1>7, <1>8, <1>9 DEF CoreInv
LEMMA DropsCore == ASSUME Whole, Drops PROVE CoreInv'
<1>1. /\ UNCHANGED <<s5, s6, s7, slot, w, starts, born, sent>>
      /\ cur' = 0 /\ ~notify' /\ p5' = "IDLE" /\ p7' = "IDLE" /\ jobConn' = 0
  <2>1. jobConn \in {0, cur}
    BY TypedParts DEF Whole, Inv
  <2> QED BY <2>1 DEF Drops, Disconnected, session, history
<1>2. /\ c'.root = c.root /\ c'.tx = c.tx /\ c'.flow = c.flow /\ c'.neg = c.neg /\ c'.rx = c.rx
      /\ c'.vouched = c.vouched /\ (c' = c \/ (c'.pc = "exit" /\ inbox' = <<>>))
      /\ (c'.pc = "exit" => inbox' = <<>>)
  BY DEF Drops, Same, Steady, Frame
<1>3. inbox' \in {inbox, <<>>}
  <2>1. PICK n \in 0 .. Len(inbox) : inbox' = SubSeq(inbox, 1, n)
    BY DEF Drops
  <2>2. CASE inbox = <<>>
    BY <2>1, <2>2
  <2>3. CASE inbox # <<>>
    <3>1. inbox \in Seq(Messages) /\ Len(inbox) = 1
      BY <2>3, ProcessTypes DEF Whole, CoreInv, QueueInv
    <3>2. CASE n = 0
      BY <2>1, <3>1, <3>2
    <3>3. CASE n = 1
      <4>1. SubSeq(inbox, 1, 1) = inbox
        BY <3>1
      <4> QED BY <2>1, <3>3, <4>1
    <3> QED BY <2>1, <3>1, <3>2, <3>3
  <2> QED BY <2>2, <2>3
<1>4. ~ToUs'
  BY <1>1 DEF Whole, Inv, Parts, OwnInv, DeliversTo, ToUs
<1>5. ProcessLink' /\ FlowInv' /\ VouchInv' /\ RefusedInv'
  BY <1>1, <1>2 DEF Whole, CoreInv, ProcessLink, FlowInv, VouchInv, RefusedInv, Ours, Working, InSlot
<1>6. JobInv' /\ PhaseInv'
  BY <1>1, <1>2, <1>4 DEF Whole, CoreInv, JobInv, PhaseInv, Working, Open7
<1>7. QueueInv'
  BY <1>1, <1>2, <1>3, <1>4 DEF Whole, CoreInv, QueueInv, NoneUnderWay, JobHere, Asking
<1>8. PlaneInv' /\ AnswerInv' /\ EarnInv'
  BY <1>1, <1>2, <1>3 DEF Whole, CoreInv, PlaneInv, AnswerInv, EarnInv, Ours, Even, Untouched, JobHere
<1>9. FrameInv'
  BY <1>1, <1>2, <1>4 DEF Whole, CoreInv, FrameInv, Untouched, CarriesTold, Told5, Working, InSlot
<1> QED BY <1>5, <1>6, <1>7, <1>8, <1>9 DEF CoreInv
(* The modes of a flow. *)
LEMMA FlowModes ==
    ASSUME NEW flow, NEW mode \in ModesOf(flow)
    PROVE  /\ mode \in Keeps5 => flow \in Five
           /\ mode \in Jobs7 => flow = "phase7"
           /\ mode = "data6" => flow \in SixFlows
           /\ mode = "data5" => flow = "phase5"
           /\ flow = "phase7" => mode \in Jobs7
           /\ flow \in Five => mode \in Keeps5
           /\ flow \in SixFlows => mode # "data5"
           /\ flow = "phase5" => mode # "data6"
<1> USE DEF ModesOf, Keeps5, Jobs7, Five, SixFlows
<1>1. CASE flow = "phase2"
  BY <1>1
<1>2. CASE flow = "phase3"
  BY <1>2
<1>3. CASE flow = "hybrid"
  BY <1>3
<1>4. CASE flow = "phase5"
  BY <1>4
<1>5. CASE flow \in {"phase6", "c2p"}
  BY <1>5
<1>6. CASE flow = "phase7"
  BY <1>6
<1>7. CASE flow \notin {"phase2", "phase3", "hybrid", "phase5", "phase6", "c2p", "phase7"}
  BY <1>7
<1> QED BY <1>1, <1>2, <1>3, <1>4, <1>5, <1>6, <1>7
(* The START of a process finds a Peripheral that retains nothing. *)
LEMMA BeginsCore == ASSUME Whole, Begins PROVE CoreInv'
<1>1. PICK mode \in Starts \cap ModesOf(c.flow) : Start(mode)
  BY DEF Begins
<1>2. /\ c'.root = starts' /\ c'.tx = c.tx /\ c'.flow = c.flow /\ c'.neg = c.neg /\ c'.rx = c.rx
      /\ c'.vouched = c.vouched /\ c.pc = "start" /\ c'.pc = "ready" /\ inbox' = inbox
  BY DEF Begins, Frame
<1>3. c.root = 0 /\ ~c.vouched /\ Untouched
  BY <1>2 DEF Whole, ProcessInv, StandingInv, CounterInv, NoTraffic, Begin
<1>4. inbox = <<>> /\ ~ToUs
  BY <1>3 DEF Whole, CoreInv, QueueInv, JobInv
<1>5. /\ HostFree /\ cur # 0 /\ notify /\ p5 = "IDLE" /\ p7 = "IDLE" /\ ct = "READY" /\ SlotFree
      /\ starts' = starts + 1 /\ slot' = Job(mode, starts + 1, 0, TRUE) /\ jobConn' = cur
      /\ s5' \in {s5, No5} /\ s6' \in {s6, No6} /\ s7' \in {s7, No7} /\ w' = Retired(w, Forgets(mode))
      /\ p5' = (IF mode = "start5" THEN "CRYPTO_BUSY" ELSE p5)
      /\ p7' = (IF mode = "start7" THEN "CRYPTO_BUSY" ELSE p7)
      /\ UNCHANGED <<cur, notify, resets, born, sent>>
  BY <1>1 DEF Start, StartAccepted
<1>6. slot'.mode = mode /\ slot'.root = starts + 1 /\ slot'.pending /\ slot'.good /\ slot'.seq = 0
  BY <1>5 DEF Job
<1>7. w'.pc = w.pc /\ w'.mode = w.mode /\ w'.tx = w.tx /\ w'.conn = w.conn /\ w'.ok = w.ok
  BY <1>5, RetiredWorker DEF Whole, Inv, Typed
<1>8. s5'.root = 0 /\ s6'.root = 0 /\ s7'.root = 0 /\ starts \in Nat /\ starts = born
  <2>1. ~Owes5 /\ ~Owes7
    BY <1>5, OwedCases DEF HostFree, Owes5, Owes7
  <2>2. Here(s5.root) /\ Here(s6.root) /\ Here(s7.root) /\ s5.root <= starts /\ s6.root <= starts /\ s7.root <= starts
    BY <2>1 DEF Whole, Inv, Parts, LinkInv, SecretInv, OldSecrets
  <2>3. starts = born
    BY <1>3, <1>5 DEF Whole, CoreInv, ProcessLink
  <2>4. /\ s5.root \in Nat /\ s6.root \in Nat /\ s7.root \in Nat /\ starts \in Nat
    BY Fields DEF Whole, Inv
  <2>5. s5.root = 0 /\ s6.root = 0 /\ s7.root = 0
    BY <2>2, <2>3, <2>4 DEF Here
  <2> QED BY <1>5, <2>3, <2>4, <2>5 DEF No5, No6, No7
<1>9. ~Working' /\ w'.pc \notin Modes /\ ~ToUs'
  <2>1. w.pc \notin Computing \cup {"result"}
    BY <1>5 DEF Whole, Inv, Parts, OwnInv, SlotTaken, TransferOwned, SlotFree
  <2> QED BY <1>4, <1>5, <1>7, <2>1, Places DEF Working, ToUs
<1>10. c'.root # 0 /\ ~Ours(s5)' /\ ~Ours(s6)' /\ ~Ours(s7)' /\ c'.root = starts' /\ starts' = born' + 1
  BY <1>2, <1>5, <1>8 DEF Ours
<1>11. /\ mode = "start5" => c.flow \in Five
       /\ mode = "start7" => c.flow = "phase7"
       /\ mode \in Jobs7 => mode = "start7"
       /\ mode \notin {"finished5", "finished7", "data6", "data7"}
  BY <1>1, FlowModes DEF Starts, Keeps5, Jobs7
<1>12. ProcessLink'
  BY <1>2, <1>5, <1>8, <1>9, <1>10 DEF ProcessLink, HostFree
<1>13. JobInv'
  BY <1>1, <1>2, <1>6, <1>9, <1>10 DEF JobInv
<1>14. PhaseInv'
  BY <1>5, <1>6, <1>7, <1>9, <1>11 DEF Whole, CoreInv, PhaseInv, InSlot, InWorker, Open7, Working
<1>15. QueueInv' /\ AnswerInv' /\ EarnInv'
  BY <1>2, <1>4 DEF QueueInv, AnswerInv, EarnInv, Asking
<1>16. FlowInv'
  BY <1>2, <1>5, <1>10, <1>11 DEF FlowInv
<1>17. VouchInv' /\ RefusedInv'
  BY <1>1, <1>2, <1>6, <1>9, <1>10, <1>11 DEF VouchInv, RefusedInv, InSlot, Modes, Jobs5, Jobs7
<1>18. PlaneInv'
  BY <1>2, <1>3, <1>10 DEF PlaneInv, Untouched
<1>19. FrameInv'
  BY <1>2, <1>3, <1>6, <1>9, <1>11, Places DEF FrameInv, Untouched, CarriesTold, InSlot, DataModes, Modes, Jobs5, Jobs7
<1> QED BY <1>12, <1>13, <1>14, <1>15, <1>16, <1>17, <1>18, <1>19 DEF CoreInv
-----------------------------------------------------------------------------
(* A command of a process.  It finds the worker idle, and becomes the one   *)
(* request under way; or the session has no material for it.                *)
LEMMA IdleForCommand ==
    ASSUME Whole, c.pc \in Asking, cur # 0, c.flow \in Five \/ p7 \in Open7
    PROVE  w.pc = "idle" /\ inbox = <<>> /\ c.root # 0
<1>1. inbox = <<>> /\ Settled /\ c.root # 0
  BY DEF Whole, CoreInv, QueueInv, ProcessInv, StandingInv
<1> QED BY <1>1 DEF Settled, Five
Submits(mode, seq, good) ==
    /\ slot' = Job(mode, 0, seq, good) /\ jobConn' = cur
    /\ p5' = (IF mode \in Jobs5 THEN Phase5Of[mode] ELSE p5)
    /\ p7' = (IF mode \in Jobs7 THEN Phase7Of[mode] ELSE p7)
    /\ UNCHANGED <<cur, notify, resets, s5, s6, s7, w, starts, born>>
LEMMA CommandKinds ==
    ASSUME NEW mode, NEW has, NEW seq, NEW good, Command(mode, has, seq, good), jobConn = 0, cur # 0
    PROVE  \/ Submits(mode, seq, good) /\ has /\ SlotFree /\ jobConn' # 0
           \/ Still /\ jobConn' = 0
<1>1. UNCHANGED <<cur, notify, resets, s5, s6, s7, w, starts, born>>
  BY DEF Command, session, history
<1>2. CASE has /\ SlotFree
  BY <1>1, <1>2 DEF Command, Submits
<1>3. CASE ~(has /\ SlotFree)
  BY <1>1, <1>3 DEF Command, Still
<1> QED BY <1>2, <1>3
LEMMA SubmitsCore ==
    ASSUME Whole, NEW mode \in Modes \ Starts, NEW seq, NEW good, Submits(mode, seq, good), mode \in ModesOf(c.flow),
           w.pc = "idle", inbox = <<>>, inbox' = inbox, c.root # 0, c'.root = c.root, c'.flow = c.flow, c'.vouched,
           c'.pc \in Waiting, cur # 0, notify, Usable(slot')
    PROVE  /\ ProcessLink' /\ JobInv' /\ PhaseInv' /\ QueueInv' /\ FlowInv' /\ VouchInv' /\ AnswerInv'
           /\ slot'.mode = mode /\ slot'.seq = seq /\ slot'.good = good /\ w'.pc = "idle" /\ ~Working' /\ ~ToUs'
<1>1. /\ slot' = Job(mode, 0, seq, good) /\ jobConn' = cur
      /\ p5' = (IF mode \in Jobs5 THEN Phase5Of[mode] ELSE p5)
      /\ p7' = (IF mode \in Jobs7 THEN Phase7Of[mode] ELSE p7)
      /\ UNCHANGED <<cur, notify, resets, s5, s6, s7, w, starts, born>>
  BY DEF Submits
<1>2. slot'.mode = mode /\ slot'.seq = seq /\ slot'.good = good /\ slot'.pending
  BY <1>1 DEF Job
<1>3. ~Working' /\ ~ToUs' /\ w'.pc = "idle" /\ w.pc \notin Modes
  BY <1>1, Places DEF Working, ToUs
<1>4. c'.pc \notin Asking \cup {"exit", "connect", "cleanup"}
  BY DEF Waiting, Asking
<1>5. ProcessLink'
  BY <1>1, <1>3, <1>4 DEF Whole, CoreInv, ProcessLink, HostFree
<1>6. JobInv'
  <2>1. Usable(slot)'
    BY <1>1 DEF Usable
  <2> QED BY <1>1, <1>2, <1>3, <2>1 DEF JobInv
<1>7. PhaseInv'
  <2>1. mode \in Jobs7 => p7' \notin Open7
    BY <1>1 DEF Phase7Of, Jobs7, Open7, Starts
  <2>2. w.mode = "none"
    BY DEF Whole, Inv, Parts, OwnInv, SlotTaken
  <2> QED BY <1>1, <1>2, <1>3, <2>1, <2>2 DEF PhaseInv, InSlot, InWorker, Working, Steps7
<1>8. QueueInv' /\ AnswerInv'
  BY <1>4 DEF QueueInv, AnswerInv
<1>9. FlowInv'
  <2>1. (mode \in Jobs5 => c.flow \in Five) /\ (mode \in Jobs7 => c.flow = "phase7")
    BY FlowModes DEF Jobs5, Keeps5, Starts
  <2> QED BY <1>1, <2>1 DEF Whole, CoreInv, FlowInv, Ours
<1>10. VouchInv'
  BY DEF VouchInv
<1> QED BY <1>2, <1>3, <1>5, <1>6, <1>7, <1>8, <1>9, <1>10
(* FINISHED_C, and DATA_REQUEST of v0.5: no traffic yet. *)
LEMMA EarlyCore ==
    ASSUME Whole, Same, c.pc \in {"finished", "secure"}, NEW mode \in {"finished5", "finished7", "data5"},
           NEW good, Submits(mode, 0, good), mode \in ModesOf(c.flow), inbox' = inbox, c'.pc \in {"confirm", "data"},
           w.pc = "idle", inbox = <<>>, cur # 0, notify, Usable(slot'), mode = "data5" \/ Untouched,
           c.flow = "phase5" /\ c.neg \in {"finished-c", "transcript"} /\ mode = "finished5" => ~good,
           c.flow = "phase7" /\ c.neg = "finished-c" => ~good
    PROVE  CoreInv'
<1>1. /\ c'.root = c.root /\ c'.tx = c.tx /\ c'.flow = c.flow /\ c'.neg = c.neg /\ c'.rx = c.rx
      /\ c'.vouched /\ c.root # 0 /\ c'.pc \in Waiting /\ mode \in Modes \ Starts
  BY DEF Same, Steady, Frame, Whole, ProcessInv, StandingInv, Confirming, Asking, Waiting, Modes, Jobs5, Jobs7, Starts
<1>2. UNCHANGED <<s5, s6, s7, w>>
  BY DEF Submits
<1>3. /\ ProcessLink' /\ JobInv' /\ PhaseInv' /\ QueueInv' /\ FlowInv' /\ VouchInv' /\ AnswerInv'
      /\ slot'.mode = mode /\ slot'.good = good /\ w'.pc = "idle" /\ ~Working' /\ ~ToUs'
  BY <1>1, SubmitsCore
<1>4. PlaneInv'
  BY <1>1, <1>2 DEF Whole, CoreInv, PlaneInv, Ours, Even, Untouched
<1>5. FrameInv'
  BY <1>1, <1>3, Places DEF FrameInv, Untouched, CarriesTold, InSlot, DataModes, Starts
<1>6. RefusedInv'
  BY <1>1, <1>2, <1>3 DEF Whole, CoreInv, RefusedInv, Ours, InSlot
<1>7. EarnInv'
  BY DEF EarnInv
<1> QED BY <1>3, <1>4, <1>5, <1>6, <1>7 DEF CoreInv
LEMMA FinishesCore == ASSUME Whole, Finishes PROVE CoreInv'
<1>1. Same /\ inbox' = inbox /\ c.pc = "finished" /\ IF jobConn' = 0 THEN Fails ELSE c'.pc = "confirm"
  BY DEF Finishes
<1>2. c.pc \in Asking /\ Untouched
  BY <1>1 DEF Asking, Whole, ProcessInv, CounterInv, NoTraffic
<1>3. ASSUME NEW good \in BOOLEAN, Phase5FinishedC(good), c.flow \in Five,
             c.flow = "phase5" /\ c.neg \in {"finished-c", "transcript"} => ~good \/ s5.root = 0
      PROVE  CoreInv'
  <2>1. cur # 0 /\ notify /\ jobConn = 0 /\ Command("finished5", s5.wait, 0, good)
    BY <1>3 DEF Phase5FinishedC, Phase5Expects
  <2>2. CASE Submits("finished5", 0, good) /\ s5.wait /\ jobConn' # 0
    <3>1. w.pc = "idle" /\ inbox = <<>>
      BY <1>2, <1>3, <2>1, IdleForCommand
    <3>2. Usable(slot')
      BY <2>2 DEF Submits, Usable, Job
    <3>3. "finished5" \in ModesOf(c.flow) /\ c.flow # "phase7"
      BY <1>3 DEF ModesOf, Five, SixFlows
    <3>4. s5.root # 0
      BY <2>2 DEF Whole, Inv, Parts, ShapeInv, Whole5
    <3> QED BY <1>1, <1>2, <1>3, <2>1, <2>2, <3>1, <3>2, <3>3, <3>4, EarlyCore
  <2>3. CASE Still /\ jobConn' = 0
    BY <1>1, <2>3, EndsCore DEF Fails
  <2> QED BY <2>1, <2>2, <2>3, CommandKinds
<1>4. ASSUME NEW good \in BOOLEAN, Phase7FinishedC(good), c.flow = "phase7", c.neg = "finished-c" => ~good
      PROVE  CoreInv'
  <2>1. cur # 0 /\ notify /\ jobConn = 0 /\ Command("finished7", s7.wait, 0, good) /\ p7 \in Open7
    BY <1>4 DEF Phase7FinishedC, Phase7Expects, Open7
  <2>2. CASE Submits("finished7", 0, good) /\ s7.wait /\ jobConn' # 0
    <3>1. w.pc = "idle" /\ inbox = <<>>
      BY <1>2, <2>1, IdleForCommand
    <3>2. Usable(slot')
      BY <2>2 DEF Submits, Usable, Job
    <3>3. "finished7" \in ModesOf(c.flow)
      BY <1>4 DEF ModesOf, SixFlows, Jobs7
    <3> QED BY <1>1, <1>2, <1>4, <2>1, <2>2, <3>1, <3>2, <3>3, EarlyCore
  <2>3. CASE Still /\ jobConn' = 0
    BY <1>1, <2>3, EndsCore DEF Fails
  <2> QED BY <2>1, <2>2, <2>3, CommandKinds
<1> QED BY <1>3, <1>4 DEF Finishes
LEMMA AsksCore == ASSUME Whole, Asks PROVE CoreInv'
<1>1. /\ Same /\ inbox' = inbox /\ c.pc = "secure" /\ c.flow = "phase5" /\ Phase5Data
      /\ IF jobConn' = 0 THEN Fails ELSE c'.pc = "data"
  BY DEF Asks
<1>2. c.pc \in Asking /\ c.flow \in Five
  BY <1>1 DEF Asking, Five
<1>3. cur # 0 /\ notify /\ jobConn = 0 /\ Command("data5", s5.ready, 0, TRUE)
  BY <1>1 DEF Phase5Data, Phase5Expects
<1>4. CASE Submits("data5", 0, TRUE) /\ s5.ready /\ jobConn' # 0
  <2>1. w.pc = "idle" /\ inbox = <<>>
    BY <1>2, <1>3, IdleForCommand
  <2>2. Usable(slot')
    BY <1>4 DEF Submits, Usable, Job
  <2>3. "data5" \in ModesOf(c.flow)
    BY <1>1 DEF ModesOf, SixFlows
  <2> QED BY <1>1, <1>3, <1>4, <2>1, <2>2, <2>3, EarlyCore
<1>5. CASE Still /\ jobConn' = 0
  BY <1>1, <1>5, EndsCore DEF Fails
<1> QED BY <1>3, <1>4, <1>5, CommandKinds
(* A frame, and the frames that must be refused. *)
LEMMA FrameKinds ==
    ASSUME Whole, NEW seq, NEW good \in BOOLEAN, WriteSecureData(seq, good), c.pc \in Asking,
           c.flow \in SixFlows \cup {"phase7"}
    PROVE  \/ Still /\ jobConn' = 0
           \/ /\ jobConn' # 0 /\ Submits("data7", seq, good) /\ c.flow = "phase7" /\ s7.auth /\ Usable(slot')
              /\ w.pc = "idle" /\ inbox = <<>> /\ cur # 0 /\ notify
           \/ /\ jobConn' # 0 /\ Submits("data6", seq, good) /\ c.flow \in SixFlows /\ (s5.ready \/ s6.active)
              /\ Usable(slot') /\ w.pc = "idle" /\ inbox = <<>> /\ cur # 0 /\ notify
<1>1. cur # 0 /\ notify /\ DataOpen /\ jobConn = 0
  BY DEF WriteSecureData, DataWritable
<1>2. CASE p7 = "AUTHENTICATED"
  <2>1. c.flow = "phase7" /\ p7 \in Open7
    BY <1>2 DEF Whole, CoreInv, FlowInv, Open7
  <2>2. Command("data7", s7.auth /\ ~s7.pend, seq, good)
    BY <1>2 DEF WriteSecureData
  <2>3. CASE Submits("data7", seq, good) /\ (s7.auth /\ ~s7.pend) /\ jobConn' # 0
    <3>1. w.pc = "idle" /\ inbox = <<>>
      BY <1>1, <2>1, IdleForCommand
    <3>2. Usable(slot')
      BY <2>3 DEF Submits, Usable, Job
    <3> QED BY <1>1, <2>1, <2>3, <3>1, <3>2
  <2> QED BY <1>1, <2>2, <2>3, CommandKinds
<1>3. CASE p7 = "IDLE" /\ p5 = "AUTHENTICATED"
  <2>1. c.flow \in SixFlows /\ c.flow \in Five
    BY <1>3 DEF Whole, CoreInv, FlowInv, Five, SixFlows
  <2>2. Command("data6", s5.ready \/ s6.active, seq, good)
    BY <1>3 DEF WriteSecureData
  <2>3. CASE Submits("data6", seq, good) /\ (s5.ready \/ s6.active) /\ jobConn' # 0
    <3>1. w.pc = "idle" /\ inbox = <<>>
      BY <1>1, <2>1, IdleForCommand
    <3>2. Usable(slot')
      BY <2>3 DEF Submits, Usable, Job
    <3> QED BY <1>1, <2>1, <2>3, <3>1, <3>2
  <2> QED BY <1>1, <2>2, <2>3, CommandKinds
<1> QED BY <1>1, <1>2, <1>3 DEF DataOpen
LEMMA WritesCore == ASSUME Whole, Writes PROVE CoreInv'
<1>1. PICK seq \in Seqs, good \in BOOLEAN :
          /\ WriteSecureData(seq, good) /\ (c.flow \in SixFlows /\ c.neg = "c2p-tamper" => ~good)
          /\ jobConn' # 0 => c'.tx = seq + 1
  BY DEF Writes
<1>2. /\ c'.root = c.root /\ c'.flow = c.flow /\ c'.neg = c.neg /\ c'.rx = c.rx /\ c'.vouched = c.vouched
      /\ c.vouched /\ inbox' = inbox /\ c.pc \in Asking /\ c.flow \in SixFlows \cup {"phase7"}
  BY DEF Writes, Frame
<1>3. /\ jobConn' = 0 => Fails
      /\ jobConn' # 0 =>
            /\ c'.pc \in Waiting /\ c'.tx \in {c.tx, c.tx + 1}
            /\ c'.tx = c.rx + 1 \/ (c'.tx = c.tx /\ (c.rx = c.tx \/ c.pc = "again"))
            /\ c'.pc = "replayed" /\ c.flow \in SixFlows => c.pc = "again" /\ c'.tx = c.tx
  BY DEF Writes
<1>4. CASE Still /\ jobConn' = 0
  BY <1>2, <1>3, <1>4, EndsCore DEF Fails
<1>5. ASSUME jobConn' # 0, NEW mode \in DataModes, Submits(mode, seq, good), Usable(slot'), w.pc = "idle",
             inbox = <<>>, cur # 0, notify,
             \/ mode = "data7" /\ c.flow = "phase7" /\ s7.auth
             \/ mode = "data6" /\ c.flow \in SixFlows /\ (s5.ready \/ s6.active)
      PROVE  CoreInv'
  <2>1. /\ mode \in Modes \ Starts /\ mode \in ModesOf(c.flow) /\ c.root # 0
        /\ mode = "data7" => c.flow = "phase7" /\ c.flow \notin Five \cup SixFlows
        /\ mode = "data6" => c.flow \notin {"phase5", "phase7"}
    BY <1>2, <1>5 DEF DataModes, Modes, Jobs5, Jobs7, Starts, ModesOf, SixFlows, Five, Whole, ProcessInv, StandingInv
  <2>2. UNCHANGED <<s5, s6, s7, w>>
    BY <1>5 DEF Submits
  <2>3. /\ ProcessLink' /\ JobInv' /\ PhaseInv' /\ QueueInv' /\ FlowInv' /\ VouchInv' /\ AnswerInv'
        /\ slot'.mode = mode /\ slot'.good = good /\ slot'.seq = seq /\ w'.pc = "idle" /\ ~Working' /\ ~ToUs'
    BY <1>2, <1>3, <1>5, <2>1, SubmitsCore
  <2>4. c.tx \in Nat /\ c.rx \in Nat /\ c.tx <= c.rx + 1 /\ c.rx <= c.tx /\ c'.tx = seq + 1 /\ seq \in Nat
    BY <1>1, <1>2, <1>5, ProcessTypes, Zero DEF Whole, CoreInv, PlaneInv
  <2>5. c'.tx \in Nat /\ c'.tx <= c.rx + 1 /\ c.rx <= c'.tx /\ {c.rx, c.tx} \subseteq {c.rx, c'.tx} /\ c'.tx # 0
    BY <1>3, <1>5, <2>4
  <2>6. PlaneInv'
    <3>1. (Ours(s7)' => s7'.auth /\ Even(s7)')
      BY <1>2, <1>5, <2>1, <2>2, <2>5 DEF Whole, CoreInv, PlaneInv, FlowInv, Ours, Even
    <3>2. (Ours(s6)' => Even(s6)')
      BY <1>2, <2>2, <2>5 DEF Whole, CoreInv, PlaneInv, Ours, Even
    <3>3. (Ours(s5)' => c'.rx = 0 /\ c'.tx <= 1 /\ ~s5'.wait)
      <4>1. mode = "data6" => ~s5.wait
        BY <1>5, <2>1 DEF Whole, Inv, Parts, ShapeInv, Whole5, No6
      <4>2. Ours(s5)' => Ours(s5) /\ mode = "data6"
        BY <1>2, <1>5, <2>1, <2>2 DEF Whole, CoreInv, FlowInv, Ours
      <4> QED BY <1>2, <2>2, <2>5, <4>1, <4>2 DEF Whole, CoreInv, PlaneInv
    <3> QED BY <1>2, <2>5, <3>1, <3>2, <3>3 DEF PlaneInv
  <2>7. FrameInv'
    BY <1>5, <2>3, <2>4, Places DEF FrameInv, CarriesTold, InSlot, DataModes, Starts
  <2>8. RefusedInv'
    BY <1>1, <1>2, <1>5, <2>1, <2>2, <2>3 DEF Whole, CoreInv, RefusedInv, Ours, InSlot
  <2>9. EarnInv'
    <3>1. c'.pc \notin {"cleanup", "again"}
      BY <1>3, <1>5 DEF Waiting
    <3> QED BY <1>2, <1>3, <1>5, <3>1 DEF Whole, CoreInv, EarnInv
  <2> QED BY <2>3, <2>6, <2>7, <2>8, <2>9 DEF CoreInv
<1> QED BY <1>1, <1>2, <1>4, <1>5, FrameKinds DEF DataModes
LEMMA ProbesCore == ASSUME Whole, Probes PROVE CoreInv'
<1>1. PICK good \in BOOLEAN : WriteSecureData(0, good)
  BY DEF Probes
<1>2. /\ Same /\ inbox' = inbox /\ c.pc \in {"probe", "rejected", "blocked"} /\ c.flow = "phase7"
      /\ \/ c'.pc = "quiet" /\ jobConn' = 0
         \/ c'.pc = "cleanup" /\ c'.verdict = "error"
  BY DEF Probes
<1>3. c.pc \in Asking /\ c.root # 0 /\ c.flow \notin SixFlows
  BY <1>2 DEF Asking, SixFlows, Whole, ProcessInv, StandingInv
<1>4. ~s7.auth
  <2>1. s7.auth => Ours(s7)
    BY <1>3 DEF Whole, Inv, Parts, ShapeInv, Whole7, CoreInv, ProcessLink, Ours
  <2>2. CASE c.pc \in {"probe", "rejected"}
    <3>1. ~c.vouched
      BY <2>2 DEF Whole, ProcessInv, StandingInv
    <3> QED BY <1>3, <2>1, <3>1 DEF Whole, CoreInv, VouchInv
  <2>3. CASE c.pc = "blocked"
    <3>1. c.neg = "finished-c"
      BY <2>3 DEF Whole, ProcessInv, StandingInv
    <3> QED BY <1>2, <1>3, <2>1, <3>1 DEF Whole, CoreInv, RefusedInv
  <2> QED BY <1>2, <2>2, <2>3
<1>5. Still
  BY <1>1, <1>2, <1>3, <1>4, FrameKinds
<1>6. CASE c'.pc = "quiet"
  BY <1>2, <1>3, <1>5, <1>6, GoesOnCore DEF Same, Asking
<1>7. CASE c'.pc = "cleanup" /\ c'.verdict = "error"
  BY <1>2, <1>5, <1>7, EndsCore
<1> QED BY <1>2, <1>6, <1>7
LEMMA ProbesEarlyCore == ASSUME Whole, ProbesEarly PROVE CoreInv'
<1>1. c.root = 0
  BY DEF ProbesEarly, Whole, ProcessInv, StandingInv, Begin
<1>2. p5 = "IDLE" /\ p7 = "IDLE"
  BY <1>1 DEF Whole, CoreInv, ProcessLink
<1> QED BY <1>2 DEF ProbesEarly, WriteSecureData, DataWritable, DataOpen
LEMMA ProcessCore == ASSUME Whole, ProcessStep PROVE CoreInv'
  BY QuitsCore, GoesCore, HearsCore, PreparesCore, BeginsCore, FinishesCore, AsksCore, WritesCore, ProbesCore,
     ProbesEarlyCore, ConnectsCore, LeavesCore, DropsCore, ClosesCore, RenewsCore
     DEF ProcessStep
-----------------------------------------------------------------------------
(* The steps of the Peripheral.  They leave the process alone. *)
Alone == c' = c /\ inbox' = inbox
SlotKept == slot'.pending = slot.pending /\ slot'.active = slot.active /\ slot'.mode = slot.mode
            /\ slot'.seq = slot.seq /\ slot'.good = slot.good
Linked == UNCHANGED <<cur, notify, jobConn, starts, born>>
(* Erased material is nobody's. *)
LEMMA ErasedNone == No5.root = 0 /\ No6.root = 0 /\ No7.root = 0 /\ ~No5.ready /\ ~No7.auth
  BY DEF No5, No6, No7
(* The host erases what the callback owes: the link is not subscribed. *)
LEMMA HostResetsCore == ASSUME Whole, HostResets, Alone PROVE CoreInv'
<1>1. /\ UNCHANGED <<cur, notify, p5, p7, jobConn, starts, born>> /\ resets # <<>>
      /\ slot' \in {Retired(slot, Jobs5), Retired(slot, Jobs7)} /\ w' \in {Retired(w, Jobs5), Retired(w, Jobs7)}
      /\ s5' \in {s5, No5} /\ s6' \in {s6, No6} /\ s7' \in {s7, No7} /\ c' = c /\ inbox' = inbox
  BY DEF HostResets, Reset5, Reset7, history, Alone
<1>2. ~notify
  BY <1>1 DEF Whole, CoreInv, ProcessLink, HostFree
<1>3. SlotKept
  BY <1>1, RetiredSlot DEF SlotKept, Whole, Inv, Typed
<1>4. /\ w'.pc = w.pc /\ w'.mode = w.mode /\ w'.root = w.root /\ w'.rx = w.rx /\ w'.tx = w.tx /\ w'.ok = w.ok
      /\ w'.conn = w.conn /\ w'.seq = w.seq /\ w'.good = w.good
  BY <1>1, RetiredWorker DEF Whole, Inv, Typed
<1> USE <1>1, <1>3, <1>4, ErasedNone
<1> USE DEF SlotKept, Ours, Working, ToUs, InSlot
<1>5. ProcessLink' /\ JobInv'
  BY <1>2 DEF Whole, CoreInv, ProcessLink, JobInv
<1>6. PhaseInv' /\ QueueInv'
  BY DEF Whole, CoreInv, PhaseInv, QueueInv, InWorker, NoneUnderWay, JobHere, Settled
<1>7. FlowInv' /\ VouchInv' /\ RefusedInv'
  BY DEF Whole, CoreInv, FlowInv, VouchInv, RefusedInv
<1>8. PlaneInv' /\ AnswerInv' /\ EarnInv'
  BY DEF Whole, CoreInv, PlaneInv, AnswerInv, EarnInv, Even, Untouched, JobHere
<1>9. FrameInv'
  BY DEF Whole, CoreInv, FrameInv, Untouched, CarriesTold, Told5
<1> QED BY <1>5, <1>6, <1>7, <1>8, <1>9 DEF CoreInv
(* What the worker does after a notification. *)
LEMMA AfterCore ==
    ASSUME Whole, Alone, w.pc \in Delivering \ {"notify"}, Linked, SlotKept, resets' = resets,
           s5' \in {s5, No5}, s6' \in {s6, No6},
           \/ s7' \in {s7, No7}
           \/ s7.pend /\ ~s7.auth /\ s7'.root = s7.root /\ s7'.auth /\ s7'.rx = 0 /\ s7'.tx = 0,
           \/ w'.pc = "idle" /\ w'.mode = "none"
           \/ /\ w'.pc \in Delivering \ {"notify"} /\ w'.mode = w.mode /\ w'.root = w.root /\ w'.conn = w.conn
              /\ w'.tx = w.tx /\ (w'.pc \in Steps7 <=> w.pc \in Steps7),
           p5' \in {p5, "IDLE"}, p7' \in {p7, "IDLE"} \/ (w.conn = cur /\ w.pc \in Steps7 /\ w'.pc = "idle")
    PROVE  CoreInv'
<1>1. c' = c /\ inbox' = inbox /\ UNCHANGED <<cur, notify, jobConn, starts, born>>
  BY DEF Alone, Linked
<1>2. /\ w.pc \notin Modes \cup {"idle", "result", "notify", "done"} /\ w'.pc \notin Modes \cup {"result", "notify", "done"}
      /\ w.pc \notin Computing /\ w'.pc \notin Computing /\ ~Working /\ ~Working' /\ "idle" \notin Delivering \cup Steps7
  BY Places DEF Working, Steps7
<1>3. ToUs' => ToUs /\ w'.mode = w.mode /\ w'.root = w.root
  BY <1>1, <1>2 DEF ToUs
<1>4. /\ p7' \in {p7, "IDLE"} \/ (ToUs /\ w'.pc = "idle" /\ ~slot.pending /\ c.root # 0 /\ c.flow = "phase7" /\ cur # 0)
  <2>1. CASE w.conn = cur /\ w.pc \in Steps7 /\ w'.pc = "idle"
    <3>1. ToUs /\ cur # 0
      BY <2>1 DEF ToUs, Whole, Inv, Parts, OwnInv, DeliversTo
    <3>2. w.mode \in Jobs7 /\ w.mode \in ModesOf(c.flow) /\ c.root # 0 /\ ~slot.pending
      BY <2>1, <3>1 DEF Whole, CoreInv, PhaseInv, JobInv
    <3> QED BY <2>1, <3>1, <3>2, FlowModes
  <2> QED BY <2>1
<1>5. Ours(s5)' => Ours(s5) /\ s5' = s5
  BY <1>1, ErasedNone DEF Ours
<1>6. Ours(s6)' => Ours(s6) /\ s6' = s6
  BY <1>1, ErasedNone DEF Ours
<1>7. Ours(s7)' => Ours(s7) /\ (s7' = s7 \/ (s7.pend /\ ~s7.auth /\ s7'.auth /\ s7'.rx = 0 /\ s7'.tx = 0))
  BY <1>1, ErasedNone DEF Ours
<1>8. ProcessLink'
  <2>1. {s5'.root, s6'.root, s7'.root} \subseteq {0, s5.root, s6.root, s7.root}
    BY ErasedNone
  <2> QED BY <1>1, <1>2, <1>4, <2>1 DEF Whole, CoreInv, ProcessLink, HostFree
<1>9. JobInv'
  BY <1>1, <1>2, <1>3 DEF Whole, CoreInv, JobInv, SlotKept
<1>10. PhaseInv'
  BY <1>1, <1>2, <1>3, <1>4 DEF Whole, CoreInv, PhaseInv, InSlot, InWorker, Working, SlotKept, Open7
<1>11. QueueInv'
  <2>1. NoneUnderWay => NoneUnderWay'
    BY <1>2 DEF NoneUnderWay, JobHere, SlotKept
  <2>2. Settled => Settled'
    BY <1>1, <1>2, <1>4 DEF Settled, ToUs, Open7
  <2> QED BY <1>1, <2>1, <2>2 DEF Whole, CoreInv, QueueInv
<1>12. FlowInv'
  BY <1>1, <1>4, <1>5, <1>6, <1>7 DEF Whole, CoreInv, FlowInv
<1>13. VouchInv'
  BY <1>1, <1>2, <1>5, <1>6, <1>7 DEF Whole, CoreInv, VouchInv, SlotKept
<1>14. PlaneInv'
  BY <1>1, <1>5, <1>6, <1>7 DEF Whole, CoreInv, PlaneInv, Even, Untouched
<1>15. FrameInv'
  BY <1>1, <1>2, Places DEF Whole, CoreInv, FrameInv, CarriesTold, Told5, InSlot, SlotKept, Untouched, DataModes, Modes,
                    Jobs5, Jobs7
<1>16. AnswerInv'
  BY <1>1, <1>5, <1>6, <1>7 DEF Whole, CoreInv, AnswerInv
<1>17. RefusedInv'
  BY <1>1, <1>2, <1>5, <1>6, <1>7 DEF Whole, CoreInv, RefusedInv, InSlot, SlotKept, Modes, Jobs5, Jobs7
<1>18. EarnInv'
  BY <1>1, <1>2, <1>6 DEF Whole, CoreInv, EarnInv, SlotKept, JobHere
<1> QED BY <1>8, <1>9, <1>10, <1>11, <1>12, <1>13, <1>14, <1>15, <1>16, <1>17, <1>18 DEF CoreInv
LEMMA PhaseStepCore == ASSUME Whole, Wait7 \/ Auth7 \/ Fail7 \/ Fail5, Alone PROVE CoreInv'
<1>1. w \in Workers /\ w.pc \in {"wait7", "auth7", "fail7", "fail5"} /\ w.pc \in Delivering \ {"notify"}
  BY DEF Wait7, Auth7, Fail7, Fail5, Delivering, Whole, Inv, Typed
<1>2. UNCHANGED <<cur, notify, jobConn, resets, s5, s6, s7, slot, starts, born>>
  BY DEF Wait7, Auth7, Fail7, Fail5, session, history
<1>3. Linked /\ SlotKept
  BY <1>2 DEF Linked, SlotKept
<1>4. CASE Wait7 \/ Auth7
  <2>1. Goto("idle") /\ p5' = p5 /\ w.pc \in Steps7 /\ (p7' = p7 \/ w.conn = cur)
    BY <1>4 DEF Wait7, Auth7, Steps7
  <2>2. w'.pc = "idle" /\ w'.mode = "none"
    BY <1>1, <2>1, GotoFields
  <2> QED BY <1>1, <1>2, <1>3, <2>1, <2>2, AfterCore
<1>5. CASE Fail7
  <2>1. Goto("reset7") /\ p5' = p5 /\ p7' \in {p7, "IDLE"} /\ w.pc \in Steps7
    BY <1>5 DEF Fail7, Steps7
  <2>2. w'.pc = "reset7" /\ w'.mode = w.mode /\ w'.root = w.root /\ w'.conn = w.conn /\ w'.tx = w.tx
    BY <1>1, <2>1, GotoFields DEF Delivering
  <2>3. w'.pc \in Delivering \ {"notify"} /\ w'.pc \in Steps7
    BY <2>2 DEF Delivering, Steps7
  <2> QED BY <1>1, <1>2, <1>3, <2>1, <2>2, <2>3, AfterCore
<1>6. CASE Fail5
  <2>1. Goto("reset5") /\ p7' = p7 /\ p5' \in {p5, "IDLE"} /\ w.pc \notin Steps7
    BY <1>6 DEF Fail5, Steps7
  <2>2. w'.pc = "reset5" /\ w'.mode = w.mode /\ w'.root = w.root /\ w'.conn = w.conn /\ w'.tx = w.tx
    BY <1>1, <2>1, GotoFields DEF Delivering
  <2>3. w'.pc \in Delivering \ {"notify"} /\ w'.pc \notin Steps7
    BY <2>2 DEF Delivering, Steps7
  <2> QED BY <1>1, <1>2, <1>3, <2>1, <2>2, <2>3, AfterCore
<1> QED BY <1>4, <1>5, <1>6
LEMMA CommitCore == ASSUME Whole, Commit7, Alone PROVE CoreInv'
<1>1. w \in Workers /\ w.pc = "commit7" /\ w.pc \in Delivering \ {"notify"} /\ w.pc \in Steps7
      /\ {"auth7", "fail7"} \subseteq Delivering \ {"notify"} /\ {"auth7", "fail7"} \subseteq Steps7
  BY DEF Commit7, Delivering, Steps7, Whole, Inv, Typed
<1>2. UNCHANGED <<cur, notify, p5, p7, jobConn, resets, s5, s6, slot, starts, born>>
  BY DEF Commit7, control, history
<1>3. Linked /\ SlotKept
  BY <1>2 DEF Linked, SlotKept
<1>4. PICK pc \in {"auth7", "fail7"} : Goto(pc)
  BY DEF Commit7
<1>5. w'.pc = pc /\ w'.mode = w.mode /\ w'.root = w.root /\ w'.conn = w.conn /\ w'.tx = w.tx
  BY <1>1, <1>4, GotoFields
<1>6. \/ s7' = s7
      \/ s7.pend /\ ~s7.auth /\ s7'.root = s7.root /\ s7'.auth /\ s7'.rx = 0 /\ s7'.tx = 0
  <2>1. s7 \in S7
    BY TypedParts DEF Whole, Inv
  <2> QED BY <2>1 DEF Commit7, S7
<1> QED BY <1>1, <1>2, <1>3, <1>4, <1>5, <1>6, AfterCore
LEMMA WorkerResetsCore == ASSUME Whole, WorkerResets, Alone PROVE CoreInv'
<1>1. w \in Workers /\ w.pc \in Delivering \ {"notify"} /\ Goto("idle")
  BY DEF WorkerResets, Delivering, Whole, Inv, Typed
<1>2. /\ UNCHANGED <<cur, notify, p5, p7, jobConn, resets, starts, born>>
      /\ slot' \in {Retired(slot, Jobs5), Retired(slot, Jobs7)}
      /\ s5' \in {s5, No5} /\ s6' \in {s6, No6} /\ s7' \in {s7, No7}
  BY DEF WorkerResets, Reset5, Reset7, control, history
<1>3. Linked /\ SlotKept
  BY <1>2, RetiredSlot DEF Linked, SlotKept, Whole, Inv, Typed
<1>4. w'.pc = "idle" /\ w'.mode = "none"
  BY <1>1, GotoFields
<1> QED BY <1>1, <1>2, <1>3, <1>4, AfterCore
(* The worker takes a job: while a process has a secret, it is its own. *)
LEMMA OwnMaterial ==
    ASSUME Whole, c.root # 0
    PROVE  /\ s5.wait \/ s5.ready => Ours(s5)
           /\ s6.active => Ours(s6)
           /\ s7.wait \/ s7.pend \/ s7.auth => Ours(s7)
           /\ InSlot(Starts) => slot.root = c.root
           /\ c.root = starts
  BY DEF Whole, Inv, Parts, ShapeInv, Whole5, Whole7, SecretInv, NewSecret, CoreInv, ProcessLink, Ours
LEMMA TakeCore == ASSUME Whole, TakeJob, Alone PROVE CoreInv'
<1>1. /\ UNCHANGED <<cur, notify, p5, p7, jobConn, resets, s6, s7, starts, born>> /\ s5' \in {s5, No5}
      /\ c' = c /\ inbox' = inbox /\ slot.pending /\ w.pc = "idle"
      /\ slot' = [slot EXCEPT !.pending = FALSE, !.active = TRUE]
  BY DEF TakeJob, Alone, control, history
<1>2. slot \in Slots /\ s5 \in S5 /\ s6 \in S6 /\ s7 \in S7 /\ s6.tx <= s6.rx /\ s7.tx <= s7.rx /\ slot.mode \in Modes
  BY <1>1, TypedParts DEF Whole, Inv, CountersOrdered, NamedJob
<1>3. /\ w'.mode = slot.mode /\ ~w'.ok /\ w'.pc = (IF Usable(slot) THEN slot.mode ELSE "done")
      /\ w'.root = Copied(slot).root /\ w'.tx = Copied(slot).tx /\ w'.rx = Copied(slot).rx
      /\ w'.seq = slot.seq /\ w'.good = slot.good
  BY <1>2, TakenWorker
<1>4. ~slot'.pending /\ slot'.active /\ slot'.mode = slot.mode
  BY <1>2, <1>1 DEF Slots
<1>5. /\ slot.mode \in Starts => w'.root = slot.root
      /\ slot.mode = "data6" /\ s6.active => w'.root = s6.root /\ w'.tx = s6.tx /\ w'.rx = s6.rx
      /\ slot.mode = "data6" /\ ~s6.active => w'.root = s5.root /\ w'.tx = 0 /\ w'.rx = 0
      /\ slot.mode \in {"finished5", "data5"} => w'.root = s5.root /\ w'.tx = 0
      /\ slot.mode \in {"finished7", "data7"} => w'.root = s7.root /\ w'.tx = s7.tx /\ w'.rx = s7.rx
  BY <1>2, <1>3, CopiedTyped
<1>6. /\ w'.pc \in Computing /\ w'.pc \notin Delivering \cup {"idle", "result"} /\ Working' /\ ~ToUs' /\ ~ToUs
      /\ w'.pc \in Modes => Usable(slot) /\ w'.pc = slot.mode
  BY <1>1, <1>2, <1>3, Places DEF Working, ToUs
<1>7. ASSUME c.root # 0, Usable(slot) \/ slot.mode \in Starts PROVE w'.root = c.root
  <2>1. CASE slot.mode \in Starts
    BY <1>1, <1>5, <1>7, <2>1, OwnMaterial DEF InSlot
  <2>2. CASE slot.mode \notin Starts
    <3>1. slot.mode \in {"finished5", "data5", "data6", "finished7", "data7"}
      BY <1>2, <2>2 DEF Modes, Starts, Jobs5, Jobs7
    <3>2. /\ slot.mode = "finished5" => s5.wait
          /\ slot.mode = "data5" => s5.ready
          /\ slot.mode = "data6" => s6.active \/ s5.ready
          /\ slot.mode = "finished7" => s7.wait
          /\ slot.mode = "data7" => s7.auth
      BY <1>7, <2>2, <3>1 DEF Usable, Starts
    <3> QED BY <1>5, <1>7, <3>1, <3>2, OwnMaterial DEF Ours
  <2> QED BY <2>1, <2>2
<1>8. inbox = <<>> /\ c.pc \notin Asking
  BY <1>1 DEF Whole, CoreInv, QueueInv, NoneUnderWay, JobHere
<1>9. Ours(s5)' => Ours(s5) /\ s5' = s5
  BY <1>1, ErasedNone DEF Ours
<1>10. ProcessLink'
  BY <1>1, <1>6, <1>7, ErasedNone DEF Whole, CoreInv, ProcessLink, HostFree
<1>11. JobInv'
  <2>1. jobConn # 0 /\ notify => c.root # 0 /\ (slot.mode \in Starts \/ Usable(slot))
    BY <1>1 DEF Whole, CoreInv, JobInv
  <2> QED BY <1>1, <1>3, <1>4, <1>6, <1>7, <2>1 DEF Whole, CoreInv, JobInv
<1>12. PhaseInv'
  <2>1. w'.pc \notin Steps7 \cup {"notify"}
    BY <1>6 DEF Steps7, Delivering
  <2> QED BY <1>1, <1>3, <1>4, <1>5, <2>1 DEF Whole, CoreInv, PhaseInv, InSlot, InWorker
<1>13. QueueInv' /\ AnswerInv'
  BY <1>1, <1>8 DEF Whole, CoreInv, QueueInv, AnswerInv
<1>14. FlowInv' /\ VouchInv'
  BY <1>1, <1>3, <1>4, <1>9 DEF Whole, CoreInv, FlowInv, VouchInv, Ours
<1>15. PlaneInv'
  BY <1>1, <1>9 DEF Whole, CoreInv, PlaneInv, Ours, Even, Untouched
<1>16. FrameInv'
  <2>1. ASSUME c.root # 0, w'.pc \in DataModes PROVE w'.rx = w'.tx
    <3>1. w'.pc \in Modes
      BY <2>1 DEF DataModes, Modes, Jobs5, Jobs7
    <3>2. Usable(slot) /\ slot.mode \in DataModes
      BY <1>6, <2>1, <3>1
    <3>3. (slot.mode = "data7" => s7.auth)
      BY <3>2 DEF Usable, Starts
    <3> QED BY <1>5, <2>1, <3>2, <3>3, OwnMaterial DEF DataModes, Whole, CoreInv, PlaneInv, Even
  <2>2. ~Told5'
    BY <1>3 DEF Told5
  <2>3. w'.pc \in Starts \cup {"finished5", "finished7"} \cup DataModes => w'.pc \in Modes
    BY DEF Modes, Starts, Jobs5, Jobs7, DataModes
  <2> QED BY <1>1, <1>3, <1>4, <1>6, <2>1, <2>2, <2>3
          DEF Whole, CoreInv, FrameInv, Untouched, CarriesTold, InSlot
<1>17. RefusedInv'
  <2>1. w'.pc \in {"finished5", "finished7", "data6"} => w'.pc \in Modes
    BY DEF Modes, Jobs5, Jobs7
  <2> QED BY <1>1, <1>3, <1>4, <1>6, <1>9, <2>1 DEF Whole, CoreInv, RefusedInv, Ours, InSlot
<1>18. EarnInv'
  BY <1>1 DEF Whole, CoreInv, EarnInv, JobHere, Ours
<1> QED BY <1>10, <1>11, <1>12, <1>13, <1>14, <1>15, <1>16, <1>17, <1>18 DEF CoreInv
(* A computation ends.  What it leaves in the session decides the rest. *)
Retains == UNCHANGED <<cur, notify, p5, p7, jobConn, resets, slot, starts, born>>
Ended == w'.pc = "done" /\ w'.mode = w.mode /\ w'.root = w.root /\ w'.tx = w.tx
LEMMA ComputedCore ==
    ASSUME Whole, Alone, w.pc \in Modes, Ended, Retains, c.root # 0 /\ w'.ok /\ w.mode \in DataModes => c.tx = w.tx + 1
    PROVE  /\ JobInv' /\ PhaseInv' /\ QueueInv' /\ AnswerInv' /\ FrameInv' /\ ~slot.pending /\ w.mode = w.pc
           /\ slot.active /\ Working' /\ Working /\ c' = c /\ UNCHANGED <<cur, notify, p5, p7, jobConn, resets, slot, starts, born>>
           /\ c.root # 0 => w.mode \in ModesOf(c.flow) /\ w.root = c.root
<1>1. c' = c /\ inbox' = inbox /\ UNCHANGED <<cur, notify, p5, p7, jobConn, resets, slot, starts, born>>
      /\ w'.pc = "done" /\ w'.mode = w.mode /\ w'.root = w.root /\ w'.tx = w.tx
  BY DEF Alone, Retains, Ended
<1>2. ~slot.pending /\ slot.active /\ w.mode = w.pc /\ w.pc \in Computing
  BY Places DEF Whole, Inv, Parts, OwnInv, SlotTaken
<1>3. Working /\ Working' /\ ~ToUs /\ ~ToUs' /\ w'.pc \notin Modes \cup Delivering \cup {"idle", "result"}
  BY <1>1, <1>2, Places DEF Working, ToUs
<1>4. inbox = <<>> /\ c.pc \notin Asking
  BY <1>2 DEF Whole, CoreInv, QueueInv, NoneUnderWay, JobHere
<1>5. JobInv'
  BY <1>1, <1>2, <1>3 DEF Whole, CoreInv, JobInv
<1>6. PhaseInv'
  BY <1>1, <1>2, <1>3 DEF Whole, CoreInv, PhaseInv, InSlot, InWorker, Working, Steps7
<1>7. QueueInv' /\ AnswerInv'
  BY <1>1, <1>4 DEF Whole, CoreInv, QueueInv, AnswerInv
<1>8. FrameInv'
  <2>1. w'.pc \notin Starts \cup {"finished5", "finished7"} \cup DataModes
    BY <1>3 DEF Modes, Starts, Jobs5, Jobs7, DataModes
  <2> QED BY <1>1, <1>2, <1>3, <2>1 DEF FrameInv, InSlot, CarriesTold, Told5
<1>9. c.root # 0 => w.mode \in ModesOf(c.flow) /\ w.root = c.root
  BY <1>3 DEF Whole, CoreInv, JobInv, ProcessLink
<1> QED BY <1>1, <1>2, <1>3, <1>5, <1>6, <1>7, <1>8, <1>9
(* What may be retained for a process. *)
Fits5 ==
    Ours(s5) => /\ c.flow \in Five /\ c.rx = 0 /\ c.tx <= 1 /\ (s5.wait => c.tx = 0)
                /\ s5.ready => c.vouched /\ ~(c.flow = "phase5" /\ c.neg \in {"finished-c", "transcript"})
Fits6 ==
    Ours(s6) => /\ c.flow \in SixFlows /\ c.vouched /\ c.neg # "c2p-tamper" /\ Even(s6)
                /\ c.pc = "cleanup" /\ c.verdict \in {"ok", "passed"} => s6.tx = c.tx
Fits7 ==
    Ours(s7) => /\ c.flow = "phase7" /\ (s7.pend \/ s7.auth => c.vouched /\ c.neg # "finished-c")
                /\ IF s7.auth THEN Even(s7) ELSE Untouched
FitRoots == c.root # 0 => {s5.root, s6.root, s7.root} \subseteq {0, c.root}
LEMMA FitNow == ASSUME Whole PROVE Fits5 /\ Fits6 /\ Fits7 /\ FitRoots
<1>1. Fits5
  BY DEF Whole, CoreInv, FlowInv, VouchInv, PlaneInv, RefusedInv, Fits5, Ours
<1>2. Fits6
  BY DEF Whole, CoreInv, FlowInv, VouchInv, PlaneInv, RefusedInv, EarnInv, Fits6, Ours
<1>3. Fits7
  BY DEF Whole, CoreInv, FlowInv, VouchInv, PlaneInv, RefusedInv, Fits7, Ours
<1> QED BY <1>1, <1>2, <1>3 DEF Whole, CoreInv, ProcessLink, FitRoots
LEMMA MaterialCore ==
    ASSUME Whole, Alone, w.pc \in Modes, Ended, Retains, c.root # 0 /\ w'.ok /\ w.mode \in DataModes => c.tx = w.tx + 1,
           Fits5', Fits6', Fits7', FitRoots'
    PROVE  CoreInv'
<1>1. /\ JobInv' /\ PhaseInv' /\ QueueInv' /\ AnswerInv' /\ FrameInv' /\ ~slot.pending /\ w.mode = w.pc
      /\ slot.active /\ Working' /\ Working /\ c' = c /\ UNCHANGED <<cur, notify, p5, p7, jobConn, resets, slot, starts, born>>
  BY ComputedCore
<1>2. w'.pc = "done" /\ w'.mode = w.mode /\ w'.pc \notin Modes
  BY Places DEF Ended
<1>3. ProcessLink'
  BY <1>1, <1>2 DEF Whole, CoreInv, ProcessLink, HostFree, FitRoots
<1>4. FlowInv'
  BY <1>1 DEF Whole, CoreInv, FlowInv, Fits5, Fits6, Fits7
<1>5. VouchInv'
  BY <1>1, <1>2 DEF Whole, CoreInv, VouchInv, Fits5, Fits6, Fits7
<1>6. PlaneInv'
  BY <1>1 DEF Whole, CoreInv, PlaneInv, Fits5, Fits6, Fits7
<1>7. RefusedInv'
  <2>1. w'.pc \notin {"finished5", "finished7", "data6"}
    BY <1>2
  <2> QED BY <1>1, <2>1 DEF RefusedInv, Fits5, Fits6, Fits7, InSlot
<1>8. EarnInv'
  BY <1>1 DEF Whole, CoreInv, EarnInv, JobHere, Fits6
<1> QED BY <1>1, <1>3, <1>4, <1>5, <1>6, <1>7, <1>8 DEF CoreInv
LEMMA EndedBy ==
    ASSUME Typed, NEW ok \in BOOLEAN, Done(ok)
    PROVE  Ended /\ w'.ok = ok
  BY DoneFields DEF Ended, Typed
LEMMA ComputeCore == ASSUME Whole, NEW crypto \in BOOLEAN, Compute(crypto), Alone PROVE CoreInv'
<1>1. w.pc \in {"diag", "secure", "cp2", "data5"} /\ Done(crypto) /\ UNCHANGED <<s5, s6, s7>> /\ Retains /\ c' = c
  BY DEF Compute, control, session, history, Retains, Alone
<1>2. w.pc \in Modes /\ w.mode = w.pc /\ w.mode \notin DataModes
  <2>1. w.pc \in Modes /\ w.pc \notin DataModes
    BY <1>1 DEF Modes, Starts, Jobs5, DataModes
  <2> QED BY <2>1 DEF Whole, Inv, Parts, OwnInv, SlotTaken
<1>3. Ended
  BY <1>1, EndedBy DEF Whole, Inv
<1>4. Fits5' /\ Fits6' /\ Fits7' /\ FitRoots'
  BY <1>1, FitNow DEF Fits5, Fits6, Fits7, FitRoots, Ours, Even, Untouched
<1> QED BY <1>1, <1>2, <1>3, <1>4, MaterialCore
LEMMA Start5Core == ASSUME Whole, NEW crypto \in BOOLEAN, Start5(crypto), Alone PROVE CoreInv'
<1>1. /\ w.pc = "start5" /\ Done(crypto /\ w.fresh) /\ UNCHANGED <<s6, s7>> /\ Retains /\ c' = c
      /\ s5' \in {s5, [wait |-> TRUE, ready |-> FALSE, root |-> w.root]}
  BY DEF Start5, control, session, history, Retains, Alone
<1>2. w.pc \in Modes /\ w.mode = "start5" /\ w.mode \notin DataModes
  <2>1. w.pc \in Modes /\ w.pc \notin DataModes
    BY <1>1 DEF Modes, Starts, Jobs5, DataModes
  <2> QED BY <1>1, <2>1 DEF Whole, Inv, Parts, OwnInv, SlotTaken
<1>3. Ended
  <2>1. (crypto /\ w.fresh) \in BOOLEAN
    OBVIOUS
  <2> QED BY <1>1, <2>1, EndedBy DEF Whole, Inv
<1>4. c.root # 0 => c.flow \in Five /\ w.root = c.root /\ Untouched
  <2>1. c.root # 0 => w.mode \in ModesOf(c.flow) /\ w.root = c.root
    BY <1>1, <1>2, <1>3, ComputedCore
  <2>2. c.root # 0 => Untouched
    BY <1>1 DEF Whole, CoreInv, FrameInv, Starts
  <2> QED BY <1>2, <2>1, <2>2, FlowModes DEF Keeps5
<1>5. Fits5' /\ Fits6' /\ Fits7' /\ FitRoots'
  BY <1>1, <1>4, FitNow DEF Fits5, Fits6, Fits7, FitRoots, Ours, Even, Untouched
<1> QED BY <1>1, <1>2, <1>3, <1>5, MaterialCore
LEMMA Start7Core == ASSUME Whole, NEW crypto \in BOOLEAN, Start7(crypto), Alone PROVE CoreInv'
<1>1. /\ w.pc = "start7" /\ Done(crypto /\ w.fresh) /\ UNCHANGED <<s5, s6>> /\ Retains /\ c' = c
      /\ s7' \in {s7, No7, [No7 EXCEPT !.wait = TRUE, !.root = w.root]}
  <2>1. w.fresh \in BOOLEAN
    BY Fields DEF Whole, Inv
  <2> QED BY <2>1 DEF Start7, control, session, history, Retains, Alone
<1>2. w.pc \in Modes /\ w.mode = "start7" /\ w.mode \notin DataModes
  <2>1. w.pc \in Modes /\ w.pc \notin DataModes
    BY <1>1 DEF Modes, Starts, Jobs5, DataModes
  <2> QED BY <1>1, <2>1 DEF Whole, Inv, Parts, OwnInv, SlotTaken
<1>3. Ended
  <2>1. (crypto /\ w.fresh) \in BOOLEAN
    OBVIOUS
  <2> QED BY <1>1, <2>1, EndedBy DEF Whole, Inv
<1>4. c.root # 0 => c.flow = "phase7" /\ w.root = c.root /\ Untouched
  <2>1. c.root # 0 => w.mode \in ModesOf(c.flow) /\ w.root = c.root
    BY <1>1, <1>2, <1>3, ComputedCore
  <2>2. c.root # 0 => Untouched
    BY <1>1 DEF Whole, CoreInv, FrameInv, Starts
  <2> QED BY <1>2, <2>1, <2>2, FlowModes DEF Jobs7
<1>5. s7' = s7 \/ s7' = No7 \/ (s7'.root = w.root /\ ~s7'.pend /\ ~s7'.auth)
  BY <1>1 DEF No7
<1>6. Fits5' /\ Fits6' /\ Fits7' /\ FitRoots'
  BY <1>1, <1>4, <1>5, FitNow, ErasedNone DEF Fits5, Fits6, Fits7, FitRoots, Ours, Even, Untouched
<1> QED BY <1>1, <1>2, <1>3, <1>6, MaterialCore
LEMMA Finished5Core == ASSUME Whole, NEW crypto \in BOOLEAN, Finished5(crypto), Alone PROVE CoreInv'
<1>1. /\ w.pc = "finished5" /\ UNCHANGED <<s6, s7>> /\ Retains /\ c' = c
  BY DEF Finished5, control, session, history, Retains, Alone
<1>2. w.pc \in Modes /\ w.mode = "finished5" /\ w.mode \notin DataModes /\ w.mode \notin Starts
  <2>1. w.pc \in Modes /\ w.pc \notin DataModes \cup Starts
    BY <1>1 DEF Modes, Starts, Jobs5, DataModes
  <2> QED BY <1>1, <2>1 DEF Whole, Inv, Parts, OwnInv, SlotTaken
<1>3. Ended
  <2>1. CASE \E ok \in BOOLEAN : Done(ok)
    BY <2>1, EndedBy DEF Whole, Inv
  <2>2. CASE w' = [w EXCEPT !.pc = "done", !.fresh = FALSE]
    BY <2>2 DEF Whole, Inv, Typed, Workers, Ended
  <2> QED BY <2>1, <2>2 DEF Finished5
<1>4. c.root # 0 => c.vouched /\ ~(c.flow = "phase5" /\ c.neg \in {"finished-c", "transcript"} /\ w.good)
  <2>1. Working
    BY <1>2, Places DEF Working
  <2> QED BY <1>1, <1>2, <2>1 DEF Whole, CoreInv, VouchInv, RefusedInv
<1>5. s5' = s5 \/ s5' = No5 \/ (w.good /\ s5'.root = s5.root /\ ~s5'.wait)
  <2>1. s5 \in S5
    BY TypedParts DEF Whole, Inv
  <2> QED BY <2>1 DEF Finished5, S5
<1>6. Fits5' /\ Fits6' /\ Fits7' /\ FitRoots'
  BY <1>1, <1>4, <1>5, FitNow, ErasedNone DEF Fits5, Fits6, Fits7, FitRoots, Ours, Even, Untouched
<1> QED BY <1>1, <1>2, <1>3, <1>6, MaterialCore
LEMMA Finished7Core == ASSUME Whole, NEW crypto \in BOOLEAN, Finished7(crypto), Alone PROVE CoreInv'
<1>1. /\ w.pc = "finished7" /\ UNCHANGED <<s5, s6>> /\ Retains /\ c' = c
  BY DEF Finished7, control, session, history, Retains, Alone
<1>2. w.pc \in Modes /\ w.mode = "finished7" /\ w.mode \notin DataModes /\ w.mode \notin Starts
  <2>1. w.pc \in Modes /\ w.pc \notin DataModes \cup Starts
    BY <1>1 DEF Modes, Starts, Jobs5, Jobs7, DataModes
  <2> QED BY <1>1, <2>1 DEF Whole, Inv, Parts, OwnInv, SlotTaken
<1>3. Ended
  BY EndedBy DEF Whole, Inv, Finished7
<1>4. c.root # 0 => c.vouched /\ ~(c.flow = "phase7" /\ c.neg = "finished-c" /\ w.good)
  <2>1. Working
    BY <1>2, Places DEF Working
  <2> QED BY <1>1, <1>2, <2>1 DEF Whole, CoreInv, VouchInv, RefusedInv
<1>5. s7' = s7 \/ (w.good /\ s7.wait /\ s7'.root = s7.root /\ s7'.auth = s7.auth)
  <2>1. s7 \in S7
    BY TypedParts DEF Whole, Inv
  <2> QED BY <2>1 DEF Finished7, S7
<1>6. s7.wait => ~s7.auth
  BY DEF Whole, Inv, Parts, ShapeInv, Whole7
<1>7. Fits5' /\ Fits6' /\ Fits7' /\ FitRoots'
  BY <1>1, <1>4, <1>5, <1>6, FitNow, ErasedNone DEF Fits5, Fits6, Fits7, FitRoots, Ours, Even, Untouched
<1> QED BY <1>1, <1>2, <1>3, <1>7, MaterialCore
(* An accepted frame is the one the Central numbered last. *)
LEMMA LastFrame ==
    ASSUME Whole, c.root # 0, w.pc \in DataModes, w.seq >= w.rx, w.tx \in {c.rx, c.tx} \/ (c.rx = 0 /\ c.tx <= 1)
    PROVE  w.seq = w.tx /\ c.tx = w.tx + 1 /\ w.seq \in Nat
<1>1. w.seq \in Nat /\ w.tx \in Nat /\ w.rx \in Nat /\ c.tx \in Nat /\ c.rx \in Nat
  BY MaterialTypes, ProcessTypes DEF Whole, Inv
<1>2. c.tx = w.seq + 1 /\ w.rx = w.tx /\ c.tx <= c.rx + 1
  BY DEF Whole, CoreInv, FrameInv, PlaneInv
<1> QED BY <1>1, <1>2
LEMMA Data6Core == ASSUME Whole, NEW crypto \in BOOLEAN, Data6(crypto), Alone PROVE CoreInv'
<1>1. /\ w.pc = "data6" /\ UNCHANGED s7 /\ Retains /\ c' = c
  BY DEF Data6, control, session, history, Retains, Alone
<1>2. w.pc \in Modes /\ w.mode = "data6" /\ w.mode \notin Starts /\ w.pc \in DataModes
  <2>1. w.pc \in Modes /\ w.pc \notin Starts /\ w.pc \in DataModes
    BY <1>1 DEF Modes, Starts, Jobs5, Jobs7, DataModes
  <2> QED BY <1>1, <2>1 DEF Whole, Inv, Parts, OwnInv, SlotTaken
<1>3. CASE Answers /\ crypto /\ w.fresh /\ (s6.active \/ s5.ready)
  <2>1. /\ Done(TRUE) /\ s5' = No5 /\ s6' = [s6 EXCEPT !.active = TRUE, !.root = w.root, !.rx = w.seq + 1, !.tx = w.tx + 1]
        /\ w.good /\ w.seq >= w.rx
    <3>1. Done(TRUE) /\ s5' = No5 /\ s6' = Advance([s6 EXCEPT !.active = TRUE, !.root = w.root])
      BY <1>3 DEF Data6
    <3>2. Advance([s6 EXCEPT !.active = TRUE, !.root = w.root]) =
              [s6 EXCEPT !.active = TRUE, !.root = w.root, !.rx = w.seq + 1, !.tx = w.tx + 1]
      BY DEF Advance
    <3> QED BY <1>3, <3>1, <3>2 DEF Answers
  <2>2. Ended /\ w'.ok
    BY <2>1, EndedBy DEF Whole, Inv
  <2>3. s6'.root = w.root /\ s6'.rx = w.seq + 1 /\ s6'.tx = w.tx + 1
    <3>1. s6 \in S6
      BY TypedParts DEF Whole, Inv
    <3> QED BY <2>1, <3>1 DEF S6
  <2>4. Working
    BY <1>2, Places DEF Working
  <2>5. ASSUME c.root # 0
        PROVE  /\ c.flow \in SixFlows /\ c.vouched /\ c.neg # "c2p-tamper" /\ w.root = c.root
               /\ w.seq = w.tx /\ c.tx = w.tx + 1
    <3>1. w.mode \in ModesOf(c.flow) /\ w.root = c.root
      BY <1>2, <2>4, <2>5 DEF Whole, CoreInv, JobInv, ProcessLink
    <3>2. c.flow \in SixFlows
      BY <1>2, <3>1, FlowModes
    <3>3. c.vouched
      BY <1>2, <2>4, <2>5 DEF Whole, CoreInv, VouchInv
    <3>4. c.neg # "c2p-tamper"
      BY <1>1, <2>1, <2>5, <3>2 DEF Whole, CoreInv, RefusedInv
    <3>5. \/ s6.active /\ w.root = s6.root /\ w.tx = s6.tx
          \/ s5.ready /\ w.root = s5.root
      BY <1>1, <1>3 DEF Whole, Inv, Parts, UseInv, Copies
    <3>6. w.tx \in {c.rx, c.tx} \/ (c.rx = 0 /\ c.tx <= 1)
      BY <2>5, <3>1, <3>5 DEF Whole, CoreInv, PlaneInv, Ours, Even
    <3> QED BY <1>2, <2>1, <2>5, <3>1, <3>2, <3>3, <3>4, <3>6, LastFrame
  <2>6. Fits6'
    BY <1>1, <2>3, <2>5 DEF Fits6, Ours, Even
  <2>7. Fits5' /\ Fits7' /\ FitRoots'
    BY <1>1, <2>1, <2>3, <2>5, FitNow, ErasedNone DEF Fits5, Fits7, FitRoots, Ours, Even, Untouched
  <2> QED BY <1>1, <1>2, <2>2, <2>5, <2>6, <2>7, MaterialCore
<1>4. CASE ~(Answers /\ crypto /\ w.fresh /\ (s6.active \/ s5.ready))
  <2>1. Done(FALSE) /\ UNCHANGED <<s5, s6>>
    BY <1>4 DEF Data6
  <2>2. Ended /\ ~w'.ok
    BY <2>1, EndedBy DEF Whole, Inv
  <2>3. Fits5' /\ Fits6' /\ Fits7' /\ FitRoots'
    BY <1>1, <2>1, FitNow DEF Fits5, Fits6, Fits7, FitRoots, Ours, Even, Untouched
  <2> QED BY <1>1, <1>2, <2>2, <2>3, MaterialCore
<1> QED BY <1>3, <1>4
LEMMA Data7Core == ASSUME Whole, NEW crypto \in BOOLEAN, Data7(crypto), Alone PROVE CoreInv'
<1>1. /\ w.pc = "data7" /\ UNCHANGED <<s5, s6>> /\ Retains /\ c' = c
  BY DEF Data7, control, session, history, Retains, Alone
<1>2. w.pc \in Modes /\ w.mode = "data7" /\ w.mode \notin Starts /\ w.pc \in DataModes
  <2>1. w.pc \in Modes /\ w.pc \notin Starts /\ w.pc \in DataModes
    BY <1>1 DEF Modes, Starts, Jobs5, Jobs7, DataModes
  <2> QED BY <1>1, <2>1 DEF Whole, Inv, Parts, OwnInv, SlotTaken
<1>3. CASE Answers /\ crypto /\ w.fresh /\ s7.auth
  <2>1. Done(TRUE) /\ s7' = [s7 EXCEPT !.rx = w.seq + 1, !.tx = w.tx + 1] /\ w.seq >= w.rx
    BY <1>3 DEF Data7, Advance, Answers
  <2>2. Ended /\ w'.ok
    BY <2>1, EndedBy DEF Whole, Inv
  <2>3. s7'.root = s7.root /\ s7'.rx = w.seq + 1 /\ s7'.tx = w.tx + 1 /\ s7'.auth /\ s7'.pend = s7.pend
    <3>1. s7 \in S7
      BY TypedParts DEF Whole, Inv
    <3> QED BY <1>3, <2>1, <3>1 DEF S7
  <2>4. Working
    BY <1>2, Places DEF Working
  <2>5. ASSUME c.root # 0 PROVE Ours(s7) /\ w.seq = w.tx /\ c.tx = w.tx + 1
    <3>1. Ours(s7)
      BY <1>3, <2>5, OwnMaterial
    <3>2. w.tx = s7.tx
      BY <1>1, <1>3 DEF Whole, Inv, Parts, UseInv, Copies
    <3>3. w.tx \in {c.rx, c.tx}
      BY <1>3, <3>1, <3>2 DEF Whole, CoreInv, PlaneInv, Even
    <3> QED BY <1>2, <2>1, <2>5, <3>1, <3>3, LastFrame
  <2>6. Fits7'
    BY <1>1, <1>3, <2>3, <2>5, FitNow DEF Fits7, Ours, Even
  <2>7. Fits5' /\ Fits6' /\ FitRoots'
    BY <1>1, <2>1, <2>3, FitNow DEF Fits5, Fits6, FitRoots, Ours, Even, Untouched
  <2> QED BY <1>1, <1>2, <2>2, <2>5, <2>6, <2>7, MaterialCore
<1>4. CASE ~(Answers /\ crypto /\ w.fresh /\ s7.auth)
  <2>1. Done(FALSE) /\ UNCHANGED s7
    BY <1>4 DEF Data7
  <2>2. Ended /\ ~w'.ok
    BY <2>1, EndedBy DEF Whole, Inv
  <2>3. Fits5' /\ Fits6' /\ Fits7' /\ FitRoots'
    BY <1>1, <2>1, FitNow DEF Fits5, Fits6, Fits7, FitRoots, Ours, Even, Untouched
  <2> QED BY <1>1, <1>2, <2>2, <2>3, MaterialCore
<1> QED BY <1>3, <1>4
(* The job is done, and its result reaches the link it was asked on. *)
LEMMA JobDoneCore == ASSUME Whole, JobDone, Alone PROVE CoreInv'
<1>1. /\ UNCHANGED <<cur, notify, p5, p7, jobConn, resets, s5, s6, s7, starts, born>> /\ c' = c /\ inbox' = inbox
      /\ w.pc = "done" /\ slot' = [slot EXCEPT !.active = FALSE]
  BY DEF JobDone, Alone, control, session, history
<1>2. /\ w'.pc = "result" /\ w'.mode = w.mode /\ w'.root = w.root /\ w'.tx = w.tx /\ (w'.ok => w.ok)
  BY DEF JobDone, Whole, Inv, Typed, Workers
<1>3. slot'.pending = slot.pending /\ ~slot.pending /\ slot.active
  <2>1. slot \in Slots
    BY DEF Whole, Inv, Typed
  <2> QED BY <1>1, <2>1, Places DEF Whole, Inv, Parts, OwnInv, SlotTaken, Slots
<1>4. Working /\ Working' /\ ~ToUs /\ ~ToUs' /\ w'.pc \notin Modes
  BY <1>1, <1>2, Places DEF Working, ToUs
<1>5. inbox = <<>> /\ c.pc \notin Asking
  BY <1>3 DEF Whole, CoreInv, QueueInv, NoneUnderWay, JobHere
<1>6. ProcessLink' /\ JobInv'
  BY <1>1, <1>2, <1>3, <1>4 DEF Whole, CoreInv, ProcessLink, JobInv, HostFree
<1>7. PhaseInv'
  BY <1>1, <1>2, <1>3, <1>4, Places DEF Whole, CoreInv, PhaseInv, InSlot, InWorker, Working, Steps7
<1>8. QueueInv' /\ AnswerInv'
  BY <1>1, <1>5 DEF Whole, CoreInv, QueueInv, AnswerInv
<1>9. FlowInv' /\ VouchInv' /\ PlaneInv'
  BY <1>1, <1>2, <1>3, <1>4 DEF Whole, CoreInv, FlowInv, VouchInv, PlaneInv, Ours, Even, Untouched
<1>10. FrameInv' /\ RefusedInv'
  <2>1. w'.pc \notin Starts \cup {"finished5", "finished7"} \cup DataModes
    BY <1>4 DEF Modes, Starts, Jobs5, Jobs7, DataModes
  <2> QED BY <1>1, <1>2, <1>3, <1>4, <2>1 DEF Whole, CoreInv, FrameInv, RefusedInv, InSlot, CarriesTold, Told5, Ours
<1>11. EarnInv'
  BY <1>1, <1>3 DEF Whole, CoreInv, EarnInv, JobHere, Ours
<1> QED BY <1>6, <1>7, <1>8, <1>9, <1>10, <1>11 DEF CoreInv
LEMMA ResultCore == ASSUME Whole, Result, Alone PROVE CoreInv'
<1> DEFINE current == jobConn # 0 /\ jobConn = cur /\ notify
<1>1. /\ UNCHANGED <<cur, notify, resets, s5, s6, s7, slot, starts, born>> /\ c' = c /\ inbox' = inbox
      /\ w.pc = "result" /\ jobConn' = 0 /\ p5' = Phase5After(current) /\ p7' = Phase7After(current)
      /\ w' = IF current THEN [w EXCEPT !.pc = "notify", !.conn = jobConn] ELSE Sleeping
  BY DEF Result, Alone, session, history
<1> HIDE DEF current
<1>2. /\ current => w'.pc = "notify" /\ w'.mode = w.mode /\ w'.root = w.root /\ w'.tx = w.tx /\ w'.ok = w.ok
      /\ ~current => w'.pc = "idle" /\ w'.mode = "none"
  BY <1>1 DEF Whole, Inv, Typed, Workers, Sleeping
<1>3. ~slot.pending /\ ~slot.active
  BY <1>1, Places DEF Whole, Inv, Parts, OwnInv, SlotTaken
<1>4. Working /\ ~Working' /\ w'.pc \notin Computing \cup {"result"} /\ w'.pc \notin Modes
  BY <1>1, <1>2, Places DEF Working, Delivering
<1>5. ToUs' => current
  BY <1>2, Places DEF ToUs
<1>6. current => c.root # 0 /\ w.mode \in ModesOf(c.flow) /\ w.root = c.root /\ cur # 0
  BY <1>4 DEF current, Whole, CoreInv, JobInv
<1>7. inbox = <<>> /\ c.pc \notin Asking
  BY <1>1 DEF Whole, CoreInv, QueueInv, NoneUnderWay, JobHere
<1>8. /\ p5' = p5 \/ p5' = "IDLE" \/ (current /\ c.flow \in Five)
      /\ p7' = p7 \/ p7' = "IDLE" \/ (current /\ c.flow = "phase7")
  <2>1. /\ current /\ w.mode \in {"data6", "start5", "finished5"} => c.flow \in Five
        /\ current /\ w.mode = "data7" => c.flow = "phase7"
    BY <1>6, FlowModes DEF Keeps5, Jobs7
  <2>2. p5' = p5 \/ p5' = "IDLE" \/ (current /\ c.flow \in Five)
    BY <1>1, <2>1 DEF Phase5After
  <2>3. p7' = p7 \/ p7' = "IDLE" \/ (current /\ c.flow = "phase7")
    BY <1>1, <2>1 DEF Phase7After
  <2> QED BY <2>2, <2>3
<1>9. ProcessLink'
  BY <1>1, <1>4, <1>6, <1>8 DEF Whole, CoreInv, ProcessLink, HostFree
<1>10. JobInv'
  BY <1>1, <1>2, <1>3, <1>4, <1>5, <1>6 DEF JobInv
<1>11. PhaseInv'
  <2>1. w'.pc \notin Steps7
    BY <1>2 DEF Steps7
  <2>2. ~InSlot(Jobs7)' /\ ~InWorker(Jobs7)'
    BY <1>1, <1>3, <1>4 DEF InSlot, InWorker
  <2>3. ToUs' /\ w'.mode \in {"start7", "finished7"} => p7' \notin Open7
    <3>1. ToUs' /\ w'.mode \in {"start7", "finished7"} => p7' = p7 /\ w.mode \in {"start7", "finished7"}
      BY <1>1, <1>2, <1>5 DEF Phase7After
    <3>2. w.mode \in {"start7", "finished7"} => p7 \notin Open7
      <4>1. w.mode \in {"start7", "finished7"} => InWorker(Jobs7)
        BY <1>1 DEF InWorker, Jobs7
      <4> QED BY <4>1 DEF Whole, CoreInv, PhaseInv
    <3> QED BY <3>1, <3>2
  <2> QED BY <1>2, <2>1, <2>2, <2>3 DEF Whole, CoreInv, PhaseInv
<1>12. QueueInv' /\ AnswerInv'
  BY <1>1, <1>7 DEF Whole, CoreInv, QueueInv, AnswerInv
<1>13. FlowInv'
  BY <1>1, <1>8 DEF Whole, CoreInv, FlowInv, Ours
<1>14. VouchInv' /\ PlaneInv'
  BY <1>1, <1>3, <1>4 DEF Whole, CoreInv, VouchInv, PlaneInv, Ours, Even, Untouched
<1>15. FrameInv' /\ RefusedInv'
  <2>1. w'.pc \notin Starts \cup {"finished5", "finished7"} \cup DataModes
    BY <1>4 DEF Modes, Starts, Jobs5, Jobs7, DataModes
  <2>2. CarriesTold' => CarriesTold /\ w'.tx = w.tx
    BY <1>1, <1>2, <1>4, <1>5 DEF CarriesTold, Told5
  <2>3. FrameInv'
    BY <1>1, <1>3, <2>1, <2>2 DEF Whole, CoreInv, FrameInv, InSlot
  <2>4. RefusedInv'
    BY <1>1, <1>3, <2>1 DEF Whole, CoreInv, RefusedInv, InSlot, Ours, DataModes
  <2> QED BY <2>3, <2>4
<1>16. EarnInv'
  BY <1>1, <1>3, <1>4 DEF Whole, CoreInv, EarnInv, JobHere, Ours
<1> QED BY <1>9, <1>10, <1>11, <1>12, <1>13, <1>14, <1>15, <1>16 DEF CoreInv
(* The notification.  What follows it: *)
LEMMA NotifyFields ==
    ASSUME Whole, NEW delivered \in BOOLEAN, Notify(delivered)
    PROVE  /\ UNCHANGED <<cur, notify, p5, p7, jobConn, resets, s5, s6, s7, slot, starts, born>> /\ w.pc = "notify"
           /\ w'.pc \notin Computing \cup {"result", "notify"} /\ ~slot.active
           /\ \/ w'.pc = "idle" /\ w'.mode = "none"
              \/ w'.pc \in Delivering /\ w'.mode = w.mode /\ w'.root = w.root /\ w'.tx = w.tx /\ w'.conn = w.conn
           /\ w'.pc \in {"idle", "reset5", "fail5"} \cup Steps7
           /\ w'.pc \in Steps7 => w.mode \in Jobs7
           /\ w'.pc \in Steps7 /\ delivered => w.mode \in {"start7", "finished7"}
           /\ delivered => w'.pc # "fail5"
           /\ w'.pc = "reset5" => ~w.ok /\ w.mode \in Keeps5
           /\ w.mode = "cp2" => w'.pc = "idle"
<1>1. /\ UNCHANGED <<cur, notify, p5, p7, jobConn, resets, s5, s6, s7, slot, starts, born>> /\ w.pc = "notify"
      /\ Goto(AfterNotify(delivered)) /\ w \in Workers
  BY DEF Notify, control, session, Whole, Inv, Typed
<1>2. PICK pc : pc = AfterNotify(delivered)
  OBVIOUS
<1>3. /\ pc \in {"idle", "fail7", "wait7", "commit7", "fail5", "reset5"}
      /\ pc \in {"fail7", "wait7", "commit7"} => w.mode \in Jobs7 /\ (delivered => w.mode \in {"start7", "finished7"})
      /\ delivered => pc # "fail5"
      /\ pc = "reset5" => ~w.ok /\ w.mode \in Keeps5
      /\ w.mode = "cp2" => pc = "idle"
  BY <1>2 DEF AfterNotify, Jobs7, Jobs5, Keeps5
<1>4. pc \in Delivering \cup {"idle"} /\ pc # "notify"
  BY <1>3 DEF Delivering
<1>5. \/ pc = "idle" /\ w'.pc = "idle" /\ w'.mode = "none"
      \/ /\ pc # "idle" /\ w'.pc = pc /\ w'.mode = w.mode /\ w'.root = w.root /\ w'.tx = w.tx /\ w'.conn = w.conn
  BY <1>1, <1>2, <1>4, GotoFields
<1>6. w'.pc = pc /\ pc \notin Computing \cup {"result", "notify"} /\ ~slot.active
  BY <1>1, <1>4, <1>5, Places DEF Whole, Inv, Parts, OwnInv, SlotTaken, Delivering
<1>7. pc \in Steps7 <=> pc \in {"fail7", "wait7", "commit7"}
  BY <1>3 DEF Steps7
<1>8. pc \in {"idle", "reset5", "fail5"} \cup Steps7
  BY <1>3, <1>7
<1> QED BY <1>1, <1>3, <1>4, <1>5, <1>6, <1>7, <1>8
(* All but the queue. *)
LEMMA NotifyCore ==
    ASSUME Whole, NEW delivered \in BOOLEAN, Notify(delivered), c' = c
    PROVE  /\ ProcessLink' /\ JobInv' /\ PhaseInv' /\ FlowInv' /\ VouchInv' /\ PlaneInv' /\ FrameInv' /\ RefusedInv'
           /\ EarnInv' /\ (slot.pending <=> JobHere') /\ (JobHere <=> JobHere')
<1>1. /\ UNCHANGED <<cur, notify, p5, p7, jobConn, resets, s5, s6, s7, slot, starts, born>> /\ w.pc = "notify"
      /\ w'.pc \notin Computing \cup {"result", "notify"} /\ ~slot.active
      /\ \/ w'.pc = "idle" /\ w'.mode = "none"
         \/ w'.pc \in Delivering /\ w'.mode = w.mode /\ w'.root = w.root /\ w'.tx = w.tx /\ w'.conn = w.conn
      /\ w'.pc \in Steps7 => w.mode \in Jobs7
  BY NotifyFields
<1>2. w'.pc \notin Modes /\ ~Working' /\ w'.pc \notin {"done", "result", "notify"}
  BY <1>1, Places DEF Working
<1>3. ToUs' => ToUs /\ w'.mode = w.mode /\ w'.root = w.root
  <2>1. w.pc \in Delivering
    BY <1>1 DEF Delivering
  <2> QED BY <1>1, <2>1, Places DEF ToUs
<1>4. ProcessLink'
  BY <1>1, <1>2 DEF Whole, CoreInv, ProcessLink, HostFree
<1>5. JobInv'
  BY <1>1, <1>2, <1>3 DEF Whole, CoreInv, JobInv
<1>6. PhaseInv'
  <2>1. w'.pc \in Steps7 => w'.mode \in Jobs7
    BY <1>1 DEF Steps7
  <2> QED BY <1>1, <1>2, <2>1 DEF Whole, CoreInv, PhaseInv, InSlot, InWorker
<1>7. FlowInv' /\ VouchInv' /\ PlaneInv'
  BY <1>1, <1>2 DEF Whole, CoreInv, FlowInv, VouchInv, PlaneInv, Ours, Even, Untouched
<1>8. w'.pc \notin Starts \cup {"finished5", "finished7"} \cup DataModes
  BY <1>2 DEF Modes, Starts, Jobs5, Jobs7, DataModes
<1>9. FrameInv'
  BY <1>1, <1>2, <1>8 DEF Whole, CoreInv, FrameInv, InSlot, CarriesTold, Told5, Untouched
<1>10. RefusedInv'
  BY <1>1, <1>8 DEF Whole, CoreInv, RefusedInv, InSlot, Ours, DataModes
<1>11. EarnInv' /\ (slot.pending <=> JobHere') /\ (JobHere <=> JobHere')
  BY <1>1, <1>2 DEF Whole, CoreInv, EarnInv, JobHere, Ours
<1> QED BY <1>4, <1>5, <1>6, <1>7, <1>9, <1>10, <1>11
(* The queue of the process gets its first entry. *)
LEMMA Queued ==
    ASSUME Whole, w.pc = "notify", w.conn = cur, NEW m \in Messages, inbox' = Append(inbox, m)
    PROVE  /\ inbox' # <<>> /\ Len(inbox') = 1 /\ inbox'[1] = m /\ ToUs /\ cur # 0 /\ c.pc \notin Asking \cup {"exit"}
           /\ c.root # 0 /\ w.mode \in ModesOf(c.flow) /\ w.root = c.root /\ ~slot.pending
<1>1. ToUs /\ cur # 0
  BY DEF ToUs, Delivering, Whole, Inv, Parts, OwnInv, DeliversTo
<1>2. c.root # 0 /\ w.mode \in ModesOf(c.flow) /\ w.root = c.root /\ ~slot.pending
  BY <1>1 DEF Whole, CoreInv, JobInv
<1>3. inbox = <<>> /\ c.pc \notin Asking
  BY <1>1 DEF Whole, CoreInv, QueueInv, NoneUnderWay
<1>4. c.pc # "exit"
  BY <1>1 DEF Whole, CoreInv, ProcessLink
<1>5. inbox' # <<>> /\ Len(inbox') = 1 /\ inbox'[1] = m
  <2>1. <<>> \in Seq(Messages) /\ inbox' = Append(<<>>, m)
    BY <1>3
  <2>2. Append(<<>>, m) \in Seq(Messages) /\ Len(Append(<<>>, m)) = 1 /\ Append(<<>>, m)[1] = m
    OBVIOUS
  <2> QED BY <2>1, <2>2
<1> QED BY <1>1, <1>2, <1>3, <1>4, <1>5
(* What an answer says. *)
LEMMA AnswerSays ==
    ASSUME w \in Workers, w.mode \in Modes
    PROVE  /\ Answer.type = "PONG" => w.ok /\ w.mode \in DataModes /\ Answer.seq = w.tx
           /\ Answer.type = "DATA5" => w.ok /\ w.mode = "data5" /\ Answer.seq = w.tx
           /\ ~w.ok => Answer.type = "ERROR"
<1>1. /\ Reply[w.mode] = "PONG" => w.mode \in DataModes
      /\ Reply[w.mode] = "DATA5" => w.mode = "data5"
  BY DEF Reply, Modes, Starts, Jobs5, Jobs7, DataModes
<1>2. CASE w.ok
  BY <1>1, <1>2 DEF Answer
<1>3. CASE ~w.ok
  BY <1>3 DEF Answer
<1> QED BY <1>2, <1>3
LEMMA DeliversCore == ASSUME Whole, Delivers PROVE CoreInv'
<1>1. Notify(TRUE) /\ c' = c /\ inbox' = Append(inbox, Answer) /\ w.pc = "notify" /\ w.conn = cur
  BY DEF Delivers, Notify
<1>2. w \in Workers /\ w.mode \in Modes
  BY <1>1 DEF Whole, Inv, Typed, Parts, OwnInv, SlotTaken, Workers
<1>3. Answer \in Messages /\ Answer.root = w.root
  BY <1>2, AnswerTyped
<1>4. PICK m \in Messages : m = Answer
  BY <1>3
<1>5. /\ inbox' # <<>> /\ Len(inbox') = 1 /\ inbox'[1] = m /\ ToUs /\ cur # 0 /\ c.pc \notin Asking \cup {"exit"}
      /\ c.root # 0 /\ w.mode \in ModesOf(c.flow) /\ w.root = c.root /\ ~slot.pending
  BY <1>1, <1>4, Queued
<1>6. /\ ProcessLink' /\ JobInv' /\ PhaseInv' /\ FlowInv' /\ VouchInv' /\ PlaneInv' /\ FrameInv' /\ RefusedInv'
      /\ EarnInv' /\ ~JobHere'
  BY <1>1, <1>5, NotifyCore
<1>7. /\ UNCHANGED <<cur, p7, s5, s6, s7>> /\ w'.pc # "notify"
      /\ \/ w'.pc = "idle"
         \/ w'.pc \in Delivering /\ w'.conn = w.conn
      /\ w'.pc \in {"idle", "reset5"} \cup Steps7
      /\ w'.pc \in Steps7 => w.mode \in {"start7", "finished7"}
      /\ w'.pc = "reset5" => ~w.ok /\ w.mode \in Keeps5
  BY <1>1, NotifyFields
<1>8. QueueInv'
  <2>1. NoneUnderWay'
    BY <1>6, <1>7 DEF NoneUnderWay
  <2>2. Settled' \/ (m.type = "ERROR" /\ c.flow \in Five)
    <3>1. CASE w'.pc = "idle"
      BY <3>1 DEF Settled
    <3>2. CASE w'.pc = "reset5"
      BY <1>2, <1>4, <1>5, <1>7, <3>2, AnswerSays, FlowModes
    <3>3. CASE w'.pc \in Steps7
      <4>1. c.flow = "phase7" /\ p7 \notin Open7
        BY <1>1, <1>5, <1>7, <3>3, FlowModes DEF Whole, CoreInv, PhaseInv, Jobs7
      <4>2. ToUs'
        BY <1>1, <1>7, <3>3 DEF ToUs, Steps7
      <4> QED BY <1>1, <1>7, <3>3, <4>1, <4>2 DEF Settled
    <3> QED BY <1>7, <3>1, <3>2, <3>3
  <2> QED BY <1>1, <1>3, <1>4, <1>5, <2>1, <2>2 DEF QueueInv
<1>9. AnswerInv'
  <2>1. ASSUME m.type = "PONG"
        PROVE  /\ c.tx = m.seq + 1 /\ ~Ours(s5)
               /\ Ours(s6) => s6.tx = c.tx
               /\ Ours(s7) => s7.auth /\ s7.tx = c.tx
    <3>1. w.ok /\ w.mode \in DataModes /\ m.seq = w.tx
      BY <1>2, <1>4, <2>1, AnswerSays
    <3>2. Told5 /\ CarriesTold
      BY <1>1, <1>5, <3>1 DEF Told5, CarriesTold
    <3>3. c.tx = w.tx + 1
      BY <1>5, <3>2 DEF Whole, CoreInv, FrameInv
    <3>4. CASE w.mode = "data6"
      <4>1. c.flow \in SixFlows /\ c.flow # "phase7"
        BY <1>5, <3>4, FlowModes DEF SixFlows
      <4>2. s5 = No5 /\ (s6 = No6 \/ (s6.root = w.root /\ s6.tx = w.tx + 1))
        BY <3>2, <3>4 DEF Whole, Inv, Parts, UseInv, Accounted
      <4> QED BY <3>1, <3>3, <4>1, <4>2, ErasedNone DEF Ours, Whole, CoreInv, FlowInv
    <3>5. CASE w.mode = "data7"
      <4>1. c.flow = "phase7" /\ c.flow \notin Five \cup SixFlows
        BY <1>5, <3>5, FlowModes DEF SixFlows, Five, Jobs7
      <4>2. s7 = No7 \/ (s7.auth /\ s7.root = w.root /\ s7.tx = w.tx + 1)
        BY <3>2, <3>5 DEF Whole, Inv, Parts, UseInv, Accounted
      <4> QED BY <3>1, <3>3, <4>1, <4>2, ErasedNone DEF Ours, Whole, CoreInv, FlowInv
    <3> QED BY <3>1, <3>4, <3>5 DEF DataModes
  <2>2. ASSUME m.type = "DATA5" PROVE m.seq = 0 /\ ~Ours(s5)
    <3>1. w.ok /\ w.mode = "data5" /\ m.seq = w.tx
      BY <1>2, <1>4, <2>2, AnswerSays
    <3>2. w.tx = 0
      BY <3>1 DEF Whole, CoreInv, PhaseInv
    <3>3. s5 = No5
      BY <1>1, <3>1 DEF Whole, Inv, Parts, EraseInv, Consumed, Told5, Empty5
    <3> QED BY <3>1, <3>2, <3>3, ErasedNone DEF Ours
  <2> QED BY <1>1, <1>5, <1>7, <2>1, <2>2 DEF AnswerInv, Ours
<1> QED BY <1>6, <1>8, <1>9 DEF CoreInv
LEMMA DeliveryFailsCore == ASSUME Whole, DeliveryFails PROVE CoreInv'
<1>1. /\ Notify(FALSE) /\ c' = c /\ w.pc = "notify"
      /\ \/ inbox' = inbox
         \/ /\ w.mode = "cp2" /\ w.conn = cur
            /\ inbox' = Append(inbox, [type |-> "ERROR", root |-> w.root, seq |-> 0, label |-> 0,
                                       status |-> SECURE_CHANNEL_FAILURE])
  BY DEF DeliveryFails, Notify
<1>2. /\ ProcessLink' /\ JobInv' /\ PhaseInv' /\ FlowInv' /\ VouchInv' /\ PlaneInv' /\ FrameInv' /\ RefusedInv'
      /\ EarnInv' /\ (slot.pending <=> JobHere') /\ (JobHere <=> JobHere')
  BY <1>1, NotifyCore
<1>3. UNCHANGED <<cur, p7, s5, s6, s7>> /\ w'.pc # "notify" /\ (w.mode = "cp2" => w'.pc = "idle")
  BY <1>1, NotifyFields
<1>4. CASE inbox' = inbox
  <2>1. NoneUnderWay => NoneUnderWay' /\ ~Settled
    BY <1>1, <1>2, <1>3 DEF NoneUnderWay, Settled, Steps7
  <2>2. QueueInv'
    BY <1>1, <1>3, <1>4, <2>1 DEF Whole, CoreInv, QueueInv
  <2>3. AnswerInv'
    BY <1>1, <1>3, <1>4 DEF Whole, CoreInv, AnswerInv, Ours
  <2> QED BY <1>2, <2>2, <2>3 DEF CoreInv
<1>5. CASE inbox' # inbox
  <2>1. PICK m : m = [type |-> "ERROR", root |-> w.root, seq |-> 0, label |-> 0, status |-> SECURE_CHANNEL_FAILURE]
    OBVIOUS
  <2>2. w.mode = "cp2" /\ w.conn = cur /\ inbox' = Append(inbox, m)
    BY <1>1, <1>5, <2>1
  <2>3. m \in Messages /\ m.root = w.root /\ m.type = "ERROR"
    <3>1. w.root \in Roots /\ 0 \in Counted /\ 0 \in Seqs
      BY Zero DEF Whole, Inv, Typed, Workers
    <3> QED BY <2>1, <3>1 DEF Messages, SECURE_CHANNEL_FAILURE
  <2>4. /\ inbox' # <<>> /\ Len(inbox') = 1 /\ inbox'[1] = m /\ ToUs /\ cur # 0 /\ c.pc \notin Asking \cup {"exit"}
        /\ c.root # 0 /\ w.mode \in ModesOf(c.flow) /\ w.root = c.root /\ ~slot.pending
    BY <1>1, <2>2, <2>3, Queued
  <2>5. NoneUnderWay' /\ Settled'
    BY <1>2, <1>3, <2>2, <2>4 DEF NoneUnderWay, Settled
  <2>6. QueueInv' /\ AnswerInv'
    BY <1>1, <2>3, <2>4, <2>5 DEF QueueInv, AnswerInv
  <2> QED BY <1>2, <2>6 DEF CoreInv
<1> QED BY <1>4, <1>5
-----------------------------------------------------------------------------
LEMMA ComputesCore == ASSUME Whole, NEW crypto \in BOOLEAN, WorkerComputes(crypto) PROVE CoreInv'
<1>1. Alone
  BY DEF WorkerComputes, Alone
<1> QED BY <1>1, ComputeCore, Start5Core, Start7Core, Finished5Core, Finished7Core, Data6Core, Data7Core DEF WorkerComputes
LEMMA PeripheralCore == ASSUME Whole, PeripheralNext \/ WorkerComputes(FALSE) PROVE CoreInv'
<1>1. CASE WorkerMoves
  <2>1. Alone
    BY <1>1 DEF WorkerMoves, Alone, central
  <2> QED BY <1>1, <2>1, TakeCore, JobDoneCore, ResultCore, PhaseStepCore, CommitCore, WorkerResetsCore DEF WorkerMoves
<1>2. CASE HostFinishes
  BY <1>2, HostResetsCore DEF HostFinishes, Alone, central
<1>3. CASE Delivers \/ DeliveryFails
  BY <1>3, DeliversCore, DeliveryFailsCore
<1>4. CASE \E crypto \in BOOLEAN : WorkerComputes(crypto)
  BY <1>4, ComputesCore
<1> QED BY <1>1, <1>2, <1>3, <1>4 DEF PeripheralNext
LEMMA UnchangedCore == ASSUME Whole, UNCHANGED system PROVE ProcessInv' /\ CoreInv'
<1>1. c' = c /\ inbox' = inbox /\ runs' = runs /\ faults' = faults /\ Still
  <2>1. UNCHANGED vars /\ UNCHANGED central
    BY DEF system
  <2> QED BY <2>1, VarsStill DEF central
<1>2. UNCHANGED <<cur, notify, p5, p7, jobConn, resets, s5, s6, s7, slot, w, starts, born>>
  BY <1>1 DEF Still
<1>3. CounterInv'
  BY <1>1 DEF Whole, ProcessInv, CounterInv, NoTraffic, Untouched, Between, Sent, Got, AllRounds, Goal, HandshakeTest
<1>4. StandingInv'
  BY <1>1 DEF Whole, ProcessInv, StandingInv, NoTraffic, Untouched, AllRounds, Goal, HandshakeTest
<1>5. ProcessInv'
  BY <1>1, <1>3, <1>4 DEF Whole, ProcessInv
<1>6. ProcessLink' /\ JobInv'
  BY <1>1, <1>2 DEF Whole, CoreInv, ProcessLink, JobInv, HostFree, Working, ToUs, Usable
<1>7. PhaseInv' /\ QueueInv'
  BY <1>1, <1>2 DEF Whole, CoreInv, PhaseInv, QueueInv, InSlot, InWorker, ToUs, NoneUnderWay, JobHere, Settled
<1>8. FlowInv' /\ VouchInv' /\ RefusedInv'
  BY <1>1, <1>2 DEF Whole, CoreInv, FlowInv, VouchInv, RefusedInv, Ours, Working, InSlot
<1>9. PlaneInv' /\ AnswerInv' /\ EarnInv'
  BY <1>1, <1>2 DEF Whole, CoreInv, PlaneInv, AnswerInv, EarnInv, Ours, Even, Untouched, JobHere
<1>10. FrameInv'
  BY <1>1, <1>2 DEF Whole, CoreInv, FrameInv, Untouched, CarriesTold, Told5, Working, ToUs, InSlot
<1> QED BY <1>5, <1>6, <1>7, <1>8, <1>9, <1>10 DEF CoreInv
LEMMA CoreInit == CentralInit => CoreInv
<1> SUFFICES ASSUME CentralInit PROVE CoreInv
  OBVIOUS
<1>1. /\ cur = 0 /\ notify = FALSE /\ p5 = "IDLE" /\ p7 = "IDLE" /\ jobConn = 0 /\ slot = NoJob /\ w = Sleeping
      /\ c = NoProcess /\ inbox = <<>>
  BY DEF CentralInit, Init
<1>2. c.pc = "exit" /\ c.root = 0 /\ c.tx = 0 /\ c.rx = 0 /\ c.flow = "none"
  BY <1>1 DEF NoProcess
<1>3. w.pc = "idle" /\ w.mode = "none" /\ ~slot.pending /\ ~ToUs /\ ~Working
  BY <1>1, Places DEF Sleeping, NoJob, ToUs, Working
<1>4. ProcessLink /\ JobInv /\ QueueInv /\ FlowInv /\ VouchInv /\ FrameInv /\ AnswerInv /\ RefusedInv /\ EarnInv
  BY <1>1, <1>2, <1>3
     DEF ProcessLink, JobInv, QueueInv, FlowInv, VouchInv, FrameInv, AnswerInv, RefusedInv, EarnInv, Ours, Asking
<1>5. PhaseInv
  BY <1>3, Places DEF PhaseInv, InSlot, InWorker, Steps7, Working
<1>6. PlaneInv
  BY <1>2 DEF PlaneInv, Ours
<1> QED BY <1>4, <1>5, <1>6 DEF CoreInv
LEMMA WholeStep == ASSUME Whole, [CentralNext]_system PROVE Whole' /\ [Next]_vars
<1>1. BaseInv /\ SlotTaken
  BY DEF Whole, Inv, Parts, OwnInv, BaseInv
<1>2. /\ ProcessInv'
      /\ ProcessStep \/ PeripheralNext \/ WorkerComputes(FALSE) \/ UNCHANGED system
  <2>1. CASE CentralNext
    BY <1>1, <2>1, StepKinds
  <2>2. CASE UNCHANGED system
    BY <2>2, UnchangedCore
  <2> QED BY <2>1, <2>2
<1>3. [Next]_vars
  BY <1>1, <1>2, PeripheralOwn
<1>4. Inv'
  BY <1>3, SessionStep DEF Whole
<1>5. CoreInv'
  BY <1>2, ProcessCore, PeripheralCore, UnchangedCore
<1> QED BY <1>2, <1>3, <1>4, <1>5 DEF Whole
LEMMA WholeStart == CentralInit => Whole
  BY CentralStart, CoreInit DEF Whole

(* Whatever the processes, the link and the worker do, the Peripheral keeps *)
(* its invariant, every process is where its flow may be, and the jobs,     *)
(* material, counters and answers of both ends belong together.             *)
THEOREM TogetherSafe == CentralSpec => []Whole
<1>1. Whole /\ [CentralNext]_system => Whole'
  BY WholeStep
<1> QED BY <1>1, WholeStart, PTL DEF CentralSpec

(* The Peripheral of the composed system is the Peripheral of V07Session:   *)
(* every run with the Central's flows is a run of the Peripheral alone, so  *)
(* what is proved of it there holds here.                                   *)
THEOREM PeripheralEmbedded == CentralSpec => Spec
<1>1. CentralInit => Init
  BY DEF CentralInit
<1>2. Whole /\ [CentralNext]_system => [Next]_vars
  BY WholeStep
<1> QED BY <1>1, <1>2, TogetherSafe, PTL DEF CentralSpec, Spec

(* Every notification a process finds in its queue answers its own START,   *)
(* whatever jobs and links earlier processes left behind.                   *)
THEOREM OwnAnswersSafe == CentralSpec => []OwnAnswers
<1>1. Whole => OwnAnswers
  <2> SUFFICES ASSUME Whole, NEW i \in 1 .. Len(inbox) PROVE inbox[i].root = c.root
    BY DEF OwnAnswers
  <2>1. inbox \in Seq(Messages) /\ Len(inbox) \in Nat
    BY ProcessTypes
  <2>2. inbox # <<>>
    BY <2>1, EmptySeq
  <2>3. Len(inbox) = 1 /\ inbox[1].root = c.root
    BY <2>2 DEF Whole, CoreInv, QueueInv
  <2> QED BY <2>3
<1> QED BY <1>1, TogetherSafe, PTL

(* Types; the data planes of both ends stay in step, with at most one round *)
(* open; and the Peripheral activates keys only for a handshake whose SAS   *)
(* the user of the Central confirmed.                                       *)
THEOREM CentralSafe == CentralSpec => []CentralInv
<1>1. ASSUME Whole PROVE CentralTypeOK
  <2>1. /\ c.flow \in Flows \cup {"none"} /\ c.root \in 0 .. MaxStarts /\ c.round \in 0 .. Rounds
        /\ c.tx \in 0 .. Rounds /\ c.verdict \in {"none", "ok", "passed", "error"}
        /\ runs \in 0 .. MaxRuns /\ faults \in 0 .. MaxFaults
    BY <1>1 DEF Whole, ProcessInv, ProcessSet, Roots
  <2>2. c.tx \in Nat /\ c.rx \in Nat /\ Rounds \in Nat /\ Rounds >= 1
    BY <1>1, ProcessTypes, Bounds
  <2>3. c.rx <= c.tx \/ c.rx <= 1
    BY <1>1 DEF Whole, CoreInv, PlaneInv
  <2>4. c.rx \in 0 .. Rounds
    BY <2>1, <2>2, <2>3
  <2>5. Len(inbox) <= 2
    <3>1. inbox = <<>> => Len(inbox) = 0
      OBVIOUS
    <3>2. inbox # <<>> => Len(inbox) = 1
      BY <1>1 DEF Whole, CoreInv, QueueInv
    <3> QED BY <3>1, <3>2
  <2> QED BY <2>1, <2>4, <2>5 DEF CentralTypeOK
<1>2. ASSUME Whole PROVE PlanesInStep
  <2>1. c.tx \in Nat /\ c.rx \in Nat /\ c.tx <= c.rx + 1
    BY <1>2, ProcessTypes DEF Whole, CoreInv, PlaneInv
  <2>2. ASSUME c.root # 0, s7.auth, s7.root = c.root PROVE InStep(s7)
    <3>1. Ours(s7) /\ c.flow = "phase7"
      BY <1>2, <2>2 DEF Ours, Whole, CoreInv, FlowInv
    <3> QED BY <1>2, <2>1, <2>2, <3>1 DEF Whole, CoreInv, PlaneInv, Even, InStep
  <2>3. ASSUME c.root # 0, s6.root = c.root PROVE InStep(s6)
    <3>1. Ours(s6) /\ c.flow \in SixFlows
      BY <1>2, <2>3 DEF Ours, Whole, CoreInv, FlowInv
    <3> QED BY <1>2, <2>1, <3>1 DEF Whole, CoreInv, PlaneInv, Even, InStep
  <2> QED BY <2>2, <2>3 DEF PlanesInStep
<1>3. ASSUME Whole PROVE UserVouched
  BY <1>3 DEF Whole, CoreInv, VouchInv, Ours, UserVouched
<1>4. Whole => CentralInv
  BY <1>1, <1>2, <1>3 DEF CentralInv
<1> QED BY <1>4, TogetherSafe, PTL

(* Exit status zero is earned, whatever was disturbed: a positive run       *)
(* carried every round, a negative test of the handshake left the           *)
(* Peripheral unauthenticated, and a refused frame moved no counter of it.  *)
THEOREM ZeroEarned == CentralSpec => []ZeroIsEarned
<1>1. ASSUME Whole, c.pc = "cleanup", ExitZero
      PROVE  /\ c.flow \in {"phase6", "phase7"} /\ c.neg = "none" => c.tx = Rounds /\ c.rx = Rounds
             /\ c.neg \in {"sas-reject", "transcript", "finished-c"} =>
                    c.root # s6.root /\ ~(s5.ready /\ s5.root = c.root) /\ ~(s7.auth /\ s7.root = c.root)
             /\ s7.auth /\ s7.root = c.root => s7.rx = Rounds /\ s7.tx = Rounds
             /\ s6.active /\ s6.root = c.root => s6.rx = c.tx /\ s6.tx = c.tx
  <2>1. c.verdict \in {"ok", "passed"} /\ (c.flow = "phase7" /\ c.neg = "none" => c.verdict = "ok")
    BY <1>1 DEF ExitZero, Phase2Exit, Phase3Exit, Phase5Exit, Phase6Exit, Phase6C2pExit, HybridExit, Phase7Exit
  <2>2. /\ c.neg # "pre-auth" => c.root # 0
        /\ c.flow = "phase7" => IF HandshakeTest THEN NoTraffic ELSE AllRounds
        /\ c.flow \in SixFlows /\ c.verdict = "ok" => c.tx = Goal /\ c.rx = Goal
        /\ c.flow \in SixFlows /\ c.verdict = "passed" => c.neg # "none"
        /\ c.vouched => c.neg # "sas-reject"
        /\ c.neg = "sas-reject" => c.flow = "phase7"
        /\ c.neg = "transcript" => c.flow = "phase5"
        /\ c.neg = "finished-c" => c.flow \in {"phase5", "phase7"}
    BY <1>1, <2>1 DEF Whole, ProcessInv, StandingInv
  <2>3. c.flow \in {"phase6", "phase7"} /\ c.neg = "none" => c.tx = Rounds /\ c.rx = Rounds
    BY <2>1, <2>2 DEF HandshakeTest, AllRounds, Goal, SixFlows
  <2>4. ASSUME c.neg \in {"sas-reject", "transcript", "finished-c"}
        PROVE  c.root # 0 /\ ~Ours(s6) /\ (Ours(s5) => ~s5.ready) /\ (Ours(s7) => ~s7.auth)
    <3>1. c.root # 0
      BY <2>2, <2>4
    <3>2. CASE c.neg = "sas-reject"
      BY <1>1, <2>2, <3>1, <3>2 DEF Whole, CoreInv, VouchInv
    <3>3. CASE c.neg \in {"transcript", "finished-c"} /\ c.flow = "phase5"
      BY <1>1, <3>1, <3>3 DEF Whole, CoreInv, FlowInv, RefusedInv, SixFlows
    <3>4. CASE c.neg = "finished-c" /\ c.flow = "phase7"
      BY <1>1, <3>1, <3>4 DEF Whole, CoreInv, FlowInv, RefusedInv, SixFlows, Five
    <3> QED BY <2>2, <2>4, <3>2, <3>3, <3>4
  <2>5. ASSUME s7.auth, s7.root = c.root PROVE s7.rx = Rounds /\ s7.tx = Rounds
    <3>1. Ours(s7)
      BY <1>1, <2>5 DEF Ours, Whole, Inv, Parts, ShapeInv, Whole7
    <3>2. c.flow = "phase7" /\ Even(s7)
      BY <1>1, <2>5, <3>1 DEF Whole, CoreInv, FlowInv, PlaneInv
    <3>3. AllRounds
      BY <2>2, <2>4, <2>5, <3>1, <3>2 DEF HandshakeTest
    <3> QED BY <3>2, <3>3 DEF Even, AllRounds
  <2>6. ASSUME s6.active, s6.root = c.root PROVE s6.rx = c.tx /\ s6.tx = c.tx
    <3>1. Ours(s6)
      BY <1>1, <2>6 DEF Ours, Whole, Inv, Parts, ShapeInv, Whole5
    <3>2. c.flow \in SixFlows /\ Even(s6)
      BY <1>1, <3>1 DEF Whole, CoreInv, FlowInv, PlaneInv
    <3> QED BY <1>1, <2>1, <3>1, <3>2 DEF Even, Whole, CoreInv, EarnInv
  <2> QED BY <2>3, <2>4, <2>5, <2>6 DEF Ours
<1>2. Whole => ZeroIsEarned
  BY <1>1 DEF ZeroIsEarned
<1> QED BY <1>2, TogetherSafe, PTL
=============================================================================
