-------------------------- MODULE V07SessionProofs --------------------------
(***************************************************************************)
(* The application protocols of the v0.7 build on the Peripheral, for every *)
(* number of labels, connections and START commands: whatever the host      *)
(* callback still owes and whatever the worker delivers late, the session   *)
(* keeps material of this link only, and no key is used twice.              *)
(***************************************************************************)
EXTENDS V07Session, SequenceTheorems, TLAPS

-----------------------------------------------------------------------------
(* Types of what V07TypeOK leaves open.  A session sends no more answers    *)
(* than it accepted frames, which bounds its send counter.                  *)
Roots == 0 .. MaxStarts
Gens == 0 .. MAX_GEN
Delivering == {"notify", "wait7", "commit7", "auth7", "fail7", "fail5", "reset5", "reset7"}
Computing == Modes \cup {"done"}
Pcs == Computing \cup Delivering \cup {"idle", "result"}
Slots == [pending : BOOLEAN, active : BOOLEAN, mode : Modes \cup {"none"}, root : Roots,
          seq : Seqs, good : BOOLEAN, fresh : BOOLEAN]
Workers == [pc : Pcs, mode : Modes \cup {"none"}, root : Roots, seq : Seqs, good : BOOLEAN,
            fresh : BOOLEAN, rx : Counted, tx : Counted, ok : BOOLEAN, conn : Gens]
Owed == {<<>>, <<5>>, <<7>>, <<5, 7>>}
HistoryTyped ==
    /\ starts \in Roots /\ born \in Roots
    /\ sent \subseteq (Roots \X {"K_app", "data6", "data7", "FINISHED_P"} \X Counted)
NamedJob == slot.pending => slot.mode \in Modes
CountersOrdered == s6.tx <= s6.rx /\ s7.tx <= s7.rx /\ w.tx <= w.rx
Typed ==
    /\ V07TypeOK /\ slot \in Slots /\ w \in Workers /\ resets \in Owed
    /\ cur \in {0, gen} /\ HistoryTyped /\ CountersOrdered /\ NamedJob

(* The slot, the transfer and crypto_job_conn follow the one job.  A job    *)
(* whose crypto_job_conn was taken away is one of a link that is gone, so   *)
(* the phases are idle and what is still delivered is for another link.     *)
JobHere == slot.pending \/ slot.active \/ w.pc = "result"
SlotTaken ==
    /\ slot.active <=> w.pc \in Computing
    /\ slot.pending => ~slot.active /\ w.pc # "result"
    /\ w.pc \in Modes => w.mode = w.pc
    /\ w.pc = "idle" <=> w.mode = "none"
DeliversTo == w.pc \in Delivering => w.conn \in 1 .. gen
Abandoned ==
    JobHere /\ jobConn = 0 =>
        p5 = "IDLE" /\ p7 = "IDLE" /\ (w.pc \in Delivering => w.conn # cur)
OwnInv == SlotTaken /\ TransferOwned /\ DeliversTo /\ Abandoned

(* The material of each phase is whole or absent. *)
Empty5 == s5 = No5 /\ s6 = No6
Whole5 ==
    /\ ~s5.wait /\ ~s5.ready => s5 = No5
    /\ s5.wait \/ s5.ready => s5.root # 0 /\ s6 = No6 /\ ~(s5.wait /\ s5.ready)
    /\ ~s6.active => s6 = No6
    /\ s6.active => s6.root # 0
Whole7 ==
    /\ ~s7.wait /\ ~s7.pend /\ ~s7.auth => s7 = No7
    /\ s7.wait \/ s7.pend \/ s7.auth => s7.root # 0
    /\ s7.auth => ~s7.wait /\ ~s7.pend
    /\ s7.pend => ~s7.wait
ShapeInv == Whole5 /\ Whole7

(* A job that may store is one its phase waits for on a subscribed link,    *)
(* unless the phase is about to be reset; a stale job finds an empty phase; *)
(* and an idle phase is empty or about to be erased.                        *)
Keeps5 == {"start5", "finished5", "data5", "data6"}
Owes5 == resets \in {<<5>>, <<5, 7>>}
Owes7 == resets \in {<<7>>, <<5, 7>>}
InSlot(jobs) == slot.pending /\ slot.mode \in jobs
InWorker(jobs) == w.pc \in Computing \cup {"result"} /\ w.mode \in jobs
FreshIn(jobs) == (InSlot(jobs) /\ slot.fresh) \/ (InWorker(jobs) /\ w.fresh)
StaleIn(jobs) == (InSlot(jobs) /\ ~slot.fresh) \/ (InWorker(jobs) /\ ~w.fresh)
Awaited(p) == jobConn # 0 /\ notify /\ p # "IDLE"
FreshAwaited ==
    /\ FreshIn(Keeps5) => Owes5 \/ Awaited(p5) \/ w.pc = "reset5"
    /\ FreshIn(Jobs7) => Owes7 \/ Awaited(p7) \/ w.pc = "reset7"
StaleEmpty ==
    /\ StaleIn(Keeps5) => Empty5
    /\ StaleIn(Jobs7) => s7 = No7
Erasing5 ==
    \/ w.pc = "reset5"
    \/ w.pc \in {"notify", "fail5"} /\ ~w.ok /\ w.mode \in {"start5", "finished5", "data5"}
Held ==
    /\ p5 = "IDLE" => Owes5 \/ Empty5 \/ Erasing5
    /\ p7 = "IDLE" => Owes7 \/ s7 = No7 \/ w.pc = "reset7"
Starting5 == InSlot({"start5"}) \/ w.pc = "start5" => Empty5
Told5 == w.pc \in {"done", "result", "notify"} /\ w.ok
Consumed == w.pc = "data5" \/ (Told5 /\ w.mode = "data5") => Empty5
EraseInv == FreshAwaited /\ StaleEmpty /\ Held /\ Starting5 /\ Consumed

(* Material, and what a fresh job may make of it, belongs to this link      *)
(* unless the host still owes the reset.                                    *)
Here(root) == root # 0 => cur # 0 /\ root > born
LinkInv ==
    /\ ~Owes5 => /\ Here(s5.root) /\ Here(s6.root)
                 /\ InSlot({"start5"}) /\ slot.fresh => Here(slot.root)
                 /\ w.pc \in Keeps5 /\ w.fresh => Here(w.root)
    /\ ~Owes7 => /\ Here(s7.root)
                 /\ InSlot({"start7"}) /\ slot.fresh => Here(slot.root)
                 /\ w.pc \in Jobs7 /\ w.fresh => Here(w.root)

(* The secret of a new START is younger than all others, and the secrets of *)
(* the phases stay apart.                                                   *)
Younger ==
    s5.root < starts /\ s6.root < starts /\ s7.root < starts /\ \A e \in sent : e[1] < starts
NewSecret ==
    /\ InSlot(Starts) => slot.root = starts /\ w.root < starts /\ Younger
    /\ w.pc \in Starts => w.root = starts /\ Younger
OldSecrets ==
    /\ s5.root <= starts /\ s6.root <= starts /\ s7.root <= starts /\ w.root <= starts
    /\ born <= starts /\ \A e \in sent : e[1] <= starts
Apart ==
    /\ s7.root # 0 => s7.root # s5.root /\ s7.root # s6.root
    /\ w.mode \in Jobs7 /\ w.root # 0 => w.root # s5.root /\ w.root # s6.root
    /\ w.mode \in Keeps5 /\ w.root # 0 => w.root # s7.root
SecretInv == NewSecret /\ OldSecrets /\ Apart

(* What the worker copied is still what the session has, and what it is     *)
(* about to send is accounted for there.                                    *)
Copies ==
    /\ w.pc = "data6" /\ w.fresh =>
           \/ s6.active /\ w.root = s6.root /\ w.tx = s6.tx
           \/ s5.ready /\ ~s6.active /\ w.root = s5.root /\ w.tx = 0
    /\ w.pc = "data7" /\ w.fresh => s7.auth /\ w.root = s7.root /\ w.tx = s7.tx
    /\ w.mode = "finished7" => s7.root \in {0, w.root}
Accounted ==
    /\ Told5 /\ w.mode = "data6" =>
           s5 = No5 /\ (s6 = No6 \/ (s6.root = w.root /\ s6.tx = w.tx + 1))
    /\ Told5 /\ w.mode = "data7" =>
           s7 = No7 \/ (s7.auth /\ s7.root = w.root /\ s7.tx = w.tx + 1)
Unused ==
    /\ s5.wait \/ s5.ready => \A e \in sent : e[1] # s5.root
    /\ s7.wait \/ s7.pend => \A e \in sent : e[1] = s7.root => e[2] # "data7"
Confirmed ==
    w.pc = "commit7" => w.mode = "finished7" /\ <<w.root, "FINISHED_P", 0>> \in sent
UseInv == Copies /\ Accounted /\ Unused /\ Confirmed /\ SentOnce /\ ConfirmedFirst

Parts == OwnInv /\ ShapeInv /\ EraseInv /\ LinkInv /\ SecretInv /\ UseInv
Inv == Typed /\ Parts

-----------------------------------------------------------------------------
(* The records, named. *)
P5 == {"IDLE", "CRYPTO_BUSY", "WAIT_FINISHED_C", "FINISHED_BUSY", "AUTHENTICATED", "DATA_BUSY",
       "PHASE6_RX_BUSY"}
P7 == {"IDLE", "CRYPTO_BUSY", "WAIT_FINISHED_C", "FINISHED_BUSY", "AUTHENTICATED", "DATA_BUSY"}
Cts == {"EMPTY", "RECEIVING", "READY", "BUSY"}
S5 == [wait : BOOLEAN, ready : BOOLEAN, root : Roots]
S6 == [active : BOOLEAN, root : Roots, rx : Counted, tx : Counted]
S7 == [wait : BOOLEAN, pend : BOOLEAN, auth : BOOLEAN, root : Roots, rx : Counted, tx : Counted]

(* The bounds are numbers, and zero is in each of them. *)
LEMMA Zero == /\ 0 \in Roots /\ 0 \in Gens /\ 0 \in Counted /\ 0 \in Seqs
              /\ Roots \subseteq Nat /\ Gens \subseteq Nat /\ Counted \subseteq Nat
              /\ Seqs \subseteq Nat
  BY SessionAssumption DEF Roots, Gens, Counted, Seqs

(* Nothing retained, and nothing to do. *)
LEMMA NothingTyped ==
    /\ No5 \in S5 /\ No6 \in S6 /\ No7 \in S7 /\ NoJob \in Slots /\ Sleeping \in Workers
    /\ No6.tx <= No6.rx /\ No7.tx <= No7.rx /\ Sleeping.tx <= Sleeping.rx
<1>1. No5 \in S5 /\ No6 \in S6 /\ No7 \in S7
  BY Zero DEF No5, No6, No7, S5, S6, S7
<1>2. NoJob \in Slots
  BY Zero DEF NoJob, Slots
<1>3. Sleeping \in Workers
  BY Zero DEF Sleeping, Workers, Pcs
<1> QED BY <1>1, <1>2, <1>3 DEF No6, No7, Sleeping

(* The types, one variable at a time. *)
LEMMA TypedParts ==
    Typed <=> /\ cur \in Gens /\ gen \in Gens /\ notify \in BOOLEAN /\ ct \in Cts /\ jobConn \in {0, cur}
              /\ p5 \in P5 /\ p7 \in P7 /\ s5 \in S5 /\ s6 \in S6 /\ s7 \in S7
              /\ slot \in Slots /\ w \in Workers /\ resets \in Owed /\ cur \in {0, gen}
              /\ HistoryTyped /\ CountersOrdered /\ NamedJob
<1>1. slot \in Slots /\ w \in Workers => slot.mode \in Modes \cup {"none"} /\ w.mode \in Modes \cup {"none"}
  BY DEF Slots, Workers
<1> QED BY <1>1 DEF Typed, V07TypeOK, Gens, Cts, P5, P7, S5, S6, S7, Roots

(* What the host still owes. *)
LEMMA OwedCases ==
    /\ <<>> \in Owed /\ <<5, 7>> \in Owed
    /\ Tail(<<5>>) = <<>> /\ Tail(<<7>>) = <<>> /\ Tail(<<5, 7>>) = <<7>>
    /\ Head(<<5>>) = 5 /\ Head(<<7>>) = 7 /\ Head(<<5, 7>>) = 5
    /\ <<>> # <<5>> /\ <<>> # <<7>> /\ <<>> # <<5, 7>>
    /\ <<5>> # <<7>> /\ <<5>> # <<5, 7>> /\ <<7>> # <<5, 7>>
    /\ <<5>> \o <<7>> = <<5, 7>> /\ <<>> \o <<7>> = <<7>> /\ <<5>> \o <<>> = <<5>>
    /\ <<>> \o <<>> = <<>>
<1>1. <<>> \in Owed /\ <<5, 7>> \in Owed
  BY DEF Owed
<1>2. Tail(<<5>>) = <<>> /\ Tail(<<7>>) = <<>> /\ Tail(<<5, 7>>) = <<7>>
  OBVIOUS
<1>3. Head(<<5>>) = 5 /\ Head(<<7>>) = 7 /\ Head(<<5, 7>>) = 5
  OBVIOUS
<1>4. /\ <<>> # <<5>> /\ <<>> # <<7>> /\ <<>> # <<5, 7>>
      /\ <<5>> # <<7>> /\ <<5>> # <<5, 7>> /\ <<7>> # <<5, 7>>
  <2>1. /\ Len(<<5>>) = 1 /\ Len(<<7>>) = 1 /\ Len(<<5, 7>>) = 2 /\ Len(<<>>) = 0
        /\ <<5>>[1] = 5 /\ <<7>>[1] = 7
    OBVIOUS
  <2> QED BY <2>1
<1>5. /\ <<>> \o <<7>> = <<7>> /\ <<5>> \o <<>> = <<5>> /\ <<>> \o <<>> = <<>>
  BY ConcatEmptySeq
<1>6. <<5>> \o <<7>> = <<5, 7>>
  <2>1. <<5>> \in Seq({5, 7}) /\ 7 \in {5, 7}
    OBVIOUS
  <2>2. Append(<<5>>, 7) = <<5>> \o <<7>>
    BY <2>1, AppendIsConcat
  <2>3. /\ <<5, 7>> \in Seq({5, 7}) /\ Len(<<5, 7>>) = 2 /\ <<5, 7>>[1] = 5 /\ <<5, 7>>[2] = 7
    OBVIOUS
  <2>4. /\ Append(<<5>>, 7) \in Seq({5, 7}) /\ Len(Append(<<5>>, 7)) = 2
        /\ Append(<<5>>, 7)[1] = 5 /\ Append(<<5>>, 7)[2] = 7
    BY <2>1
  <2>5. \A i \in 1 .. 2 : Append(<<5>>, 7)[i] = <<5, 7>>[i]
    BY <2>3, <2>4
  <2>6. Append(<<5>>, 7) = <<5, 7>>
    BY <2>3, <2>4, <2>5, SeqEqual
  <2> QED BY <2>2, <2>6
<1> QED BY <1>1, <1>2, <1>3, <1>4, <1>5, <1>6

(* A retired job is the same job, no longer fresh. *)
LEMMA RetiredWorker ==
    ASSUME NEW x \in Workers, NEW jobs
    PROVE  LET r == Retired(x, jobs)
           IN  /\ r \in Workers /\ r.pc = x.pc /\ r.mode = x.mode /\ r.root = x.root /\ r.rx = x.rx
               /\ r.tx = x.tx /\ r.ok = x.ok /\ r.conn = x.conn /\ r.seq = x.seq /\ r.good = x.good
               /\ (r.fresh <=> x.fresh /\ x.mode \notin jobs)
  BY DEF Retired, Workers

(* And so is a retired job in the slot. *)
LEMMA RetiredSlot ==
    ASSUME NEW x \in Slots, NEW jobs
    PROVE  LET r == Retired(x, jobs)
           IN  /\ r \in Slots /\ r.pending = x.pending /\ r.active = x.active /\ r.mode = x.mode
               /\ r.root = x.root /\ r.seq = x.seq /\ r.good = x.good
               /\ (r.fresh <=> x.fresh /\ x.mode \notin jobs)
  BY DEF Retired, Slots

(* The worker goes on at another place. *)
LEMMA GotoWorker ==
    ASSUME NEW pc \in Pcs, w \in Workers, Goto(pc)
    PROVE  /\ w' \in Workers
           /\ pc = "idle" => w' = Sleeping
           /\ pc # "idle" => /\ w'.pc = pc /\ w'.mode = w.mode /\ w'.root = w.root /\ w'.tx = w.tx
                             /\ w'.rx = w.rx /\ w'.ok = w.ok /\ w'.conn = w.conn /\ w'.fresh = w.fresh
<1>1. CASE pc = "idle"
  BY <1>1, NothingTyped DEF Goto
<1>2. CASE pc # "idle"
  BY <1>2 DEF Goto, Workers
<1> QED BY <1>1, <1>2

(* What the worker copies for a job. *)
LEMMA CopiedTyped ==
    ASSUME slot \in Slots, s5 \in S5, s6 \in S6, s7 \in S7, s6.tx <= s6.rx, s7.tx <= s7.rx
    PROVE  LET c == Copied(slot)
           IN  /\ c.root \in Roots /\ c.rx \in Counted /\ c.tx \in Counted /\ c.tx <= c.rx
               /\ slot.mode \in Starts => c.root = slot.root
               /\ slot.mode = "data6" /\ s6.active => c.root = s6.root /\ c.tx = s6.tx /\ c.rx = s6.rx
               /\ slot.mode = "data6" /\ ~s6.active => c.root = s5.root /\ c.tx = 0 /\ c.rx = 0
               /\ slot.mode \in {"finished5", "data5"} => c.root = s5.root /\ c.tx = 0
               /\ slot.mode \in {"finished7", "data7"} => c.root = s7.root /\ c.tx = s7.tx /\ c.rx = s7.rx
<1>1. CASE slot.mode \in Starts
  <2>1. Copied(slot) = [root |-> slot.root, rx |-> 0, tx |-> 0]
    BY <1>1 DEF Copied, Starts
  <2>2. slot.mode \notin {"data6", "finished5", "data5", "finished7", "data7"}
    BY <1>1 DEF Starts
  <2>3. slot.root \in Roots /\ 0 \in Counted /\ 0 <= 0
    BY Zero DEF Slots
  <2> QED BY <1>1, <2>1, <2>2, <2>3
<1>2. CASE slot.mode = "data6" /\ s6.active
  <2>1. Copied(slot) = [root |-> s6.root, rx |-> s6.rx, tx |-> s6.tx]
    BY <1>2 DEF Copied, Starts
  <2>2. slot.mode \notin Starts /\ s6.root \in Roots /\ s6.rx \in Counted /\ s6.tx \in Counted
    BY <1>2 DEF S6, Starts
  <2> QED BY <1>2, <2>1, <2>2
<1>3. CASE slot.mode \in {"finished5", "data5"} \/ (slot.mode = "data6" /\ ~s6.active)
  <2>1. Copied(slot) = [root |-> s5.root, rx |-> 0, tx |-> 0]
    BY <1>3 DEF Copied, Starts
  <2> QED BY <1>3, <2>1, Zero DEF S5, Starts
<1>4. CASE slot.mode \notin Starts \cup {"data6", "finished5", "data5"}
  <2>1. Copied(slot) = [root |-> s7.root, rx |-> s7.rx, tx |-> s7.tx]
    BY <1>4 DEF Copied
  <2> QED BY <1>4, <2>1 DEF S7
<1> QED BY <1>1, <1>2, <1>3, <1>4

(* The worker with a new job. *)
LEMMA TakenWorker ==
    ASSUME slot \in Slots, s5 \in S5, s6 \in S6, s7 \in S7, s6.tx <= s6.rx, s7.tx <= s7.rx, TakeJob,
           slot.mode \in Modes
    PROVE  /\ w' \in Workers /\ w'.tx <= w'.rx /\ w'.mode = slot.mode /\ w'.fresh = slot.fresh /\ ~w'.ok
           /\ w'.pc = (IF Usable(slot) THEN slot.mode ELSE "done")
           /\ w'.root = Copied(slot).root /\ w'.tx = Copied(slot).tx /\ w'.rx = Copied(slot).rx
           /\ w'.seq = slot.seq /\ w'.good = slot.good
<1>1. PICK pc \in Modes \cup {"done"} : pc = IF Usable(slot) THEN slot.mode ELSE "done"
  OBVIOUS
<1>2. PICK r \in Roots : r = Copied(slot).root
  BY CopiedTyped
<1>3. PICK rx \in Counted, tx \in Counted : rx = Copied(slot).rx /\ tx = Copied(slot).tx /\ tx <= rx
  BY CopiedTyped
<1>4. w' = [Sleeping EXCEPT !.pc = pc, !.mode = slot.mode, !.seq = slot.seq, !.good = slot.good,
                            !.fresh = slot.fresh, !.root = r, !.rx = rx, !.tx = tx]
  BY <1>1, <1>2, <1>3 DEF TakeJob
<1>5. Sleeping \in Workers /\ Sleeping.ok = FALSE
  BY NothingTyped DEF Sleeping
<1>6. slot.mode \in Modes \cup {"none"} /\ slot.seq \in Seqs /\ slot.good \in BOOLEAN
      /\ slot.fresh \in BOOLEAN /\ pc \in Pcs
  BY <1>1 DEF Slots, Pcs, Computing
<1> QED BY <1>1, <1>2, <1>3, <1>4, <1>5, <1>6 DEF Workers

(* Every step keeps the types: a send counter stays below the label of the  *)
(* frame it answers.                                                        *)
LEMMA TypedStep == Typed /\ [Next]_vars => Typed'
<1> SUFFICES ASSUME Typed, [Next]_vars PROVE Typed'
  OBVIOUS
<1>0. /\ cur \in Gens /\ gen \in Gens /\ notify \in BOOLEAN /\ ct \in Cts /\ jobConn \in {0, cur}
      /\ p5 \in P5 /\ p7 \in P7 /\ s5 \in S5 /\ s6 \in S6 /\ s7 \in S7
      /\ slot \in Slots /\ w \in Workers /\ resets \in Owed /\ cur \in {0, gen}
      /\ HistoryTyped /\ CountersOrdered /\ NamedJob
  BY TypedParts
<1> DEFINE Link == cur' \in Gens /\ gen' \in Gens /\ notify' \in BOOLEAN /\ cur' \in {0, gen'}
                   /\ jobConn' \in {0, cur'} /\ resets' \in Owed
           Phases == ct' \in Cts /\ p5' \in P5 /\ p7' \in P7
           Material == s5' \in S5 /\ s6' \in S6 /\ s7' \in S7 /\ slot' \in Slots /\ w' \in Workers
                       /\ CountersOrdered' /\ NamedJob'
<1>a. Link /\ Phases /\ Material /\ HistoryTyped' => Typed'
  <2>1. slot' \in Slots /\ w' \in Workers =>
            slot'.mode \in Modes \cup {"none"} /\ w'.mode \in Modes \cup {"none"}
    BY DEF Slots, Workers
  <2> QED BY <2>1 DEF Typed, V07TypeOK, Gens, Cts, P5, P7, S5, S6, S7, Roots
<1>b. UNCHANGED <<cur, gen, notify, jobConn, resets>> => Link
  BY <1>0
<1>c. UNCHANGED history => HistoryTyped'
  BY <1>0 DEF history, HistoryTyped
<1>d. UNCHANGED <<session, slot, w>> => Material
  BY <1>0 DEF session, CountersOrdered, NamedJob
<1> USE DEF control, session, history
<1>1. CASE Connected \/ Disconnected
  <2>4. gen + 1 \in Gens /\ 0 \in Gens
    BY <1>0, <1>1, SessionAssumption DEF Connected, Disconnected, Gens
  <2>1. Link
    BY <1>0, <1>1, <2>4, OwedCases DEF Connected, Disconnected
  <2>2. Phases
    BY <1>0, <1>1 DEF Connected, Disconnected, Cts, P5, P7
  <2>3. HistoryTyped'
    BY <1>0, <1>1 DEF Connected, Disconnected, HistoryTyped
  <2> QED BY <1>1, <1>a, <1>d, <2>1, <2>2, <2>3 DEF Connected, Disconnected
<1>2. CASE Subscribe
  BY <1>0, <1>2, <1>a, <1>c, <1>d DEF Subscribe
<1>3. CASE Unsubscribe
  <2>1. resets' \in Owed
    BY <1>3, OwedCases DEF Unsubscribe, Owed
  <2>2. Phases
    BY <1>0, <1>3 DEF Unsubscribe, P5, P7
  <2> QED BY <1>0, <1>3, <1>a, <1>c, <1>d, <2>1, <2>2 DEF Unsubscribe
<1>4. ASSUME NEW next \in {"EMPTY", "RECEIVING", "READY"}, WriteCiphertext(next) PROVE Typed'
  <2>1. Phases
    BY <1>0, <1>4 DEF WriteCiphertext, Cts
  <2> QED BY <1>4, <1>a, <1>b, <1>c, <1>d, <2>1 DEF WriteCiphertext
<1>e. ASSUME NEW mode \in Modes, NEW root \in Roots, NEW seq \in Seqs, NEW good \in BOOLEAN
      PROVE  Job(mode, root, seq, good) \in Slots
  BY DEF Job, Slots
<1>5. ASSUME NEW mode \in Starts, Start(mode) PROVE Typed'
  <2>1. starts + 1 \in Roots /\ mode \in Modes
    BY <1>0, <1>5, SessionAssumption DEF Start, HistoryTyped, Roots, Modes
  <2>2. slot' \in Slots /\ slot'.mode = mode
    BY <1>5, <1>e, <2>1, Zero DEF Start, Job
  <2>3. w' \in Workers /\ w'.tx = w.tx /\ w'.rx = w.rx
    BY <1>0, <1>5, RetiredWorker DEF Start
  <2>4. /\ s5' \in {No5, s5} /\ s6' \in {No6, s6} /\ s7' \in {No7, s7}
    BY <1>5 DEF Start
  <2>5. Material
    BY <1>0, <2>1, <2>2, <2>3, <2>4, NothingTyped DEF CountersOrdered, NamedJob
  <2>6. Phases
    BY <1>0, <1>5 DEF Start, Cts, P5, P7
  <2>7. HistoryTyped'
    BY <1>0, <1>5, <2>1 DEF Start, HistoryTyped
  <2>8. Link
    BY <1>0, <1>5 DEF Start
  <2> QED BY <1>a, <2>5, <2>6, <2>7, <2>8
<1>6. ASSUME NEW mode \in {"finished5", "data5", "data6", "finished7", "data7"}, NEW has,
             NEW seq \in Seqs, NEW good \in BOOLEAN, Command(mode, has, seq, good)
      PROVE  Typed'
  <2>1. mode \in Modes /\ (mode \in Jobs5 => Phase5Of[mode] \in P5)
        /\ (mode \in Jobs7 => Phase7Of[mode] \in P7)
    BY DEF Modes, Starts, Jobs5, Jobs7, Phase5Of, Phase7Of, P5, P7
  <2>2. slot' \in Slots /\ (slot' # slot => slot'.mode = mode)
    BY <1>0, <1>6, <1>e, <2>1, Zero DEF Command, Job
  <2>3. Phases /\ jobConn' \in {0, cur}
    BY <1>0, <1>6, <2>1 DEF Command, Cts
  <2>4. Material
    BY <1>0, <1>6, <2>1, <2>2 DEF Command, CountersOrdered, NamedJob
  <2> QED BY <1>0, <1>6, <1>a, <1>c, <2>3, <2>4 DEF Command
<1>7. CASE \/ Phase5Data \/ (\E good \in BOOLEAN : Phase5FinishedC(good) \/ Phase7FinishedC(good))
           \/ (\E seq \in Seqs, good \in BOOLEAN : WriteSecureData(seq, good))
  BY <1>6, <1>7, Zero DEF Phase5Data, Phase5FinishedC, Phase7FinishedC, WriteSecureData
<1>8. CASE HostResets
  <2>1. resets' \in Owed
    BY <1>0, <1>8, OwedCases DEF HostResets, Owed
  <2>2. /\ s5' \in {No5, s5} /\ s6' \in {No6, s6} /\ s7' \in {No7, s7}
        /\ \E jobs : slot' = Retired(slot, jobs)
        /\ \E jobs : w' = Retired(w, jobs)
    BY <1>8 DEF HostResets, Reset5, Reset7
  <2>3. Material
    BY <1>0, <2>2, RetiredSlot, RetiredWorker, NothingTyped DEF CountersOrdered, NamedJob
  <2> QED BY <1>0, <1>8, <1>a, <1>c, <2>1, <2>3 DEF HostResets
<1>f. ASSUME NEW ok \in BOOLEAN, Done(ok)
      PROVE  /\ w' \in Workers /\ w'.tx = w.tx /\ w'.rx = w.rx
  BY <1>0, <1>f DEF Done, Workers, Pcs, Computing
<1>g. UNCHANGED control => Link /\ Phases
  BY <1>0
<1>9. CASE TakeJob
  <2>0. slot.mode \in Modes
    BY <1>0, <1>9 DEF TakeJob, NamedJob
  <2>1. s5' \in S5 /\ slot' \in Slots /\ ~slot'.pending
    BY <1>0, <1>9, NothingTyped DEF TakeJob, Slots
  <2>2. w' \in Workers /\ w'.tx <= w'.rx
    BY <1>0, <1>9, <2>0, TakenWorker DEF CountersOrdered
  <2>3. Material
    BY <1>0, <1>9, <2>1, <2>2 DEF TakeJob, CountersOrdered, NamedJob
  <2> QED BY <1>9, <1>a, <1>c, <1>g, <2>3 DEF TakeJob
<1>10. ASSUME NEW crypto \in BOOLEAN, Compute(crypto) PROVE Typed'
  <2>1. Material
    BY <1>0, <1>10, <1>f DEF Compute, CountersOrdered, NamedJob
  <2> QED BY <1>10, <1>a, <1>c, <1>g, <2>1 DEF Compute
<1>11. ASSUME NEW crypto \in BOOLEAN, Start5(crypto) PROVE Typed'
  <2>1. s5' \in S5
    BY <1>0, <1>11 DEF Start5, S5, Workers
  <2>2. Material
    BY <1>0, <1>11, <1>f, <2>1 DEF Start5, CountersOrdered, NamedJob, Workers
  <2> QED BY <1>11, <1>a, <1>c, <1>g, <2>2 DEF Start5
<1>12. ASSUME NEW crypto \in BOOLEAN, Start7(crypto) PROVE Typed'
  <2> DEFINE new == [No7 EXCEPT !.wait = TRUE, !.root = w.root]
  <2>0. w.fresh \in BOOLEAN
    BY <1>0 DEF Workers
  <2>1. s7' \in {s7, No7, new}
    <3>1. CASE ~w.fresh
      BY <1>12, <3>1 DEF Start7
    <3>2. CASE w.fresh /\ crypto
      BY <1>12, <3>2 DEF Start7
    <3>3. CASE w.fresh /\ ~crypto
      BY <1>12, <3>3 DEF Start7
    <3> QED BY <2>0, <3>1, <3>2, <3>3
  <2>2. new \in S7
        /\ new.tx = 0 /\ new.rx = 0
    <3>1. w.root \in Roots /\ 0 \in Counted
      BY <1>0, Zero DEF Workers
    <3> QED BY <3>1 DEF S7, No7
  <2>3. Done(crypto /\ w.fresh) /\ (crypto /\ w.fresh) \in BOOLEAN
    BY <1>12, <2>0 DEF Start7
  <2> HIDE DEF new
  <2>4. s7' \in S7 /\ s7'.tx <= s7'.rx
    BY <1>0, <2>1, <2>2, NothingTyped DEF CountersOrdered
  <2>5. w' \in Workers /\ w'.tx <= w'.rx
    BY <1>0, <1>f, <2>3 DEF CountersOrdered
  <2>6. Material
    BY <1>0, <1>12, <2>4, <2>5 DEF Start7, CountersOrdered, NamedJob
  <2> QED BY <1>12, <1>a, <1>c, <1>g, <2>6 DEF Start7
<1>13. ASSUME NEW crypto \in BOOLEAN, Finished5(crypto) PROVE Typed'
  <2>1. s5' \in {s5, No5, [s5 EXCEPT !.wait = FALSE, !.ready = TRUE]}
    BY <1>13 DEF Finished5
  <2>2. [s5 EXCEPT !.wait = FALSE, !.ready = TRUE] \in S5
    BY <1>0 DEF S5
  <2>3. [w EXCEPT !.pc = "done", !.fresh = FALSE] \in Workers
        /\ [w EXCEPT !.pc = "done", !.fresh = FALSE].tx = w.tx
        /\ [w EXCEPT !.pc = "done", !.fresh = FALSE].rx = w.rx
    BY <1>0 DEF Workers, Pcs, Computing
  <2>4. w' \in Workers /\ w'.tx = w.tx /\ w'.rx = w.rx
    BY <1>13, <1>f, <2>3 DEF Finished5
  <2>5. Material
    BY <1>0, <1>13, <2>1, <2>2, <2>4, NothingTyped DEF Finished5, CountersOrdered, NamedJob
  <2> QED BY <1>13, <1>a, <1>c, <1>g, <2>5 DEF Finished5
<1>14. ASSUME NEW crypto \in BOOLEAN, Finished7(crypto) PROVE Typed'
  <2>1. s7' \in {s7, [s7 EXCEPT !.wait = FALSE, !.pend = TRUE]}
    BY <1>14 DEF Finished7
  <2>2. [s7 EXCEPT !.wait = FALSE, !.pend = TRUE] \in S7
        /\ [s7 EXCEPT !.wait = FALSE, !.pend = TRUE].tx = s7.tx
        /\ [s7 EXCEPT !.wait = FALSE, !.pend = TRUE].rx = s7.rx
    BY <1>0 DEF S7
  <2>3. Material
    BY <1>0, <1>14, <1>f, <2>1, <2>2 DEF Finished7, CountersOrdered, NamedJob
  <2> QED BY <1>14, <1>a, <1>c, <1>g, <2>3 DEF Finished7
<1>h. Answers => w.seq + 1 \in Counted /\ w.tx + 1 \in Counted /\ w.tx + 1 <= w.seq + 1
  BY <1>0, SessionAssumption DEF Answers, CountersOrdered, Workers, Counted, Seqs
<1>15. ASSUME NEW crypto \in BOOLEAN, Data6(crypto) PROVE Typed'
  <2>1. CASE Answers /\ crypto /\ w.fresh /\ (s6.active \/ s5.ready)
    <3>1. /\ Done(TRUE) /\ s5' = No5
          /\ s6' = Advance([s6 EXCEPT !.active = TRUE, !.root = w.root])
          /\ UNCHANGED <<control, s7, slot, history>>
      BY <1>15, <2>1 DEF Data6
    <3>2. [s6 EXCEPT !.active = TRUE, !.root = w.root] \in S6
      BY <1>0 DEF S6, Workers
    <3>3. s6' \in S6 /\ s6'.tx = w.tx + 1 /\ s6'.rx = w.seq + 1
      BY <1>h, <2>1, <3>1, <3>2 DEF S6, Advance
    <3>4. Material
      BY <1>0, <1>f, <1>h, <2>1, <3>1, <3>3, NothingTyped DEF CountersOrdered, NamedJob
    <3> QED BY <1>a, <1>c, <1>g, <3>1, <3>4
  <2>2. CASE ~(Answers /\ crypto /\ w.fresh /\ (s6.active \/ s5.ready))
    <3>1. Done(FALSE) /\ UNCHANGED <<s5, s6, control, s7, slot, history>>
      BY <1>15, <2>2 DEF Data6
    <3>2. Material
      BY <1>0, <1>f, <3>1 DEF CountersOrdered, NamedJob
    <3> QED BY <1>a, <1>c, <1>g, <3>1, <3>2
  <2> QED BY <2>1, <2>2
<1>16. ASSUME NEW crypto \in BOOLEAN, Data7(crypto) PROVE Typed'
  <2>1. CASE Answers /\ crypto /\ w.fresh /\ s7.auth
    <3>1. Done(TRUE) /\ s7' = Advance(s7) /\ UNCHANGED <<control, s5, s6, slot, history>>
      BY <1>16, <2>1 DEF Data7
    <3>2. s7' \in S7 /\ s7'.tx = w.tx + 1 /\ s7'.rx = w.seq + 1
      BY <1>0, <1>h, <2>1, <3>1 DEF S7, Advance
    <3>3. Material
      BY <1>0, <1>f, <1>h, <2>1, <3>1, <3>2 DEF CountersOrdered, NamedJob
    <3> QED BY <1>a, <1>c, <1>g, <3>1, <3>3
  <2>2. CASE ~(Answers /\ crypto /\ w.fresh /\ s7.auth)
    <3>1. Done(FALSE) /\ UNCHANGED <<s5, s6, control, s7, slot, history>>
      BY <1>16, <2>2 DEF Data7
    <3>2. Material
      BY <1>0, <1>f, <3>1 DEF CountersOrdered, NamedJob
    <3> QED BY <1>a, <1>c, <1>g, <3>1, <3>2
  <2> QED BY <2>1, <2>2
<1>17. CASE JobDone
  <2>1. PICK ok \in BOOLEAN : ok = (w.ok /\ (w.mode \in Jobs7 \cup {"cp2"} => w.fresh))
    BY <1>0 DEF Workers
  <2>2. w' = [w EXCEPT !.pc = "result", !.ok = ok]
    BY <1>17, <2>1 DEF JobDone
  <2>3. w' \in Workers /\ w'.tx = w.tx /\ w'.rx = w.rx
    BY <1>0, <2>2 DEF Workers, Pcs
  <2>4. slot' \in Slots /\ slot'.pending = slot.pending /\ slot'.mode = slot.mode
    BY <1>0, <1>17 DEF JobDone, Slots
  <2>5. Material
    BY <1>0, <1>17, <2>3, <2>4 DEF JobDone, CountersOrdered, NamedJob
  <2> QED BY <1>17, <1>a, <1>c, <1>g, <2>5 DEF JobDone
<1>18. CASE Result
  <2>1. w' = Sleeping \/ w' = [w EXCEPT !.pc = "notify", !.conn = jobConn]
    BY <1>18 DEF Result
  <2>2. jobConn \in Gens
    BY <1>0, Zero
  <2>3. [w EXCEPT !.pc = "notify", !.conn = jobConn] \in Workers
        /\ [w EXCEPT !.pc = "notify", !.conn = jobConn].tx = w.tx
        /\ [w EXCEPT !.pc = "notify", !.conn = jobConn].rx = w.rx
    BY <1>0, <2>2 DEF Workers, Pcs, Delivering
  <2>4. Material
    BY <1>0, <1>18, <2>1, <2>3, NothingTyped DEF Result, CountersOrdered, NamedJob
  <2>5. ASSUME NEW current PROVE Phase5After(current) \in P5 /\ Phase7After(current) \in P7
    BY <1>0 DEF Phase5After, Phase7After, P5, P7
  <2>6. Phases
    BY <1>0, <1>18, <2>5 DEF Result, Cts
  <2>7. Link
    BY <1>0, <1>18 DEF Result
  <2> QED BY <1>18, <1>a, <1>c, <2>4, <2>6, <2>7 DEF Result
<1>i. ASSUME NEW pc \in Pcs, Goto(pc) PROVE w' \in Workers /\ w'.tx <= w'.rx
  BY <1>0, <1>i, GotoWorker, NothingTyped DEF CountersOrdered
<1>19. ASSUME NEW delivered \in BOOLEAN, Notify(delivered) PROVE Typed'
  <2>1. AfterNotify(delivered) \in Pcs
    <3>1. w.ok \in BOOLEAN
      BY <1>0 DEF Workers
    <3> QED BY <3>1 DEF AfterNotify, Pcs, Delivering
  <2>2. Material
    BY <1>0, <1>19, <1>i, <2>1 DEF Notify, CountersOrdered, NamedJob
  <2>3. Told \subseteq (Roots \X {"K_app", "data6", "data7", "FINISHED_P"} \X Counted)
    <3>1. w.root \in Roots /\ w.tx \in Counted /\ 0 \in Counted
      BY <1>0, Zero DEF Workers
    <3> QED BY <3>1 DEF Told
  <2>4. HistoryTyped'
    BY <1>0, <1>19, <2>3 DEF Notify, HistoryTyped
  <2> QED BY <1>19, <1>a, <1>g, <2>2, <2>4 DEF Notify
<1>j. {"idle", "auth7", "fail7", "reset5", "reset7"} \subseteq Pcs
  BY DEF Pcs, Delivering
<1>20. CASE Wait7 \/ Auth7 \/ Fail7 \/ Fail5
  <2>1. \E pc \in Pcs : Goto(pc)
    BY <1>20, <1>j DEF Wait7, Auth7, Fail7, Fail5
  <2>2. Material
    BY <1>0, <1>20, <1>i, <2>1 DEF Wait7, Auth7, Fail7, Fail5, CountersOrdered, NamedJob
  <2>3. Phases
    BY <1>0, <1>20 DEF Wait7, Auth7, Fail7, Fail5, P5, P7
  <2> QED BY <1>20, <1>a, <1>b, <1>c, <2>2, <2>3 DEF Wait7, Auth7, Fail7, Fail5
<1>21. CASE Commit7
  <2> DEFINE new == [s7 EXCEPT !.pend = FALSE, !.auth = TRUE, !.rx = 0, !.tx = 0]
  <2>1. s7' \in {s7, new}
        /\ \E pc \in Pcs : Goto(pc)
    BY <1>21, <1>j DEF Commit7
  <2>2. new \in S7
        /\ new.tx = 0 /\ new.rx = 0
    <3>1. 0 \in Counted
      BY Zero
    <3> QED BY <1>0, <3>1 DEF S7
  <2> HIDE DEF new
  <2>4. s7' \in S7 /\ s7'.tx <= s7'.rx
    BY <1>0, <2>1, <2>2 DEF CountersOrdered
  <2>3. Material
    BY <1>0, <1>21, <1>i, <2>1, <2>4 DEF Commit7, CountersOrdered, NamedJob
  <2> QED BY <1>21, <1>a, <1>c, <1>g, <2>3 DEF Commit7
<1>22. CASE WorkerResets
  <2>1. /\ s5' \in {No5, s5} /\ s6' \in {No6, s6} /\ s7' \in {No7, s7}
        /\ \E jobs : slot' = Retired(slot, jobs)
    BY <1>22 DEF WorkerResets, Reset5, Reset7
  <2>2. w' \in Workers /\ w'.tx <= w'.rx
    BY <1>22, <1>i, <1>j DEF WorkerResets
  <2>3. Material
    BY <1>0, <2>1, <2>2, RetiredSlot, NothingTyped DEF CountersOrdered, NamedJob
  <2> QED BY <1>22, <1>a, <1>c, <1>g, <2>3 DEF WorkerResets
<1>23. CASE UNCHANGED vars
  BY <1>23, <1>a, <1>c, <1>d, <1>g DEF vars
<1>24. CASE HostNext
  BY <1>24, <1>1, <1>2, <1>3, <1>4, <1>5, <1>7 DEF HostNext
<1>25. CASE WorkerNext
  BY <1>25, <1>9, <1>10, <1>11, <1>12, <1>13, <1>14, <1>15, <1>16, <1>17, <1>18, <1>19, <1>20, <1>21,
     <1>22 DEF WorkerNext
<1> QED BY <1>8, <1>23, <1>24, <1>25 DEF Next

-----------------------------------------------------------------------------
(* Places of the worker. *)
LEMMA Places ==
    /\ "result" \notin Computing \cup Delivering /\ "idle" \notin Computing \cup Delivering
    /\ Computing \cap Delivering = {} /\ "none" \notin Modes /\ Modes \subseteq Computing
    /\ "done" \in Computing \ Modes /\ Keeps5 \subseteq Modes /\ Jobs7 \subseteq Modes
    /\ Starts \subseteq Modes /\ Keeps5 \cap Jobs7 = {} /\ Keeps5 \subseteq Jobs5 /\ Jobs5 \cap Jobs7 = {}
    /\ Starts \cap (Keeps5 \cup Jobs7) = {"start5", "start7"}
  BY DEF Computing, Delivering, Modes, Starts, Jobs5, Jobs7, Keeps5

(* Types of the fields. *)
LEMMA Fields ==
    ASSUME Typed
    PROVE  /\ w.pc \in Pcs /\ w.mode \in Modes \cup {"none"} /\ w.fresh \in BOOLEAN /\ w.ok \in BOOLEAN
           /\ slot.pending \in BOOLEAN /\ slot.active \in BOOLEAN /\ slot.fresh \in BOOLEAN
           /\ slot.mode \in Modes \cup {"none"} /\ (slot.pending => slot.mode \in Modes)
           /\ s5.root \in Nat /\ s6.root \in Nat /\ s7.root \in Nat /\ w.root \in Nat
           /\ slot.root \in Nat /\ starts \in Nat /\ born \in Nat /\ gen \in Nat /\ cur \in Nat
           /\ w.conn \in Nat /\ w.tx \in Nat /\ s6.tx \in Nat /\ s7.tx \in Nat
           /\ cur \in {0, gen} /\ jobConn \in {0, cur} /\ resets \in Owed
<1>1. /\ cur \in Gens /\ gen \in Gens /\ jobConn \in {0, cur} /\ s5 \in S5 /\ s6 \in S6 /\ s7 \in S7
      /\ slot \in Slots /\ w \in Workers /\ resets \in Owed /\ cur \in {0, gen} /\ HistoryTyped /\ NamedJob
  BY TypedParts
<1>2. /\ w.pc \in Pcs /\ w.mode \in Modes \cup {"none"} /\ w.fresh \in BOOLEAN /\ w.ok \in BOOLEAN
      /\ w.root \in Nat /\ w.conn \in Nat /\ w.tx \in Nat
  BY <1>1, Zero DEF Workers
<1>3. /\ slot.pending \in BOOLEAN /\ slot.active \in BOOLEAN /\ slot.fresh \in BOOLEAN
      /\ slot.mode \in Modes \cup {"none"} /\ (slot.pending => slot.mode \in Modes) /\ slot.root \in Nat
  BY <1>1, Zero DEF Slots, NamedJob
<1>4. /\ s5.root \in Nat /\ s6.root \in Nat /\ s7.root \in Nat /\ s6.tx \in Nat /\ s7.tx \in Nat
  BY <1>1, Zero DEF S5, S6, S7
<1> QED BY <1>1, <1>2, <1>3, <1>4, Zero DEF HistoryTyped

(* A new connection, and the end of one: everything is owed. *)
LEMMA LinkStep == Inv /\ (Connected \/ Disconnected) => Parts'
<1> SUFFICES ASSUME Inv, Connected \/ Disconnected PROVE Parts'
  OBVIOUS
<1> USE DEF session, history
<1>0. /\ UNCHANGED <<s5, s6, s7, slot, w, starts, sent>> /\ p5' = "IDLE" /\ p7' = "IDLE"
      /\ resets' = <<5, 7>> /\ gen' = gen + 1 /\ cur' \in {0, gen + 1} /\ (ct' = "BUSY" <=> ct = "BUSY")
      /\ jobConn' = 0 /\ born' \in {born, starts}
  BY Fields DEF Connected, Disconnected, Inv
<1>1. OwnInv'
  BY <1>0, Fields DEF Inv, Parts, OwnInv, SlotTaken, TransferOwned, DeliversTo, Abandoned, JobHere
<1>2. ShapeInv'
  BY <1>0 DEF Inv, Parts, ShapeInv, Whole5, Whole7
<1>3. EraseInv'
  BY <1>0 DEF Inv, Parts, EraseInv, FreshAwaited, StaleEmpty, Held, Starting5, Consumed, Told5, Empty5,
     Owes5, Owes7, InSlot, InWorker, StaleIn
<1>4. LinkInv'
  BY <1>0 DEF LinkInv, Owes5, Owes7
<1>5. SecretInv'
  BY <1>0, Fields DEF Inv, Parts, SecretInv, NewSecret, Younger, OldSecrets, Apart, InSlot
<1>6. UseInv'
  BY <1>0 DEF Inv, Parts, UseInv, Copies, Accounted, Unused, Confirmed, SentOnce, ConfirmedFirst, Told5
<1> QED BY <1>1, <1>2, <1>3, <1>4, <1>5, <1>6 DEF Parts

(* The subscription, and the fragments of a transfer. *)
LEMMA TransferStep ==
    ASSUME Inv, Subscribe \/ Unsubscribe \/ \E next \in {"EMPTY", "RECEIVING", "READY"} : WriteCiphertext(next)
    PROVE  Parts'
<1> USE DEF session, history
<1>0. /\ UNCHANGED <<s5, s6, s7, slot, w, starts, sent, born, gen, cur, jobConn>> /\ HostFree
      /\ (ct' = "BUSY" <=> ct = "BUSY") /\ p5' \in {p5, "IDLE"} /\ p7' \in {p7, "IDLE"}
      /\ notify' = notify \/ notify' = TRUE \/ Unsubscribe
  BY DEF Subscribe, Unsubscribe, WriteCiphertext, CiphertextWritable
<1>a. /\ ~Owes5 /\ ~Owes7
      /\ p5' # p5 => Owes5'
      /\ p7' # p7 => Owes7'
      /\ Unsubscribe => p5' = "IDLE" /\ p7' = "IDLE" /\ (p5 # "IDLE" => Owes5') /\ (p7 # "IDLE" => Owes7')
  <2>1. ~Owes5 /\ ~Owes7
    BY <1>0, OwedCases DEF HostFree, Owes5, Owes7
  <2>2. CASE Unsubscribe
    BY <2>1, <2>2, OwedCases DEF Unsubscribe, Owes5, Owes7
  <2>3. CASE ~Unsubscribe
    BY <2>1, <2>3 DEF Subscribe, WriteCiphertext
  <2> QED BY <2>1, <2>2, <2>3
<1>1. OwnInv'
  BY <1>0, Fields DEF Inv, Parts, OwnInv, SlotTaken, TransferOwned, DeliversTo, Abandoned, JobHere
<1>2. ShapeInv'
  BY <1>0 DEF Inv, Parts, ShapeInv, Whole5, Whole7
<1>3. EraseInv'
  BY <1>0, <1>a DEF Inv, Parts, EraseInv, FreshAwaited, StaleEmpty, Held, Starting5, Consumed, Told5,
     Empty5, Erasing5, InSlot, InWorker, FreshIn, StaleIn, Awaited
<1>4. LinkInv'
  BY <1>0, <1>a DEF Inv, Parts, LinkInv, Here, InSlot
<1>5. SecretInv'
  BY <1>0 DEF Inv, Parts, SecretInv, NewSecret, Younger, OldSecrets, Apart, InSlot
<1>6. UseInv'
  BY <1>0 DEF Inv, Parts, UseInv, Copies, Accounted, Unused, Confirmed, SentOnce, ConfirmedFirst, Told5
<1> QED BY <1>1, <1>2, <1>3, <1>4, <1>5, <1>6 DEF Parts

(* An accepted START: no job is in flight, and its secret is new. *)
LEMMA StartStep == ASSUME Inv, NEW mode \in Starts, Start(mode) PROVE Parts'
<1>0. Typed /\ w \in Workers
  BY DEF Inv, Typed
<1>a. /\ HostFree /\ cur # 0 /\ notify /\ p5 = "IDLE" /\ p7 = "IDLE" /\ ct = "READY"
      /\ starts' = starts + 1 /\ ct' = "BUSY" /\ jobConn' = cur
      /\ UNCHANGED <<cur, gen, notify, resets, born, sent>>
      /\ (mode = "start5" => p5' = "CRYPTO_BUSY") /\ (mode # "start5" => p5' = p5)
      /\ (mode = "start7" => p7' = "CRYPTO_BUSY") /\ (mode # "start7" => p7' = p7)
      /\ ~slot.pending /\ ~slot.active
  BY DEF Start, StartAccepted, SlotFree
<1>b. slot'.pending /\ ~slot'.active /\ slot'.mode = mode /\ slot'.root = starts + 1 /\ slot'.fresh
  BY DEF Start, Job
<1>c. /\ w'.pc = w.pc /\ w'.mode = w.mode /\ w'.root = w.root /\ w'.tx = w.tx /\ w'.ok = w.ok
      /\ w'.conn = w.conn
  BY <1>0, RetiredWorker DEF Start
<1>d. /\ (s5' = No5 /\ s6' = No6) \/ (s5' = s5 /\ s6' = s6)
      /\ s7' \in {No7, s7}
      /\ mode \in {"start5", "start7"} => s5' = No5 /\ s6' = No6
      /\ mode = "start7" => s7' = No7
  BY DEF Start, Jobs5, Jobs7
<1>e. ~Owes5 /\ ~Owes7 /\ ~Owes5' /\ ~Owes7' /\ w.pc \notin Computing \cup {"result"}
  BY <1>a, OwedCases DEF HostFree, Owes5, Owes7, Inv, Parts, OwnInv, SlotTaken, TransferOwned
<1>f. mode \in Modes /\ (mode \in Keeps5 => mode = "start5") /\ (mode \in Jobs7 => mode = "start7")
  BY Places DEF Starts, Keeps5, Jobs7
<1>1. OwnInv'
  BY <1>0, <1>a, <1>b, <1>c, <1>e, Fields DEF Inv, Parts, OwnInv, SlotTaken, TransferOwned, DeliversTo,
     Abandoned, JobHere
<1>2. ShapeInv'
  BY <1>d DEF Inv, Parts, ShapeInv, Whole5, Whole7, No5, No6, No7
<1>3. EraseInv'
  <2>1. FreshAwaited' /\ StaleEmpty'
    BY <1>a, <1>b, <1>c, <1>e, <1>f DEF FreshAwaited, StaleEmpty, InSlot, InWorker, FreshIn, StaleIn, Awaited
  <2>2. Held'
    BY <1>a, <1>c, <1>d, <1>e DEF Inv, Parts, EraseInv, Held, Empty5, Erasing5
  <2>3. Starting5' /\ Consumed'
    BY <1>b, <1>c, <1>d, <1>e, Places DEF Inv, Parts, EraseInv, Starting5, Consumed, Told5, Empty5, InSlot
  <2> QED BY <2>1, <2>2, <2>3 DEF EraseInv
<1>4. LinkInv'
  <2>1. starts + 1 > born /\ w.pc \notin Modes
    BY <1>0, <1>e, Fields, Places DEF Inv, Parts, SecretInv, OldSecrets
  <2> QED BY <1>a, <1>b, <1>c, <1>d, <1>e, <2>1, Places
          DEF Inv, Parts, LinkInv, Here, InSlot, No5, No6, No7
<1>5. SecretInv'
  <2>1. /\ s5'.root \in {0, s5.root} /\ s6'.root \in {0, s6.root} /\ s7'.root \in {0, s7.root}
    BY <1>d DEF No5, No6, No7
  <2>2. OldSecrets' /\ NewSecret'
    <3>1. \A e \in sent : e[1] \in Nat
      BY <1>0, Zero DEF Typed, HistoryTyped
    <3> QED BY <1>0, <1>a, <1>b, <1>c, <1>e, <2>1, <3>1, Fields, Places
            DEF Inv, Parts, SecretInv, NewSecret, Younger, OldSecrets, InSlot
  <2>3. Apart'
    BY <1>c, <2>1 DEF Inv, Parts, SecretInv, Apart
  <2> QED BY <2>2, <2>3 DEF SecretInv
<1>6. UseInv'
  <2>1. Copies' /\ Confirmed'
    BY <1>a, <1>c, <1>d, <1>e, Places DEF Inv, Parts, UseInv, Copies, Confirmed, No7, Modes, Jobs5, Jobs7
  <2>2. Accounted'
    BY <1>c, <1>d DEF Inv, Parts, UseInv, Accounted, Told5
  <2>3. Unused' /\ SentOnce' /\ ConfirmedFirst'
    BY <1>a, <1>d DEF Inv, Parts, UseInv, Unused, SentOnce, ConfirmedFirst, No5, No6, No7
  <2> QED BY <2>1, <2>2, <2>3 DEF UseInv
<1> QED BY <1>1, <1>2, <1>3, <1>4, <1>5, <1>6 DEF Parts

(* The other commands find no job in flight either: their phase is not idle *)
(* and crypto_job_conn is free.                                             *)
LEMMA CommandStep ==
    ASSUME Inv, NEW mode \in {"finished5", "data5", "data6", "finished7", "data7"}, NEW has, NEW seq,
           NEW good, Command(mode, has, seq, good), HostFree, cur # 0, notify, jobConn = 0,
           p5 # "IDLE" \/ p7 # "IDLE"
    PROVE  Parts'
<1> USE DEF session, history
<1>0. Typed
  BY DEF Inv
<1>a. ~JobHere /\ w.pc \notin Computing \cup {"result"} /\ ~Owes5 /\ ~Owes7
  BY OwedCases DEF HostFree, Owes5, Owes7, Inv, Parts, OwnInv, SlotTaken, Abandoned, JobHere
<1>b. UNCHANGED <<cur, gen, notify, resets, s5, s6, s7, w, starts, born, sent>>
  BY DEF Command
<1>c. mode \notin Starts /\ mode \in Modes /\ (mode \in Keeps5 <=> mode \in Jobs5)
      /\ (mode \in Keeps5 => Phase5Of[mode] # "IDLE")
      /\ (mode \in Jobs7 => Phase7Of[mode] # "IDLE")
  BY DEF Starts, Modes, Jobs5, Jobs7, Keeps5, Phase5Of, Phase7Of
<1>d. \/ /\ slot'.pending /\ ~slot'.active /\ slot'.mode = mode /\ slot'.fresh
         /\ ct' = "BUSY" /\ jobConn' = cur
         /\ p5' # "IDLE" \/ (p5' = p5 /\ mode \notin Keeps5)
         /\ p7' # "IDLE" \/ (p7' = p7 /\ mode \notin Jobs7)
      \/ ct' = "EMPTY" /\ UNCHANGED <<slot, jobConn, p5, p7>>
  BY <1>c DEF Command, Job
<1>1. OwnInv'
  BY <1>0, <1>a, <1>b, <1>d, Fields DEF Inv, Parts, OwnInv, SlotTaken, TransferOwned, DeliversTo,
     Abandoned, JobHere
<1>2. ShapeInv'
  BY <1>b DEF Inv, Parts, ShapeInv, Whole5, Whole7
<1>3. EraseInv'
  <2>1. FreshAwaited' /\ StaleEmpty'
    BY <1>a, <1>b, <1>d DEF FreshAwaited, StaleEmpty, InSlot, InWorker, FreshIn, StaleIn, Awaited, JobHere
  <2>2. Held'
    BY <1>a, <1>b, <1>d DEF Inv, Parts, EraseInv, Held, Empty5, Erasing5
  <2>3. Starting5' /\ Consumed'
    BY <1>b, <1>c, <1>d DEF Inv, Parts, EraseInv, Starting5, Consumed, Told5, Empty5, InSlot, Starts
  <2> QED BY <2>1, <2>2, <2>3 DEF EraseInv
<1>4. LinkInv'
  BY <1>a, <1>b, <1>c, <1>d DEF Inv, Parts, LinkInv, Here, InSlot, Starts, Owes5, Owes7
<1>5. SecretInv'
  BY <1>a, <1>b, <1>c, <1>d DEF Inv, Parts, SecretInv, NewSecret, Younger, OldSecrets, Apart, InSlot
<1>6. UseInv'
  BY <1>b DEF Inv, Parts, UseInv, Copies, Accounted, Unused, Confirmed, SentOnce, ConfirmedFirst, Told5
<1> QED BY <1>1, <1>2, <1>3, <1>4, <1>5, <1>6 DEF Parts

(* Each command of the host, with the phase it needs. *)
LEMMA CommandsStep ==
    ASSUME Inv,
           \/ Phase5Data \/ (\E good \in BOOLEAN : Phase5FinishedC(good) \/ Phase7FinishedC(good))
           \/ (\E seq \in Seqs, good \in BOOLEAN : WriteSecureData(seq, good))
    PROVE  Parts'
<1>1. CASE Phase5Data
  BY <1>1, CommandStep DEF Phase5Data, Phase5Expects
<1>2. CASE \E good \in BOOLEAN : Phase5FinishedC(good) \/ Phase7FinishedC(good)
  BY <1>2, CommandStep DEF Phase5FinishedC, Phase7FinishedC, Phase5Expects, Phase7Expects
<1>3. CASE \E seq \in Seqs, good \in BOOLEAN : WriteSecureData(seq, good)
  BY <1>3, CommandStep DEF WriteSecureData, DataWritable, DataOpen
<1> QED BY <1>1, <1>2, <1>3

(* The host pays one reset: that phase is empty, and its jobs are stale. *)
LEMMA HostResetsStep == ASSUME Inv, HostResets PROVE Parts'
<1> USE DEF session, history
<1>0. Typed /\ w \in Workers /\ slot \in Slots
  BY DEF Inv, Typed
<1>a. UNCHANGED <<cur, gen, notify, ct, p5, p7, jobConn, starts, born, sent>>
  BY DEF HostResets
<1>b. /\ w'.pc = w.pc /\ w'.mode = w.mode /\ w'.root = w.root /\ w'.tx = w.tx /\ w'.ok = w.ok
      /\ w'.conn = w.conn /\ slot'.pending = slot.pending /\ slot'.active = slot.active
      /\ slot'.mode = slot.mode /\ slot'.root = slot.root
  BY <1>0, RetiredWorker, RetiredSlot DEF HostResets, Reset5, Reset7
<1>c. \/ /\ ~Owes5' /\ (Owes7' <=> Owes7) /\ s5' = No5 /\ s6' = No6 /\ s7' = s7
         /\ (w'.fresh <=> w.fresh /\ w.mode \notin Jobs5)
         /\ (slot'.fresh <=> slot.fresh /\ slot.mode \notin Jobs5)
      \/ /\ ~Owes7' /\ (Owes5' <=> Owes5) /\ s5' = s5 /\ s6' = s6 /\ s7' = No7
         /\ (w'.fresh <=> w.fresh /\ w.mode \notin Jobs7)
         /\ (slot'.fresh <=> slot.fresh /\ slot.mode \notin Jobs7)
  <2>1. CASE Head(resets) = 5
    <3>1. resets \in {<<5>>, <<5, 7>>} /\ (resets = <<5>> => resets' = <<>>)
          /\ (resets = <<5, 7>> => resets' = <<7>>)
      BY <1>0, <2>1, OwedCases DEF HostResets, Owed, Typed
    <3>2. ~Owes5' /\ (Owes7' <=> Owes7)
      BY <3>1, OwedCases DEF Owes5, Owes7
    <3>3. s5' = No5 /\ s6' = No6 /\ s7' = s7 /\ w' = Retired(w, Jobs5) /\ slot' = Retired(slot, Jobs5)
      BY <2>1 DEF HostResets, Reset5
    <3> QED BY <1>0, <3>2, <3>3, RetiredWorker, RetiredSlot
  <2>2. CASE Head(resets) = 7
    <3>1. resets = <<7>> /\ resets' = <<>>
      BY <1>0, <2>2, OwedCases DEF HostResets, Owed, Typed
    <3>2. ~Owes7' /\ (Owes5' <=> Owes5)
      BY <3>1, OwedCases DEF Owes5, Owes7
    <3>3. s5' = s5 /\ s6' = s6 /\ s7' = No7 /\ w' = Retired(w, Jobs7) /\ slot' = Retired(slot, Jobs7)
      BY <2>2 DEF HostResets, Reset7
    <3> QED BY <1>0, <3>2, <3>3, RetiredWorker, RetiredSlot
  <2> QED BY <2>1, <2>2 DEF HostResets
<1>1. OwnInv'
  BY <1>a, <1>b DEF Inv, Parts, OwnInv, SlotTaken, TransferOwned, DeliversTo, Abandoned, JobHere
<1>2. ShapeInv'
  BY <1>c DEF Inv, Parts, ShapeInv, Whole5, Whole7, No5, No6, No7
<1>3. EraseInv'
  <2>1. FreshAwaited'
    BY <1>a, <1>b, <1>c, Places DEF Inv, Parts, EraseInv, FreshAwaited, InSlot, InWorker, FreshIn, Awaited
  <2>2. StaleEmpty'
    BY <1>a, <1>b, <1>c, Places DEF Inv, Parts, EraseInv, StaleEmpty, InSlot, InWorker, StaleIn, Empty5
  <2>3. Held'
    BY <1>a, <1>b, <1>c DEF Inv, Parts, EraseInv, Held, Empty5, Erasing5
  <2>4. Starting5' /\ Consumed'
    BY <1>b, <1>c DEF Inv, Parts, EraseInv, Starting5, Consumed, Told5, Empty5, InSlot
  <2> QED BY <2>1, <2>2, <2>3, <2>4 DEF EraseInv
<1>4. LinkInv'
  <2>1. w.pc \in Keeps5 => w.mode \in Jobs5
    BY Places DEF Inv, Parts, OwnInv, SlotTaken
  <2>2. w.pc \in Jobs7 => w.mode \in Jobs7
    BY Places DEF Inv, Parts, OwnInv, SlotTaken
  <2>3. "start5" \in Jobs5 /\ "start7" \in Jobs7
    BY DEF Jobs5, Jobs7
  <2> QED BY <1>a, <1>b, <1>c, <2>1, <2>2, <2>3 DEF Inv, Parts, LinkInv, Here, InSlot, No5, No6, No7
<1>5. SecretInv'
  <2>1. /\ s5'.root \in {0, s5.root} /\ s6'.root \in {0, s6.root} /\ s7'.root \in {0, s7.root}
    BY <1>c DEF No5, No6, No7
  <2>2. NewSecret'
    BY <1>0, <1>a, <1>b, <2>1, Fields DEF Inv, Parts, SecretInv, NewSecret, Younger, InSlot
  <2>3. OldSecrets' /\ Apart'
    BY <1>0, <1>a, <1>b, <2>1, Fields DEF Inv, Parts, SecretInv, OldSecrets, Apart
  <2> QED BY <2>2, <2>3 DEF SecretInv
<1>6. UseInv'
  <2>1. Copies' /\ Confirmed'
    <3>1. w.pc = "data6" => w.mode \in Jobs5
      BY DEF Inv, Parts, OwnInv, SlotTaken, Modes, Jobs5
    <3>2. w.pc = "data7" => w.mode \in Jobs7
      BY DEF Inv, Parts, OwnInv, SlotTaken, Modes, Jobs7
    <3> QED BY <1>a, <1>b, <1>c, <3>1, <3>2 DEF Inv, Parts, UseInv, Copies, Confirmed, No7
  <2>2. Accounted'
    BY <1>b, <1>c DEF Inv, Parts, UseInv, Accounted, Told5
  <2>3. Unused' /\ SentOnce' /\ ConfirmedFirst'
    BY <1>a, <1>c DEF Inv, Parts, UseInv, Unused, SentOnce, ConfirmedFirst, No5, No6, No7
  <2> QED BY <2>1, <2>2, <2>3 DEF UseInv
<1> QED BY <1>1, <1>2, <1>3, <1>4, <1>5, <1>6 DEF Parts

(* The worker takes the job: what it copies is what the session has now. *)
LEMMA TakeStep == ASSUME Inv, TakeJob PROVE Parts'
<1> USE DEF control, history
<1>0. /\ Typed /\ w \in Workers /\ slot \in Slots /\ s5 \in S5 /\ s6 \in S6 /\ s7 \in S7
      /\ s6.tx <= s6.rx /\ s7.tx <= s7.rx /\ slot.mode \in Modes
  BY TypedParts, Fields DEF Inv, CountersOrdered, TakeJob
<1>a. /\ UNCHANGED <<cur, gen, notify, ct, p5, p7, jobConn, resets, s6, s7, starts, born, sent>>
      /\ w.pc = "idle" /\ slot.pending
  BY DEF TakeJob
<1>b. /\ ~slot'.pending /\ slot'.active /\ slot'.mode = slot.mode
  BY <1>0 DEF TakeJob, Slots
<1>c. /\ w'.mode = slot.mode /\ w'.fresh = slot.fresh /\ ~w'.ok
      /\ w'.pc = (IF Usable(slot) THEN slot.mode ELSE "done")
      /\ w'.root = Copied(slot).root /\ w'.tx = Copied(slot).tx
  BY <1>0, TakenWorker, Places
<1>d. /\ slot.mode \in Starts => w'.root = slot.root
      /\ slot.mode = "data6" /\ s6.active => w'.root = s6.root /\ w'.tx = s6.tx
      /\ slot.mode = "data6" /\ ~s6.active => w'.root = s5.root /\ w'.tx = 0
      /\ slot.mode \in {"finished5", "data5"} => w'.root = s5.root
      /\ slot.mode \in {"finished7", "data7"} => w'.root = s7.root /\ w'.tx = s7.tx
  BY <1>0, <1>c, CopiedTyped
<1>e. /\ w'.pc = "data5" => slot.fresh /\ s5.ready /\ s5' = No5
      /\ w'.pc # "data5" => s5' = s5
      /\ w'.pc = "data6" => s6.active \/ s5.ready
      /\ w'.pc = "data7" => s7.auth
      /\ s5' \in {s5, No5}
  <2>1. slot.mode = "data5" => (Usable(slot) <=> slot.fresh /\ s5.ready)
    BY DEF Usable
  <2>2. slot.mode = "data6" => (Usable(slot) <=> slot.fresh /\ (s6.active \/ s5.ready))
    BY DEF Usable
  <2>3. slot.mode = "data7" => (Usable(slot) <=> slot.fresh /\ s7.auth)
    BY DEF Usable
  <2> QED BY <1>c, <2>1, <2>2, <2>3 DEF TakeJob
<1>f. w'.pc \in Computing /\ w'.pc # "result" /\ w'.pc \notin Delivering /\ w'.pc # "idle"
  BY <1>0, <1>c, Places
<1>1. OwnInv'
  BY <1>0, <1>a, <1>b, <1>c, <1>f, Places
     DEF Inv, Parts, OwnInv, SlotTaken, TransferOwned, DeliversTo, Abandoned, JobHere
<1>2. ShapeInv'
  BY <1>a, <1>e DEF Inv, Parts, ShapeInv, Whole5, Whole7, No5
<1>3. EraseInv'
  <2>1. FreshAwaited'
    BY <1>a, <1>b, <1>c, <1>f, Places
       DEF Inv, Parts, EraseInv, FreshAwaited, InSlot, InWorker, FreshIn, Awaited, Owes5, Owes7
  <2>2. StaleEmpty'
    BY <1>a, <1>b, <1>c, <1>e DEF Inv, Parts, EraseInv, StaleEmpty, InSlot, InWorker, StaleIn, Empty5
  <2>3. Held'
    BY <1>a, <1>e DEF Inv, Parts, EraseInv, Held, Empty5, Erasing5, Owes5, Owes7
  <2>4. Starting5'
    BY <1>a, <1>b, <1>c, <1>e DEF Inv, Parts, EraseInv, Starting5, Empty5, InSlot
  <2>5. Consumed'
    BY <1>a, <1>c, <1>e DEF Inv, Parts, ShapeInv, Whole5, Consumed, Told5, Empty5
  <2> QED BY <2>1, <2>2, <2>3, <2>4, <2>5 DEF EraseInv
<1>4. LinkInv'
  BY <1>0, <1>a, <1>b, <1>c, <1>d, <1>e
     DEF Inv, Parts, LinkInv, Here, InSlot, No5, Owes5, Owes7, Starts, Keeps5, Jobs7
<1>5. SecretInv'
  <2>1. s5'.root \in {0, s5.root}
    BY <1>e DEF No5
  <2>2. NewSecret'
    BY <1>0, <1>a, <1>b, <1>c, <1>d, <2>1, Fields, Places
       DEF Inv, Parts, SecretInv, NewSecret, Younger, InSlot
  <2>4. slot.mode \in {"diag", "secure", "cp2", "start5", "start7", "finished5", "data5", "data6", "finished7", "data7"}
    BY <1>0 DEF Modes, Starts, Jobs5, Jobs7
  <2>3. OldSecrets' /\ Apart'
    BY <1>0, <1>a, <1>c, <1>d, <2>1, <2>4, Fields
       DEF Inv, Parts, SecretInv, OldSecrets, Apart, NewSecret, Younger, InSlot, Starts, Keeps5, Jobs7
  <2> QED BY <2>2, <2>3 DEF SecretInv
<1>6. UseInv'
  <2>1. Copies' /\ Confirmed'
    <3>1. w'.pc \in {slot.mode, "done"} /\ "commit7" \notin Modes /\ s6.active \in BOOLEAN
      BY <1>0, <1>c DEF Modes, Starts, Jobs5, Jobs7, S6
    <3> QED BY <1>0, <1>a, <1>c, <1>d, <1>e, <3>1 DEF Copies, Confirmed
  <2>2. Accounted'
    BY <1>c DEF Accounted, Told5
  <2>3. Unused' /\ SentOnce' /\ ConfirmedFirst'
    BY <1>a, <1>e DEF Inv, Parts, UseInv, Unused, SentOnce, ConfirmedFirst, No5
  <2> QED BY <2>1, <2>2, <2>3 DEF UseInv
<1> QED BY <1>1, <1>2, <1>3, <1>4, <1>5, <1>6 DEF Parts

(* The worker is done with the computation. *)
LEMMA DoneFields ==
    ASSUME w \in Workers, NEW ok \in BOOLEAN, Done(ok)
    PROVE  /\ w'.pc = "done" /\ w'.mode = w.mode /\ w'.root = w.root /\ w'.tx = w.tx
           /\ w'.fresh = w.fresh /\ w'.ok = ok /\ w'.conn = w.conn /\ w'.seq = w.seq /\ w'.rx = w.rx
  BY DEF Done, Workers

(* The end of a computation leaves the job where it is, and awaited. *)
LEMMA DoneStep ==
    ASSUME Inv, w.pc \in Modes, w'.pc = "done", w'.mode = w.mode, w'.fresh => w.fresh,
           UNCHANGED <<control, slot>>
    PROVE  /\ OwnInv' /\ FreshAwaited' /\ Starting5' /\ NewSecret' /\ Confirmed'
           /\ w.mode = w.pc /\ ~slot.pending
           /\ w.pc \in Keeps5 /\ w.fresh => Owes5 \/ p5 # "IDLE"
           /\ w.pc \in Jobs7 /\ w.fresh => Owes7 \/ p7 # "IDLE"
<1> USE DEF control
<1>0. w.mode = w.pc /\ slot.active /\ ~slot.pending /\ w.pc \in Computing
  BY Places DEF Inv, Parts, OwnInv, SlotTaken
<1>1. OwnInv'
  BY <1>0, Places DEF Inv, Parts, OwnInv, SlotTaken, TransferOwned, DeliversTo, Abandoned, JobHere
<1>a. w.pc \notin {"reset5", "reset7", "done", "result", "notify", "fail5"} /\ Keeps5 \subseteq Modes
  BY Places DEF Modes, Starts, Jobs5, Jobs7
<1>2. FreshAwaited'
  BY <1>0, <1>a DEF Inv, Parts, EraseInv, FreshAwaited, InSlot, InWorker, FreshIn, Awaited, Owes5, Owes7
<1>3. Starting5' /\ NewSecret' /\ Confirmed'
  BY <1>0, Places DEF Starting5, NewSecret, Confirmed, InSlot
<1>4. /\ w.pc \in Keeps5 /\ w.fresh => Owes5 \/ p5 # "IDLE"
      /\ w.pc \in Jobs7 /\ w.fresh => Owes7 \/ p7 # "IDLE"
  BY <1>0, <1>a DEF Inv, Parts, EraseInv, FreshAwaited, FreshIn, InWorker, Awaited
<1> QED BY <1>0, <1>1, <1>2, <1>3, <1>4

(* Computations that retain nothing. *)
LEMMA ComputeStep == ASSUME Inv, NEW crypto \in BOOLEAN, Compute(crypto) PROVE Parts'
<1> USE DEF control, session, history
<1>0. Typed /\ w \in Workers /\ w.pc \in {"diag", "secure", "cp2", "data5"} /\ w.pc \in Modes
  BY DEF Inv, Typed, Compute, Modes, Starts, Jobs5
<1>a. UNCHANGED <<cur, gen, notify, ct, p5, p7, jobConn, resets, s5, s6, s7, slot, starts, born, sent>>
  BY DEF Compute
<1>b. /\ w'.pc = "done" /\ w'.mode = w.mode /\ w'.root = w.root /\ w'.tx = w.tx /\ w'.fresh = w.fresh
  BY <1>0, DoneFields DEF Compute
<1>c. /\ OwnInv' /\ FreshAwaited' /\ Starting5' /\ NewSecret' /\ Confirmed' /\ w.mode = w.pc /\ ~slot.pending
  BY <1>0, <1>a, <1>b, DoneStep
<1>2. ShapeInv'
  BY <1>a DEF Inv, Parts, ShapeInv, Whole5, Whole7
<1>3. StaleEmpty' /\ Held' /\ Consumed'
  BY <1>0, <1>a, <1>b, <1>c, Places DEF Inv, Parts, EraseInv, StaleEmpty, Held, Consumed, Told5, Empty5,
     Erasing5, InSlot, InWorker, StaleIn, Owes5, Owes7
<1>4. LinkInv'
  BY <1>a, <1>b, <1>c, Places DEF Inv, Parts, LinkInv, Here, InSlot, Owes5, Owes7
<1>5. OldSecrets' /\ Apart'
  BY <1>a, <1>b DEF Inv, Parts, SecretInv, OldSecrets, Apart
<1>6. Copies' /\ Accounted' /\ Unused' /\ SentOnce' /\ ConfirmedFirst'
  BY <1>0, <1>a, <1>b, <1>c DEF Inv, Parts, UseInv, Copies, Accounted, Unused, SentOnce, ConfirmedFirst, Told5
<1> QED BY <1>c, <1>2, <1>3, <1>4, <1>5, <1>6 DEF Parts, EraseInv, SecretInv, UseInv

(* START5 stores a new secret in an empty phase that waits for it. *)
LEMMA Start5Step == ASSUME Inv, NEW crypto \in BOOLEAN, Start5(crypto) PROVE Parts'
<1> USE DEF control, history
<1>0. Typed /\ w \in Workers /\ w.pc = "start5" /\ w.pc \in Modes /\ w.pc \in Starts /\ w.pc \in Keeps5
  BY DEF Inv, Typed, Start5, Modes, Starts, Keeps5
<1>a. UNCHANGED <<cur, gen, notify, ct, p5, p7, jobConn, resets, s6, s7, slot, starts, born, sent>>
  BY DEF Start5
<1>b. /\ w'.pc = "done" /\ w'.mode = w.mode /\ w'.root = w.root /\ w'.tx = w.tx /\ w'.fresh = w.fresh
  <2>1. (crypto /\ w.fresh) \in BOOLEAN
    BY <1>0, Fields
  <2> QED BY <1>0, <2>1, DoneFields DEF Start5
<1>c. /\ OwnInv' /\ FreshAwaited' /\ Starting5' /\ NewSecret' /\ Confirmed' /\ w.mode = w.pc /\ ~slot.pending
      /\ w.fresh => Owes5 \/ p5 # "IDLE"
  BY <1>0, <1>a, <1>b, DoneStep
<1>d. \/ s5' = s5
      \/ w.fresh /\ s5'.wait /\ ~s5'.ready /\ s5'.root = w.root
  BY DEF Start5
<1>e. /\ w.root = starts /\ Younger /\ Empty5 /\ w.root # 0
  BY <1>0, Fields DEF Inv, Parts, SecretInv, NewSecret, EraseInv, Starting5, Younger
<1>2. ShapeInv'
  BY <1>a, <1>d, <1>e DEF Inv, Parts, ShapeInv, Whole5, Whole7, Empty5
<1>3. StaleEmpty' /\ Held' /\ Consumed'
  BY <1>0, <1>a, <1>b, <1>c, <1>d, Places DEF Inv, Parts, EraseInv, StaleEmpty, Held, Consumed, Told5, Empty5,
     Erasing5, InSlot, InWorker, StaleIn, Owes5, Owes7
<1>4. LinkInv'
  BY <1>0, <1>a, <1>b, <1>c, <1>d, Places DEF Inv, Parts, LinkInv, Here, InSlot, Owes5, Owes7
<1>5. OldSecrets' /\ Apart'
  BY <1>0, <1>a, <1>b, <1>c, <1>d, <1>e, Fields, Places DEF Inv, Parts, SecretInv, OldSecrets, Apart, Younger
<1>6. Copies' /\ Accounted' /\ Unused' /\ SentOnce' /\ ConfirmedFirst'
  <2>1. \A e \in sent : e[1] # w.root
    BY <1>e, <1>0, Fields DEF Younger
  <2> QED BY <1>0, <1>a, <1>b, <1>c, <1>d, <2>1
          DEF Inv, Parts, UseInv, Copies, Accounted, Unused, SentOnce, ConfirmedFirst, Told5
<1> QED BY <1>c, <1>2, <1>3, <1>4, <1>5, <1>6 DEF Parts, EraseInv, SecretInv, UseInv

(* START7_AUTH stores a new secret in a phase that waits for it. *)
LEMMA Start7Step == ASSUME Inv, NEW crypto \in BOOLEAN, Start7(crypto) PROVE Parts'
<1> USE DEF control, history
<1>0. Typed /\ w \in Workers /\ w.pc = "start7" /\ w.pc \in Modes /\ w.pc \in Starts /\ w.pc \in Jobs7
  BY DEF Inv, Typed, Start7, Modes, Starts, Jobs7
<1>a. UNCHANGED <<cur, gen, notify, ct, p5, p7, jobConn, resets, s5, s6, slot, starts, born, sent>>
  BY DEF Start7
<1>f. w.fresh \in BOOLEAN
  BY <1>0, Fields
<1>b. /\ w'.pc = "done" /\ w'.mode = w.mode /\ w'.root = w.root /\ w'.tx = w.tx /\ w'.fresh = w.fresh
  <2>1. (crypto /\ w.fresh) \in BOOLEAN
    BY <1>f
  <2> QED BY <1>0, <2>1, DoneFields DEF Start7
<1>c. /\ OwnInv' /\ FreshAwaited' /\ Starting5' /\ NewSecret' /\ Confirmed' /\ w.mode = w.pc /\ ~slot.pending
      /\ w.fresh => Owes7 \/ p7 # "IDLE"
  BY <1>0, <1>a, <1>b, DoneStep
<1>d. \/ s7' = s7
      \/ s7' = No7
      \/ w.fresh /\ s7'.wait /\ ~s7'.pend /\ ~s7'.auth /\ s7'.root = w.root
  <2>1. CASE ~w.fresh
    BY <2>1 DEF Start7
  <2>2. CASE w.fresh /\ crypto
    BY <2>2 DEF Start7, No7
  <2>3. CASE w.fresh /\ ~crypto
    BY <2>3 DEF Start7
  <2> QED BY <1>f, <2>1, <2>2, <2>3
<1>e. /\ w.root = starts /\ Younger /\ w.root # 0
  BY <1>0, Fields DEF Inv, Parts, SecretInv, NewSecret, Younger
<1>2. ShapeInv'
  BY <1>a, <1>d, <1>e DEF Inv, Parts, ShapeInv, Whole5, Whole7, No7
<1>3. StaleEmpty' /\ Held' /\ Consumed'
  BY <1>0, <1>a, <1>b, <1>c, <1>d, Places DEF Inv, Parts, EraseInv, StaleEmpty, Held, Consumed, Told5, Empty5,
     Erasing5, InSlot, InWorker, StaleIn, Owes5, Owes7
<1>4. LinkInv'
  BY <1>0, <1>a, <1>b, <1>c, <1>d, Places DEF Inv, Parts, LinkInv, Here, InSlot, Owes5, Owes7, No7
<1>5. OldSecrets' /\ Apart'
  BY <1>0, <1>a, <1>b, <1>c, <1>d, <1>e, Fields, Places
     DEF Inv, Parts, SecretInv, OldSecrets, Apart, Younger, No7
<1>6. Copies' /\ Accounted' /\ Unused' /\ SentOnce' /\ ConfirmedFirst'
  <2>1. \A e \in sent : e[1] # w.root
    BY <1>e, <1>0, Fields DEF Younger
  <2> QED BY <1>0, <1>a, <1>b, <1>c, <1>d, <2>1
          DEF Inv, Parts, UseInv, Copies, Accounted, Unused, SentOnce, ConfirmedFirst, Told5, No7
<1> QED BY <1>c, <1>2, <1>3, <1>4, <1>5, <1>6 DEF Parts, EraseInv, SecretInv, UseInv

(* FINISHED_C of v0.5: K_app is ready and unused, or the phase is empty. *)
LEMMA Finished5Step == ASSUME Inv, NEW crypto \in BOOLEAN, Finished5(crypto) PROVE Parts'
<1> USE DEF control, history
<1>0. Typed /\ w \in Workers /\ s5 \in S5 /\ w.pc = "finished5" /\ w.pc \in Modes /\ w.pc \in Keeps5
  BY TypedParts DEF Inv, Finished5, Modes, Jobs5, Keeps5
<1>a. UNCHANGED <<cur, gen, notify, ct, p5, p7, jobConn, resets, s6, s7, slot, starts, born, sent>>
  BY DEF Finished5
<1>b. /\ w'.pc = "done" /\ w'.mode = w.mode /\ w'.root = w.root /\ w'.tx = w.tx
      /\ w'.fresh = w.fresh \/ (~w'.fresh /\ s5.wait /\ s5' = No5)
  <2>1. [w EXCEPT !.pc = "done", !.fresh = FALSE].pc = "done"
        /\ [w EXCEPT !.pc = "done", !.fresh = FALSE].mode = w.mode
        /\ [w EXCEPT !.pc = "done", !.fresh = FALSE].root = w.root
        /\ [w EXCEPT !.pc = "done", !.fresh = FALSE].tx = w.tx
        /\ ~[w EXCEPT !.pc = "done", !.fresh = FALSE].fresh
    BY <1>0 DEF Workers
  <2>2. \/ Done(TRUE) \/ Done(FALSE)
        \/ w' = [w EXCEPT !.pc = "done", !.fresh = FALSE] /\ s5.wait /\ s5' = No5
    BY DEF Finished5
  <2> QED BY <1>0, <2>1, <2>2, DoneFields
<1>d. \/ s5' = s5
      \/ s5.wait /\ s5' = No5
      \/ w.fresh /\ s5.wait /\ ~s5'.wait /\ s5'.ready /\ s5'.root = s5.root
  BY <1>0 DEF Finished5, S5
<1>e. w.fresh \in BOOLEAN
  BY <1>0, Fields
<1>c. /\ OwnInv' /\ FreshAwaited' /\ Starting5' /\ NewSecret' /\ Confirmed' /\ w.mode = w.pc /\ ~slot.pending
      /\ w.fresh => Owes5 \/ p5 # "IDLE"
  BY <1>0, <1>a, <1>b, <1>e, DoneStep
<1>2. ShapeInv'
  BY <1>a, <1>d DEF Inv, Parts, ShapeInv, Whole5, Whole7, No5
<1>3. StaleEmpty' /\ Held' /\ Consumed'
  BY <1>0, <1>a, <1>b, <1>c, <1>d, <1>e, Places DEF Inv, Parts, EraseInv, StaleEmpty, Held, Consumed, Told5,
     Empty5, Erasing5, InSlot, InWorker, StaleIn, Owes5, Owes7, ShapeInv, Whole5
<1>4. LinkInv'
  BY <1>0, <1>a, <1>b, <1>c, <1>d, Places DEF Inv, Parts, LinkInv, Here, InSlot, Owes5, Owes7, No5
<1>5. OldSecrets' /\ Apart'
  BY <1>0, <1>a, <1>b, <1>d, Fields DEF Inv, Parts, SecretInv, OldSecrets, Apart, No5
<1>6. Copies' /\ Accounted' /\ Unused' /\ SentOnce' /\ ConfirmedFirst'
  BY <1>0, <1>a, <1>b, <1>c, <1>d
     DEF Inv, Parts, UseInv, Copies, Accounted, Unused, SentOnce, ConfirmedFirst, Told5, No5
<1> QED BY <1>c, <1>2, <1>3, <1>4, <1>5, <1>6 DEF Parts, EraseInv, SecretInv, UseInv

(* FINISHED_C of v0.7: the traffic keys become pending, and are unused. *)
LEMMA Finished7Step == ASSUME Inv, NEW crypto \in BOOLEAN, Finished7(crypto) PROVE Parts'
<1> USE DEF control, history
<1>0. Typed /\ w \in Workers /\ s7 \in S7 /\ w.pc = "finished7" /\ w.pc \in Modes /\ w.pc \in Jobs7
  BY TypedParts DEF Inv, Finished7, Modes, Jobs7
<1>a. UNCHANGED <<cur, gen, notify, ct, p5, p7, jobConn, resets, s5, s6, slot, starts, born, sent>>
  BY DEF Finished7
<1>b. /\ w'.pc = "done" /\ w'.mode = w.mode /\ w'.root = w.root /\ w'.tx = w.tx /\ w'.fresh = w.fresh
  BY <1>0, DoneFields DEF Finished7
<1>c. /\ OwnInv' /\ FreshAwaited' /\ Starting5' /\ NewSecret' /\ Confirmed' /\ w.mode = w.pc /\ ~slot.pending
      /\ w.fresh => Owes7 \/ p7 # "IDLE"
  BY <1>0, <1>a, <1>b, DoneStep
<1>d. \/ s7' = s7
      \/ w.fresh /\ s7.wait /\ ~s7'.wait /\ s7'.pend /\ s7'.auth = s7.auth /\ s7'.root = s7.root
  BY <1>0 DEF Finished7, S7
<1>2. ShapeInv'
  BY <1>a, <1>d DEF Inv, Parts, ShapeInv, Whole5, Whole7
<1>3. StaleEmpty' /\ Held' /\ Consumed'
  BY <1>0, <1>a, <1>b, <1>c, <1>d, Places DEF Inv, Parts, EraseInv, StaleEmpty, Held, Consumed, Told5,
     Empty5, Erasing5, InSlot, InWorker, StaleIn, Owes5, Owes7
<1>4. LinkInv'
  BY <1>0, <1>a, <1>b, <1>c, <1>d, Places DEF Inv, Parts, LinkInv, Here, InSlot, Owes5, Owes7
<1>5. OldSecrets' /\ Apart'
  BY <1>0, <1>a, <1>b, <1>d, Fields DEF Inv, Parts, SecretInv, OldSecrets, Apart
<1>6. Copies' /\ Accounted' /\ Unused' /\ SentOnce' /\ ConfirmedFirst'
  BY <1>0, <1>a, <1>b, <1>c, <1>d DEF Inv, Parts, ShapeInv, Whole7, UseInv, Copies, Accounted, Unused, SentOnce,
     ConfirmedFirst, Told5
<1> QED BY <1>c, <1>2, <1>3, <1>4, <1>5, <1>6 DEF Parts, EraseInv, SecretInv, UseInv

(* A frame of v0.6: the answer about to be sent is below the send counter. *)
LEMMA Data6Step == ASSUME Inv, NEW crypto \in BOOLEAN, Data6(crypto) PROVE Parts'
<1> USE DEF control, history
<1>0. Typed /\ w \in Workers /\ s6 \in S6 /\ w.pc = "data6" /\ w.pc \in Modes /\ w.pc \in Keeps5
  BY TypedParts DEF Inv, Data6, Modes, Jobs5, Keeps5
<1>a. UNCHANGED <<cur, gen, notify, ct, p5, p7, jobConn, resets, s7, slot, starts, born, sent>>
  BY DEF Data6
<1>b. /\ w'.pc = "done" /\ w'.mode = w.mode /\ w'.root = w.root /\ w'.tx = w.tx /\ w'.fresh = w.fresh
      /\ w.fresh \in BOOLEAN
  BY <1>0, DoneFields, Fields DEF Data6
<1>c. /\ OwnInv' /\ FreshAwaited' /\ Starting5' /\ NewSecret' /\ Confirmed' /\ w.mode = w.pc /\ ~slot.pending
      /\ w.fresh => Owes5 \/ p5 # "IDLE"
  BY <1>0, <1>a, <1>b, DoneStep
<1>d. \/ s5' = s5 /\ s6' = s6 /\ ~w'.ok
      \/ w.fresh /\ s5' = No5 /\ s6'.active /\ s6'.root = w.root /\ s6'.tx = w.tx + 1
  <2>1. CASE Answers /\ crypto /\ w.fresh /\ (s6.active \/ s5.ready)
    <3>1. s5' = No5 /\ s6' = Advance([s6 EXCEPT !.active = TRUE, !.root = w.root])
      BY <2>1 DEF Data6
    <3> QED BY <1>0, <2>1, <3>1 DEF Advance, S6
  <2>2. CASE ~(Answers /\ crypto /\ w.fresh /\ (s6.active \/ s5.ready))
    <3>1. Done(FALSE) /\ s5' = s5 /\ s6' = s6
      BY <2>2 DEF Data6
    <3> QED BY <1>0, <3>1, DoneFields
  <2> QED BY <2>1, <2>2
<1>e. w.fresh => w.root # 0 /\ (s6.active \/ s5.ready)
                 /\ \A e \in sent : e[1] = w.root => s6.active /\ e[2] = "data6" /\ e[3] < w.tx
  BY <1>0 DEF Inv, Parts, ShapeInv, Whole5, UseInv, Copies, SentOnce
<1>2. ShapeInv'
  BY <1>a, <1>d, <1>e DEF Inv, Parts, ShapeInv, Whole5, Whole7, No5
<1>3. StaleEmpty' /\ Held' /\ Consumed'
  BY <1>0, <1>a, <1>b, <1>c, <1>d, Places DEF Inv, Parts, EraseInv, StaleEmpty, Held, Consumed, Told5,
     Empty5, Erasing5, InSlot, InWorker, StaleIn, Owes5, Owes7
<1>4. LinkInv'
  BY <1>0, <1>a, <1>b, <1>c, <1>d, Places DEF Inv, Parts, LinkInv, Here, InSlot, Owes5, Owes7, No5
<1>5. OldSecrets' /\ Apart'
  BY <1>0, <1>a, <1>b, <1>c, <1>d, Fields, Places DEF Inv, Parts, SecretInv, OldSecrets, Apart, No5
<1>6. Copies' /\ Unused' /\ ConfirmedFirst'
  BY <1>0, <1>a, <1>b, <1>c, <1>d DEF Inv, Parts, UseInv, Copies, Unused, ConfirmedFirst, No5
<1>7. Accounted'
  BY <1>0, <1>b, <1>c, <1>d DEF Accounted, Told5
<1>8. SentOnce'
  <2>1. w.tx \in Nat /\ \A e \in sent : e[3] \in Nat
    BY <1>0, Fields, Zero DEF Typed, HistoryTyped
  <2> QED BY <1>a, <1>d, <1>e, <2>1 DEF Inv, Parts, UseInv, SentOnce, No5
<1> QED BY <1>c, <1>2, <1>3, <1>4, <1>5, <1>6, <1>7, <1>8 DEF Parts, EraseInv, SecretInv, UseInv

(* A frame of v0.7: likewise. *)
LEMMA Data7Step == ASSUME Inv, NEW crypto \in BOOLEAN, Data7(crypto) PROVE Parts'
<1> USE DEF control, history
<1>0. Typed /\ w \in Workers /\ s7 \in S7 /\ w.pc = "data7" /\ w.pc \in Modes /\ w.pc \in Jobs7
  BY TypedParts DEF Inv, Data7, Modes, Jobs7
<1>a. UNCHANGED <<cur, gen, notify, ct, p5, p7, jobConn, resets, s5, s6, slot, starts, born, sent>>
  BY DEF Data7
<1>b. /\ w'.pc = "done" /\ w'.mode = w.mode /\ w'.root = w.root /\ w'.tx = w.tx /\ w'.fresh = w.fresh
      /\ w.fresh \in BOOLEAN
  BY <1>0, DoneFields, Fields DEF Data7
<1>c. /\ OwnInv' /\ FreshAwaited' /\ Starting5' /\ NewSecret' /\ Confirmed' /\ w.mode = w.pc /\ ~slot.pending
      /\ w.fresh => Owes7 \/ p7 # "IDLE"
  BY <1>0, <1>a, <1>b, DoneStep
<1>d. \/ s7' = s7 /\ ~w'.ok
      \/ /\ w.fresh /\ s7.auth /\ w.root = s7.root /\ w.tx = s7.tx
         /\ s7'.auth /\ s7'.wait = s7.wait /\ s7'.pend = s7.pend /\ s7'.root = s7.root /\ s7'.tx = w.tx + 1
  <2>1. CASE Answers /\ crypto /\ w.fresh /\ s7.auth
    <3>1. s7' = Advance(s7)
      BY <2>1 DEF Data7
    <3>2. s7'.auth /\ s7'.wait = s7.wait /\ s7'.pend = s7.pend /\ s7'.root = s7.root /\ s7'.tx = w.tx + 1
      BY <1>0, <2>1, <3>1 DEF Advance, S7
    <3> QED BY <1>0, <2>1, <3>2 DEF Inv, Parts, UseInv, Copies
  <2>2. CASE ~(Answers /\ crypto /\ w.fresh /\ s7.auth)
    <3>1. Done(FALSE) /\ s7' = s7
      BY <2>2 DEF Data7
    <3> QED BY <1>0, <3>1, DoneFields
  <2> QED BY <2>1, <2>2
<1>2. ShapeInv'
  BY <1>a, <1>d DEF Inv, Parts, ShapeInv, Whole5, Whole7
<1>3. StaleEmpty' /\ Held' /\ Consumed'
  BY <1>0, <1>a, <1>b, <1>c, <1>d, Places DEF Inv, Parts, EraseInv, StaleEmpty, Held, Consumed, Told5,
     Empty5, Erasing5, InSlot, InWorker, StaleIn, Owes5, Owes7
<1>4. LinkInv'
  BY <1>0, <1>a, <1>b, <1>c, <1>d, Places DEF Inv, Parts, LinkInv, Here, InSlot, Owes5, Owes7
<1>5. OldSecrets' /\ Apart'
  BY <1>0, <1>a, <1>b, <1>d, Fields DEF Inv, Parts, SecretInv, OldSecrets, Apart
<1>6. Copies' /\ Unused' /\ ConfirmedFirst'
  BY <1>0, <1>a, <1>b, <1>c, <1>d DEF Inv, Parts, ShapeInv, Whole7, UseInv, Copies, Unused, ConfirmedFirst
<1>7. Accounted'
  BY <1>0, <1>b, <1>c, <1>d DEF Accounted, Told5
<1>8. SentOnce'
  <2>1. w.tx \in Nat /\ \A e \in sent : e[3] \in Nat
    BY <1>0, Fields, Zero DEF Typed, HistoryTyped
  <2> QED BY <1>a, <1>d, <2>1 DEF Inv, Parts, UseInv, SentOnce
<1> QED BY <1>c, <1>2, <1>3, <1>4, <1>5, <1>6, <1>7, <1>8 DEF Parts, EraseInv, SecretInv, UseInv

(* The slot is free, and the result is on its way. *)
LEMMA JobDoneStep == ASSUME Inv, JobDone PROVE Parts'
<1> USE DEF control, session, history
<1>0. Typed /\ w \in Workers /\ slot \in Slots /\ w.pc = "done" /\ w.pc \in Computing
  BY DEF Inv, Typed, JobDone, Computing
<1>a. UNCHANGED <<cur, gen, notify, ct, p5, p7, jobConn, resets, s5, s6, s7, starts, born, sent>>
  BY DEF JobDone
<1>b. /\ w'.pc = "result" /\ w'.mode = w.mode /\ w'.root = w.root /\ w'.tx = w.tx /\ w'.fresh = w.fresh
      /\ w'.ok => w.ok
  BY <1>0 DEF JobDone, Workers
<1>c. ~slot'.active /\ slot'.pending = slot.pending /\ slot.active /\ ~slot.pending
  BY <1>0 DEF JobDone, Slots, Inv, Parts, OwnInv, SlotTaken
<1>1. OwnInv'
  BY <1>0, <1>a, <1>b, <1>c, Places
     DEF Inv, Parts, OwnInv, SlotTaken, TransferOwned, DeliversTo, Abandoned, JobHere
<1>2. ShapeInv'
  BY <1>a DEF Inv, Parts, ShapeInv, Whole5, Whole7
<1>3. EraseInv'
  BY <1>0, <1>a, <1>b, <1>c DEF Inv, Parts, EraseInv, FreshAwaited, StaleEmpty, Held, Starting5, Consumed, Told5,
     Erasing5, Empty5, Owes5, Owes7, InSlot, InWorker, FreshIn, StaleIn, Awaited
<1>4. LinkInv'
  BY <1>a, <1>b, <1>c, Places DEF Inv, Parts, LinkInv, Here, InSlot, Owes5, Owes7
<1>5. SecretInv'
  BY <1>a, <1>b, <1>c, Places DEF Inv, Parts, SecretInv, NewSecret, Younger, OldSecrets, Apart, InSlot
<1>6. UseInv'
  BY <1>0, <1>a, <1>b DEF Inv, Parts, UseInv, Copies, Accounted, Unused, Confirmed, SentOnce, ConfirmedFirst, Told5
<1> QED BY <1>1, <1>2, <1>3, <1>4, <1>5, <1>6 DEF Parts

(* mlkem_result_ready takes the job off the phase; what is not delivered to *)
(* its own link leaves an empty phase or one that is about to be erased.    *)
LEMMA ResultStep == ASSUME Inv, Result PROVE Parts'
<1> USE DEF session, history
<1> DEFINE current == jobConn # 0 /\ jobConn = cur /\ notify
<1>0. Typed /\ w \in Workers /\ w.pc = "result"
  BY DEF Inv, Typed, Result
<1>a. /\ UNCHANGED <<cur, gen, notify, resets, s5, s6, s7, slot, starts, born, sent>>
      /\ p5' = Phase5After(current) /\ p7' = Phase7After(current) /\ jobConn' = 0 /\ ct' # "BUSY"
  BY DEF Result
<1>b. \/ /\ current /\ w'.pc = "notify" /\ w'.mode = w.mode /\ w'.root = w.root /\ w'.tx = w.tx
         /\ w'.ok = w.ok /\ w'.conn = cur
      \/ /\ ~current /\ w'.pc = "idle" /\ w'.mode = "none" /\ w'.root = 0 /\ ~w'.ok
  <2>1. CASE current
    <3>1. w' = [w EXCEPT !.pc = "notify", !.conn = jobConn] /\ jobConn = cur
      BY <2>1 DEF Result
    <3> QED BY <1>0, <2>1, <3>1 DEF Workers
  <2>2. CASE ~current
    <3>1. w' = Sleeping
      BY <2>2 DEF Result
    <3> QED BY <2>2, <3>1 DEF Sleeping
  <2> QED BY <2>1, <2>2
<1>c. ~slot.pending /\ ~slot.active
  BY <1>0, Places DEF Inv, Parts, OwnInv, SlotTaken
<1>d. ~current => ~Awaited(p5) /\ ~Awaited(p7)
  BY <1>0, Fields DEF Awaited
<1>1. OwnInv'
  <2>1. SlotTaken' /\ TransferOwned' /\ Abandoned'
    <3>1. "notify" \notin Computing \cup Modes /\ "idle" \notin Computing \cup Modes
          /\ "result" \notin Computing
      BY Places DEF Delivering
    <3>2. w.mode # "none"
      BY <1>0 DEF Inv, Parts, OwnInv, SlotTaken
    <3> QED BY <1>a, <1>b, <1>c, <3>1, <3>2 DEF SlotTaken, TransferOwned, Abandoned, JobHere
  <2>2. DeliversTo'
    <3>1. current => cur \in 1 .. gen
      BY <1>0, Fields
    <3> QED BY <1>a, <1>b, <3>1, Places DEF DeliversTo
  <2> QED BY <2>1, <2>2 DEF OwnInv
<1>2. ShapeInv'
  BY <1>a DEF Inv, Parts, ShapeInv, Whole5, Whole7
<1>3. EraseInv'
  <2>0. "notify" \notin Computing \cup {"result"} /\ "idle" \notin Computing \cup {"result"}
        /\ "notify" \notin Keeps5 \cup Jobs7 /\ "notify" # "data5" /\ "idle" # "data5"
    BY Places DEF Delivering
  <2>1. FreshAwaited' /\ StaleEmpty'
    BY <1>a, <1>b, <1>c, <2>0 DEF FreshAwaited, StaleEmpty, InSlot, InWorker, FreshIn, StaleIn
  <2>2. Starting5' /\ Consumed'
    BY <1>0, <1>a, <1>b, <1>c DEF Inv, Parts, EraseInv, Starting5, Consumed, Told5, Empty5, InSlot
  <2>3. p5' = "IDLE" => Owes5' \/ Empty5' \/ Erasing5'
    <3>1. CASE w.mode \notin Keeps5
      <4>1. p5' = p5
        BY <1>a, <3>1 DEF Phase5After, Keeps5
      <4> QED BY <1>0, <1>a, <4>1 DEF Inv, Parts, EraseInv, Held, Erasing5, Empty5, Owes5
    <3>2. CASE w.mode \in Keeps5 /\ ~current
      <4>1. w.fresh => Owes5
        BY <1>0, <1>d, <3>2 DEF Inv, Parts, EraseInv, FreshAwaited, FreshIn, InWorker
      <4>2. ~w.fresh => Empty5
        BY <1>0, <3>2 DEF Inv, Parts, EraseInv, StaleEmpty, StaleIn, InWorker
      <4> QED BY <1>a, <4>1, <4>2 DEF Empty5, Owes5
    <3>3. CASE w.mode = "data6" /\ current
      BY <1>a, <3>3 DEF Phase5After
    <3>4. CASE w.mode \in {"start5", "finished5", "data5"} /\ current
      <4>1. w.ok /\ w.mode # "data5" => p5' # "IDLE"
        BY <1>a, <3>4 DEF Phase5After
      <4>2. w.ok /\ w.mode = "data5" => Empty5
        BY <1>0 DEF Inv, Parts, EraseInv, Consumed, Told5
      <4>3. ~w.ok => Erasing5'
        BY <1>b, <3>4 DEF Erasing5
      <4> QED BY <1>a, <4>1, <4>2, <4>3 DEF Empty5
    <3> HIDE DEF current
    <3> QED BY <3>1, <3>2, <3>3, <3>4 DEF Keeps5
  <2>4. p7' = "IDLE" => Owes7' \/ s7' = No7
    <3>1. CASE w.mode # "data7"
      <4>1. p7' = p7
        BY <1>a, <3>1 DEF Phase7After
      <4> QED BY <1>0, <1>a, <4>1 DEF Inv, Parts, EraseInv, Held, Owes7
    <3>2. CASE w.mode = "data7" /\ ~current
      <4>1. w.fresh => Owes7
        BY <1>0, <1>d, <3>2 DEF Inv, Parts, EraseInv, FreshAwaited, FreshIn, InWorker, Jobs7
      <4>2. ~w.fresh => s7 = No7
        BY <1>0, <3>2 DEF Inv, Parts, EraseInv, StaleEmpty, StaleIn, InWorker, Jobs7
      <4> QED BY <1>a, <4>1, <4>2 DEF Owes7
    <3>3. CASE w.mode = "data7" /\ current
      BY <1>a, <3>3 DEF Phase7After
    <3> QED BY <3>1, <3>2, <3>3
  <2> QED BY <2>1, <2>2, <2>3, <2>4 DEF EraseInv, Held
<1>4. LinkInv'
  BY <1>a, <1>b, <1>c, Places DEF Inv, Parts, LinkInv, Here, InSlot, Owes5, Owes7, Delivering
<1>5. SecretInv'
  <2>1. "notify" \notin Starts /\ "idle" \notin Starts /\ "none" \notin Jobs7 \cup Keeps5 /\ 0 <= starts
    BY <1>0, Fields, Places DEF Starts
  <2> QED BY <1>a, <1>b, <1>c, <2>1 DEF Inv, Parts, SecretInv, NewSecret, Younger, OldSecrets, Apart, InSlot
<1>6. UseInv'
  BY <1>0, <1>a, <1>b DEF Inv, Parts, UseInv, Copies, Accounted, Unused, Confirmed, SentOnce, ConfirmedFirst, Told5
<1> QED BY <1>1, <1>2, <1>3, <1>4, <1>5, <1>6 DEF Parts

(* The worker goes on with the delivery. *)
LEMMA GotoFields ==
    ASSUME NEW pc \in Delivering \cup {"idle"}, w \in Workers, Goto(pc)
    PROVE  \/ /\ pc = "idle" /\ w'.pc = "idle" /\ w'.mode = "none" /\ w'.root = 0 /\ ~w'.ok
           \/ /\ pc # "idle" /\ w'.pc = pc /\ w'.mode = w.mode /\ w'.root = w.root /\ w'.tx = w.tx
              /\ w'.ok = w.ok /\ w'.conn = w.conn
<1>1. pc \in Pcs
  BY DEF Pcs
<1>2. CASE pc = "idle"
  BY <1>2 DEF Goto, Sleeping
<1>3. CASE pc # "idle"
  BY <1>1, <1>3, GotoWorker
<1> QED BY <1>2, <1>3

(* A delivery leaves the job in the slot as it is. *)
LEMMA DeliveryOwn ==
    ASSUME Inv, w.pc \in Delivering, NEW pc \in Delivering \cup {"idle"}, pc # "notify", Goto(pc),
           UNCHANGED <<cur, gen, ct, jobConn>>, slot'.pending = slot.pending, slot'.active = slot.active,
           p5' \in {p5, "IDLE"}, p7' \in {p7, "IDLE"} \/ w.conn = cur
    PROVE  OwnInv' /\ Consumed' /\ Accounted'
<1>0. w \in Workers /\ w.pc # "idle" /\ w.pc # "result"
  BY Places DEF Inv, Typed
<1>1. /\ w'.pc = pc /\ (pc = "idle" => w'.mode = "none")
      /\ (pc # "idle" => w'.mode = w.mode /\ w'.conn = w.conn)
  BY <1>0, GotoFields
<1>2. /\ pc \notin Computing /\ pc # "result" /\ pc \notin Modes /\ w.pc \notin Computing
      /\ pc \notin {"done", "data5"} /\ (pc \in Delivering => pc # "idle")
  <2>1. {"done", "data5"} \subseteq Computing
    BY DEF Computing, Modes, Jobs5
  <2> QED BY <2>1, Places
<1>3. OwnInv'
  BY <1>0, <1>1, <1>2 DEF Inv, Parts, OwnInv, SlotTaken, TransferOwned, DeliversTo, Abandoned, JobHere
<1>4. Consumed' /\ Accounted'
  BY <1>1, <1>2 DEF Consumed, Accounted, Told5
<1> QED BY <1>3, <1>4

(* The phase follows the outcome of the delivery, on its own link only. *)
LEMMA PhaseStep == ASSUME Inv, Wait7 \/ Auth7 \/ Fail7 \/ Fail5 PROVE Parts'
<1> USE DEF session, history
<1>0. Typed /\ w \in Workers /\ w.pc \in {"wait7", "auth7", "fail7", "fail5"} /\ w.pc \in Delivering
  BY DEF Inv, Typed, Wait7, Auth7, Fail7, Fail5, Delivering
<1>a. UNCHANGED <<cur, gen, notify, ct, jobConn, resets, s5, s6, s7, slot, starts, born, sent>>
  BY DEF Wait7, Auth7, Fail7, Fail5
<1>b. PICK pc \in {"idle", "reset5", "reset7"} :
          /\ Goto(pc)
          /\ p5' = p5 \/ (p5' = "IDLE" /\ pc = "reset5")
          /\ p7' = p7 \/ (w.conn = cur /\ p7' # "IDLE") \/ (p7' = "IDLE" /\ pc = "reset7")
          /\ w.pc = "fail5" => pc = "reset5"
  BY DEF Wait7, Auth7, Fail7, Fail5
<1>c. pc \in Delivering \cup {"idle"} /\ pc \notin Computing \cup {"result"} /\ pc \notin Keeps5 \cup Jobs7
      /\ pc \notin Starts
  BY Places DEF Delivering
<1>d. \/ w'.pc = "idle" /\ pc = "idle" /\ w'.mode = "none" /\ w'.root = 0 /\ ~w'.ok
      \/ w'.pc = pc /\ w'.mode = w.mode /\ w'.root = w.root /\ w'.tx = w.tx /\ w'.ok = w.ok
  BY <1>0, <1>b, <1>c, GotoFields
<1>1. OwnInv' /\ Consumed' /\ Accounted'
  BY <1>0, <1>a, <1>b, <1>c, DeliveryOwn
<1>2. ShapeInv'
  BY <1>a DEF Inv, Parts, ShapeInv, Whole5, Whole7
<1>3. FreshAwaited' /\ StaleEmpty' /\ Held' /\ Starting5'
  BY <1>0, <1>a, <1>b, <1>c, <1>d DEF Inv, Parts, EraseInv, FreshAwaited, StaleEmpty, Held, Starting5,
     Erasing5, Empty5, Owes5, Owes7, InSlot, InWorker, FreshIn, StaleIn, Awaited
<1>4. LinkInv'
  BY <1>a, <1>c, <1>d DEF Inv, Parts, LinkInv, Here, InSlot, Owes5, Owes7
<1>5. SecretInv'
  <2>1. 0 <= starts /\ (w.root < starts => 0 < starts) /\ "none" \notin Jobs7 \cup Keeps5
    BY <1>0, Fields, Places
  <2> QED BY <1>a, <1>c, <1>d, <2>1 DEF Inv, Parts, SecretInv, NewSecret, Younger, OldSecrets, Apart, InSlot
<1>6. Copies' /\ Unused' /\ Confirmed' /\ SentOnce' /\ ConfirmedFirst'
  BY <1>a, <1>b, <1>d DEF Inv, Parts, UseInv, Copies, Unused, Confirmed, SentOnce, ConfirmedFirst
<1> QED BY <1>1, <1>2, <1>3, <1>4, <1>5, <1>6 DEF Parts, EraseInv, UseInv

(* The worker resets the session after a failed delivery. *)
LEMMA WorkerResetsStep == ASSUME Inv, WorkerResets PROVE Parts'
<1> USE DEF control, history
<1>0. Typed /\ w \in Workers /\ slot \in Slots /\ w.pc \in {"reset5", "reset7"} /\ w.pc \in Delivering
  BY DEF Inv, Typed, WorkerResets, Delivering
<1>a. UNCHANGED <<cur, gen, notify, ct, p5, p7, jobConn, resets, starts, born, sent>> /\ Goto("idle")
  BY DEF WorkerResets
<1>b. /\ w'.pc = "idle" /\ w'.mode = "none" /\ w'.root = 0 /\ ~w'.ok
  BY <1>0, <1>a, GotoFields
<1>c. /\ slot'.pending = slot.pending /\ slot'.active = slot.active
      /\ slot'.mode = slot.mode /\ slot'.root = slot.root
  BY <1>0, RetiredSlot DEF WorkerResets, Reset5, Reset7
<1>d. \/ /\ w.pc = "reset5" /\ s5' = No5 /\ s6' = No6 /\ s7' = s7
         /\ (slot'.fresh <=> slot.fresh /\ slot.mode \notin Jobs5)
      \/ /\ w.pc = "reset7" /\ s5' = s5 /\ s6' = s6 /\ s7' = No7
         /\ (slot'.fresh <=> slot.fresh /\ slot.mode \notin Jobs7)
  BY <1>0, RetiredSlot DEF WorkerResets, Reset5, Reset7
<1>1. OwnInv' /\ Consumed' /\ Accounted'
  BY <1>0, <1>a, <1>c, DeliveryOwn
<1>2. ShapeInv'
  BY <1>d DEF Inv, Parts, ShapeInv, Whole5, Whole7, No5, No6, No7
<1>e. "idle" \notin Computing /\ "idle" \notin Keeps5 \cup Jobs7 \cup Starts
  BY Places
<1>3. FreshAwaited' /\ StaleEmpty' /\ Held' /\ Starting5'
  <2>1. FreshAwaited'
    BY <1>0, <1>a, <1>b, <1>c, <1>d, <1>e, Places
       DEF Inv, Parts, EraseInv, FreshAwaited, InSlot, InWorker, FreshIn, Awaited, Owes5, Owes7
  <2>2. StaleEmpty'
    BY <1>b, <1>c, <1>d, <1>e, Places DEF Inv, Parts, EraseInv, StaleEmpty, InSlot, InWorker, StaleIn, Empty5
  <2>3. Held' /\ Starting5'
    BY <1>a, <1>b, <1>c, <1>d DEF Inv, Parts, EraseInv, Held, Starting5, Empty5, Erasing5, InSlot, Owes5, Owes7
  <2> QED BY <2>1, <2>2, <2>3
<1>4. LinkInv'
  <2>1. "start5" \in Jobs5 /\ "start7" \in Jobs7
    BY DEF Jobs5, Jobs7
  <2> QED BY <1>a, <1>b, <1>c, <1>d, <1>e, <2>1
          DEF Inv, Parts, LinkInv, Here, InSlot, No5, No6, No7, Owes5, Owes7
<1>5. SecretInv'
  <2>1. /\ s5'.root \in {0, s5.root} /\ s6'.root \in {0, s6.root} /\ s7'.root \in {0, s7.root}
    BY <1>d DEF No5, No6, No7
  <2>2. 0 <= starts /\ "none" \notin Jobs7 \cup Keeps5
    BY <1>0, Fields, Places
  <2> QED BY <1>0, <1>a, <1>b, <1>c, <1>e, <2>1, <2>2, Fields
          DEF Inv, Parts, SecretInv, NewSecret, Younger, OldSecrets, Apart, InSlot
<1>6. Copies' /\ Unused' /\ Confirmed' /\ SentOnce' /\ ConfirmedFirst'
  BY <1>a, <1>b, <1>d DEF Inv, Parts, UseInv, Copies, Unused, Confirmed, SentOnce, ConfirmedFirst, No5, No6, No7
<1> QED BY <1>1, <1>2, <1>3, <1>4, <1>5, <1>6 DEF Parts, EraseInv, UseInv

(* FINISHED_P was queued: the pending keys become active. *)
LEMMA CommitStep == ASSUME Inv, Commit7 PROVE Parts'
<1> USE DEF control, history
<1>0. Typed /\ w \in Workers /\ s7 \in S7 /\ w.pc = "commit7" /\ w.pc \in Delivering
  BY TypedParts DEF Inv, Commit7, Delivering
<1>a. UNCHANGED <<cur, gen, notify, ct, p5, p7, jobConn, resets, s5, s6, slot, starts, born, sent>>
  BY DEF Commit7
<1>b. PICK pc \in {"auth7", "fail7"} : Goto(pc)
  BY DEF Commit7
<1>c. pc \in Delivering \cup {"idle"} /\ pc \notin Computing \cup {"result"} /\ pc \notin Keeps5 \cup Jobs7
      /\ pc \notin Starts
  BY Places DEF Delivering
<1>d. w'.pc = pc /\ w'.mode = w.mode /\ w'.root = w.root /\ w'.tx = w.tx /\ w'.ok = w.ok
  BY <1>0, <1>b, <1>c, GotoFields
<1>e. \/ s7' = s7
      \/ /\ s7.pend /\ ~s7.wait /\ ~slot.pending /\ s7'.auth /\ ~s7'.pend /\ ~s7'.wait /\ s7'.root = s7.root
  BY <1>0 DEF Commit7, S7, SlotFree
<1>1. OwnInv' /\ Consumed' /\ Accounted'
  BY <1>0, <1>a, <1>b, <1>c, DeliveryOwn
<1>2. ShapeInv'
  BY <1>a, <1>e DEF Inv, Parts, ShapeInv, Whole5, Whole7
<1>3. FreshAwaited' /\ StaleEmpty' /\ Held' /\ Starting5'
  BY <1>0, <1>a, <1>b, <1>c, <1>d, <1>e DEF Inv, Parts, EraseInv, FreshAwaited, StaleEmpty, Held, Starting5,
     Erasing5, Empty5, Owes5, Owes7, InSlot, InWorker, FreshIn, StaleIn, Awaited, No7
<1>4. LinkInv'
  BY <1>a, <1>c, <1>d, <1>e DEF Inv, Parts, LinkInv, Here, InSlot, Owes5, Owes7
<1>5. SecretInv'
  BY <1>a, <1>c, <1>d, <1>e DEF Inv, Parts, SecretInv, NewSecret, Younger, OldSecrets, Apart, InSlot
<1>6. Copies' /\ Unused' /\ Confirmed' /\ SentOnce'
  BY <1>0, <1>a, <1>b, <1>d, <1>e DEF Inv, Parts, UseInv, Copies, Unused, Confirmed, SentOnce
<1>7. ConfirmedFirst'
  BY <1>0, <1>a, <1>e DEF Inv, Parts, ShapeInv, Whole7, UseInv, Copies, Confirmed, ConfirmedFirst
<1> QED BY <1>1, <1>2, <1>3, <1>4, <1>5, <1>6, <1>7 DEF Parts, EraseInv, UseInv

(* What a delivered answer adds to the history is under a key that is gone, *)
(* or below its send counter.                                               *)
LEMMA NotifyStep == ASSUME Inv, NEW delivered \in BOOLEAN, Notify(delivered) PROVE Parts'
<1> USE DEF control, session
<1>0. Typed /\ w \in Workers /\ w.pc = "notify" /\ w.pc \in Delivering /\ w.ok \in BOOLEAN
  BY Fields DEF Inv, Typed, Notify, Delivering
<1>a. UNCHANGED <<cur, gen, notify, ct, p5, p7, jobConn, resets, s5, s6, s7, slot, starts, born>>
  BY DEF Notify
<1>b. PICK pc : Goto(pc) /\ pc = AfterNotify(delivered)
  BY DEF Notify
<1>c. /\ pc \in {"idle", "wait7", "commit7", "fail7", "fail5", "reset5"}
      /\ pc = "commit7" => w.mode = "finished7" /\ w.ok /\ delivered
      /\ ~w.ok /\ w.mode \in {"start5", "finished5", "data5"} => pc \in {"fail5", "reset5"}
  BY <1>0, <1>b DEF AfterNotify, Jobs5
<1>d. pc \in Delivering \cup {"idle"} /\ pc \notin Computing \cup {"result"} /\ pc \notin Keeps5 \cup Jobs7
      /\ pc \notin Starts
  BY <1>c, Places DEF Delivering
<1>e. \/ w'.pc = "idle" /\ pc = "idle" /\ w'.mode = "none" /\ w'.root = 0 /\ ~w'.ok
      \/ w'.pc = pc /\ w'.mode = w.mode /\ w'.root = w.root /\ w'.tx = w.tx /\ w'.ok = w.ok
  BY <1>0, <1>b, <1>d, GotoFields
<1>f. \/ sent' = sent /\ pc # "commit7"
      \/ /\ w.ok /\ w.mode \in {"data5", "data6", "data7", "finished7"}
         /\ \E kind, n : /\ sent' = sent \cup {<<w.root, kind, n>>}
                         /\ (w.mode = "data6" => kind = "data6" /\ n = w.tx)
                         /\ (w.mode = "data7" => kind = "data7" /\ n = w.tx)
                         /\ (kind = "data7" => w.mode = "data7")
                         /\ (w.mode = "finished7" => kind = "FINISHED_P" /\ n = 0)
  <2>1. CASE ~(delivered /\ w.ok)
    BY <1>0, <1>c, <2>1 DEF Notify
  <2>2. CASE delivered /\ w.ok
    <3>1. sent' = sent \cup Told
      BY <2>2 DEF Notify
    <3>2. CASE w.mode = "data5"
      <4>1. Told = {<<w.root, "K_app", 0>>}
        BY <3>2 DEF Told
      <4> QED BY <2>2, <3>1, <3>2, <4>1
    <3>3. CASE w.mode = "data6"
      <4>1. Told = {<<w.root, "data6", w.tx>>}
        BY <3>3 DEF Told
      <4> QED BY <2>2, <3>1, <3>3, <4>1
    <3>4. CASE w.mode = "data7"
      <4>1. Told = {<<w.root, "data7", w.tx>>}
        BY <3>4 DEF Told
      <4> QED BY <2>2, <3>1, <3>4, <4>1
    <3>5. CASE w.mode = "finished7"
      <4>1. Told = {<<w.root, "FINISHED_P", 0>>}
        BY <3>5 DEF Told
      <4> QED BY <2>2, <3>1, <3>5, <4>1
    <3>6. CASE w.mode \notin {"data5", "data6", "data7", "finished7"}
      <4>1. Told = {} /\ pc # "commit7"
        BY <1>c, <3>6 DEF Told
      <4> QED BY <3>1, <4>1
    <3> QED BY <3>2, <3>3, <3>4, <3>5, <3>6
  <2> QED BY <2>1, <2>2
<1>1. OwnInv' /\ Consumed' /\ Accounted'
  BY <1>0, <1>a, <1>b, <1>c, <1>d, DeliveryOwn
<1>2. ShapeInv'
  BY <1>a DEF Inv, Parts, ShapeInv, Whole5, Whole7
<1>3. FreshAwaited' /\ StaleEmpty' /\ Held' /\ Starting5'
  BY <1>0, <1>a, <1>c, <1>d, <1>e DEF Inv, Parts, EraseInv, FreshAwaited, StaleEmpty, Held, Starting5,
     Erasing5, Empty5, Owes5, Owes7, InSlot, InWorker, FreshIn, StaleIn, Awaited
<1>4. LinkInv'
  BY <1>a, <1>d, <1>e DEF Inv, Parts, LinkInv, Here, InSlot, Owes5, Owes7
<1>5. SecretInv'
  <2>1. 0 <= starts /\ (w.root < starts => 0 < starts) /\ "none" \notin Jobs7 \cup Keeps5
    BY <1>0, Fields, Places
  <2>2. \A e \in sent' : e \in sent \/ e[1] = w.root
    BY <1>f
  <2>3. NewSecret'
    BY <1>a, <1>d, <1>e, <2>1, <2>2 DEF Inv, Parts, SecretInv, NewSecret, Younger, InSlot
  <2>4. OldSecrets' /\ Apart'
    BY <1>a, <1>e, <2>1, <2>2 DEF Inv, Parts, SecretInv, OldSecrets, Apart
  <2> QED BY <2>3, <2>4 DEF SecretInv
<1>6. Copies' /\ Confirmed' /\ ConfirmedFirst'
  BY <1>a, <1>c, <1>e, <1>f DEF Inv, Parts, UseInv, Copies, Confirmed, ConfirmedFirst
<1>7. Unused' /\ SentOnce'
  <2>1. CASE sent' = sent
    BY <1>a, <2>1 DEF Inv, Parts, UseInv, Unused, SentOnce
  <2>2. ASSUME NEW kind, NEW n, sent' = sent \cup {<<w.root, kind, n>>}, w.ok,
               w.mode \in {"data5", "data6", "data7", "finished7"},
               w.mode = "data6" => kind = "data6" /\ n = w.tx,
               w.mode = "data7" => kind = "data7" /\ n = w.tx,
               kind = "data7" => w.mode = "data7"
        PROVE  Unused' /\ SentOnce'
    <3>0. Told5 /\ w.tx \in Nat /\ w.tx < w.tx + 1
      BY <1>0, <2>2, Fields DEF Told5
    <3>1. s5.wait \/ s5.ready => w.root # s5.root
      BY <2>2, <3>0 DEF Inv, Parts, EraseInv, Consumed, Empty5, No5, ShapeInv, Whole5, UseInv, Accounted,
         SecretInv, Apart, Jobs7
    <3>2. s6.active /\ w.root = s6.root => kind = "data6" /\ n < s6.tx
      BY <2>2, <3>0 DEF Inv, Parts, EraseInv, Consumed, Empty5, No6, ShapeInv, Whole5, UseInv, Accounted,
         SecretInv, Apart, Jobs7
    <3>3. s7.wait \/ s7.pend => (w.root = s7.root => kind # "data7")
      BY <2>2, <3>0 DEF Inv, Parts, No7, ShapeInv, Whole7, UseInv, Accounted
    <3>4. s7.auth /\ w.root = s7.root /\ kind = "data7" => n < s7.tx
      BY <2>2, <3>0 DEF Inv, Parts, No7, UseInv, Accounted
    <3>5. \A e \in sent' : e \in sent \/ (e[1] = w.root /\ e[2] = kind /\ e[3] = n)
      BY <2>2
    <3>6. Unused'
      BY <1>a, <3>1, <3>3, <3>5 DEF Inv, Parts, UseInv, Unused
    <3>7. SentOnce'
      BY <1>a, <3>1, <3>2, <3>4, <3>5 DEF Inv, Parts, UseInv, SentOnce
    <3> QED BY <3>6, <3>7
  <2> QED BY <1>f, <2>1, <2>2
<1> QED BY <1>1, <1>2, <1>3, <1>4, <1>5, <1>6, <1>7 DEF Parts, EraseInv, UseInv

-----------------------------------------------------------------------------
(* The firmware starts with nothing retained and no job. *)
LEMMA InitInv == Init => Inv
<1> SUFFICES ASSUME Init PROVE Inv
  OBVIOUS
<1> USE DEF Init
<1>a. /\ s5.root = 0 /\ ~s5.wait /\ ~s5.ready /\ s6.root = 0 /\ ~s6.active /\ s7.root = 0
      /\ ~s7.wait /\ ~s7.pend /\ ~s7.auth /\ ~slot.pending /\ ~slot.active /\ w.pc = "idle"
      /\ w.mode = "none" /\ w.root = 0
  BY DEF No5, No6, No7, NoJob, Sleeping
<1>b. "idle" \notin Computing \cup Delivering /\ Modes \subseteq Computing /\ "none" \notin Modes
      /\ Keeps5 \subseteq Modes /\ Jobs7 \subseteq Modes /\ Starts \subseteq Modes
  BY Places
<1>0. Typed
  <2>1. HistoryTyped /\ CountersOrdered /\ NamedJob
    BY <1>a, Zero, NothingTyped DEF HistoryTyped, CountersOrdered, NamedJob
  <2>2. cur \in Gens /\ gen \in Gens /\ ct \in Cts /\ p5 \in P5 /\ p7 \in P7 /\ resets \in Owed
    BY Zero, OwedCases DEF Cts, P5, P7
  <2> QED BY <2>1, <2>2, NothingTyped, TypedParts
<1>1. OwnInv
  BY <1>a, <1>b DEF OwnInv, SlotTaken, TransferOwned, DeliversTo, Abandoned, JobHere
<1>2. ShapeInv
  BY <1>a DEF ShapeInv, Whole5, Whole7
<1>3. EraseInv
  BY <1>a, <1>b DEF EraseInv, FreshAwaited, StaleEmpty, Held, Starting5, Consumed, Told5, Empty5, InSlot,
     InWorker, FreshIn, StaleIn
<1>4. LinkInv
  BY <1>a, <1>b DEF LinkInv, Here, InSlot
<1>5. SecretInv
  BY <1>a, <1>b DEF SecretInv, NewSecret, OldSecrets, Apart, InSlot
<1>6. UseInv
  BY <1>a DEF UseInv, Copies, Accounted, Unused, Confirmed, SentOnce, ConfirmedFirst, Told5
<1> QED BY <1>0, <1>1, <1>2, <1>3, <1>4, <1>5, <1>6 DEF Inv, Parts

(* A stuttering step. *)
LEMMA StutterStep == Inv /\ UNCHANGED vars => Parts'
<1> SUFFICES ASSUME Inv, UNCHANGED vars PROVE Parts'
  OBVIOUS
<1>0. UNCHANGED <<cur, gen, notify, ct, p5, p7, jobConn, resets, s5, s6, s7, slot, w, starts, born, sent>>
  BY DEF vars, control, session, history
<1>1. OwnInv' /\ ShapeInv'
  BY <1>0 DEF Inv, Parts, OwnInv, SlotTaken, TransferOwned, DeliversTo, Abandoned, JobHere, ShapeInv, Whole5,
     Whole7
<1>3. EraseInv'
  BY <1>0 DEF Inv, Parts, EraseInv, FreshAwaited, StaleEmpty, Held, Starting5, Consumed, Told5,
     Erasing5, Empty5, Owes5, Owes7, InSlot, InWorker, FreshIn, StaleIn, Awaited
<1>4. LinkInv' /\ SecretInv'
  BY <1>0 DEF Inv, Parts, LinkInv, Here, InSlot, Owes5, Owes7, SecretInv, NewSecret, Younger, OldSecrets, Apart
<1>6. UseInv'
  BY <1>0 DEF Inv, Parts, UseInv, Copies, Accounted, Unused, Confirmed, SentOnce, ConfirmedFirst, Told5
<1> QED BY <1>1, <1>3, <1>4, <1>6 DEF Parts

(* Every step keeps the types and the parts. *)
LEMMA SessionStep == Inv /\ [Next]_vars => Inv'
<1> SUFFICES ASSUME Inv, [Next]_vars PROVE Inv'
  OBVIOUS
<1>1. Typed'
  BY TypedStep DEF Inv
<1> SUFFICES Parts'
  BY <1>1 DEF Inv
<1>2. CASE HostNext
  BY <1>2, LinkStep, TransferStep, StartStep, CommandsStep DEF HostNext
<1>3. CASE HostResets
  BY <1>3, HostResetsStep
<1>4. CASE WorkerNext
  <2>1. CASE TakeJob \/ JobDone \/ Result
    BY <2>1, TakeStep, JobDoneStep, ResultStep
  <2>2. ASSUME NEW crypto \in BOOLEAN,
               \/ Compute(crypto) \/ Start5(crypto) \/ Start7(crypto)
               \/ Finished5(crypto) \/ Finished7(crypto) \/ Data6(crypto) \/ Data7(crypto)
        PROVE  Parts'
    BY <2>2, ComputeStep, Start5Step, Start7Step, Finished5Step, Finished7Step, Data6Step, Data7Step
  <2>3. ASSUME NEW delivered \in BOOLEAN, Notify(delivered) PROVE Parts'
    BY <2>3, NotifyStep
  <2>4. CASE Wait7 \/ Commit7 \/ Auth7 \/ Fail7 \/ Fail5 \/ WorkerResets
    BY <2>4, PhaseStep, CommitStep, WorkerResetsStep
  <2> QED BY <1>4, <2>1, <2>2, <2>3, <2>4 DEF WorkerNext
<1>5. CASE UNCHANGED vars
  BY <1>5, StutterStep
<1> QED BY <1>2, <1>3, <1>4, <1>5 DEF Next

(* The inductive invariant holds in every behaviour: the parts of it hold   *)
(* together, since what the worker may store depends on what the host still *)
(* owes, and what it sends on what it stored.                               *)
THEOREM SessionInvariant == Spec => []Inv
  BY InitInv, SessionStep, PTL DEF Spec

(* Whenever the host callbacks have returned, the material the session      *)
(* retains is of a START of the link that is up, and an idle phase retains  *)
(* none once the worker is at rest too, for any number of connections,      *)
(* STARTs and PING labels.                                                  *)
THEOREM SessionSafe == Spec => []SessionInv
<1>1. Inv => SessionInv
  <2> SUFFICES ASSUME Inv PROVE SessionInv
    OBVIOUS
  <2>1. HostFree => ~Owes5 /\ ~Owes7
    BY OwedCases DEF HostFree, Owes5, Owes7
  <2>2. MaterialOfThisLink
    BY <2>1 DEF Inv, Parts, LinkInv, Here, MaterialOfThisLink
  <2>3. IdleHoldsNothing
    BY <2>1 DEF Inv, Parts, EraseInv, Held, Empty5, Erasing5, IdleHoldsNothing
  <2> QED BY <2>2, <2>3 DEF SessionInv, Inv, Typed
<1> QED BY <1>1, SessionInvariant, PTL

(* The transfer is CRYPTO_BUSY exactly while a job is on its way: a late    *)
(* mlkem_result_ready never wipes the transfer of a new connection.         *)
THEOREM TransferSafe == Spec => []TransferOwned
<1>1. Inv => TransferOwned
  BY DEF Inv, Parts, OwnInv
<1> QED BY <1>1, SessionInvariant, PTL

(* K_app protects one message or becomes the root of v0.6, and no answer of *)
(* a data plane repeats a sequence number under its key, however late and   *)
(* however often deliveries fail.                                           *)
THEOREM SentOnceSafe == Spec => []SentOnce
<1>1. Inv => SentOnce
  BY DEF Inv, Parts, UseInv
<1> QED BY <1>1, SessionInvariant, PTL

(* Traffic keys of v0.7 are active only after FINISHED_P of the same        *)
(* handshake was queued.                                                    *)
THEOREM ConfirmedSafe == Spec => []ConfirmedFirst
<1>1. Inv => ConfirmedFirst
  BY DEF Inv, Parts, UseInv
<1> QED BY <1>1, SessionInvariant, PTL
=============================================================================
