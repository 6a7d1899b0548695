----------------------------- MODULE LaneProofs -----------------------------
(***************************************************************************)
(* Theorems about the lanes: their children, for any tickets, readers,      *)
(* number of runs and ends of the writer, and any faults; and the           *)
(* controlled re-entry of one admission, for any number of runs and grants  *)
(* and any setting of the faults.                                           *)
(***************************************************************************)
EXTENDS LaneChildren, LaneReentry, SequenceTheorems, FiniteSetTheorems, WellFoundedInduction,
        TLAPS

-----------------------------------------------------------------------------
(* The inductive invariant of the children *)

Record == [status : Statuses, run : 0 .. MaxRuns, started : Nat, mtime : Nat]
Born(r) == r \in Runs /\ proc[r] # "unborn"

(* The rows the type invariant of the model leaves open.                     *)
Launches == [ticket : Tickets \cup {0}, run : 0 .. MaxRuns, started : Nat]
ScanRow == [pc : {"off", "scan", "settle", "done"}, todo : SUBSET Tickets,
            since : Nat, cutoff : Nat, carried : SUBSET Tickets,
            running : SUBSET Tickets, newest : Nat, record : Record]
OutsideRow == [controller : {"up", "down"}, request : BOOLEAN, drained : BOOLEAN,
               late : SUBSET Runs]
LaneType ==
    /\ TypeOK
    /\ marker \in [cutoff : Nat, running : SUBSET Tickets]
    /\ writer \in [state : {"down", "starting", "up"}, handle : [Tickets -> 0 .. MaxRuns],
                   index : SUBSET Tickets, current : 0 .. MaxRuns, launch : Launches]
    /\ scan \in [Scanners -> ScanRow]
    /\ outside \in OutsideRow
    /\ clock \in Nat /\ deaths \in Nat

(* Runs are born in order, and a child has an exit once it is over.          *)
RunsInOrder ==
    /\ \A r, s \in Runs : s <= r /\ proc[r] # "unborn" => proc[s] # "unborn"
    /\ \A r \in Runs : exit[r] = "none" <=> proc[r] \in {"unborn", "alive"}

(* A ticket names a run that was started.                                    *)
TicketsNamed ==
    \A t \in Tickets : IF ticket[t].status = "none" THEN ticket[t].run = 0
                       ELSE Born(ticket[t].run)

(* What the launcher of the writer holds.                                    *)
WriterKnows ==
    /\ writer.state # "up" => /\ writer.handle = [t \in Tickets |-> 0]
                              /\ writer.launch = NoLaunch /\ writer.current = 0
    /\ writer.state = "starting" <=> scan["writer"].pc # "off"
    /\ scan["writer"].pc # "done"
    /\ \A t \in Tickets : writer.handle[t] # 0 =>
          /\ proc[writer.handle[t]] \in {"alive", "exited"}
          /\ ticket[t].status = "running" => ticket[t].run = writer.handle[t]
    /\ writer.launch # NoLaunch =>
          /\ writer.launch.ticket \in Tickets /\ writer.launch.run \in Runs
          /\ proc[writer.launch.run] \in {"alive", "exited"}
          /\ outside.request

(* What a scan is about to settle is over.                                   *)
ScansJudge ==
    \A p \in Scanners : scan[p].pc = "settle" =>
        /\ scan[p].todo # {} /\ scan[p].record.status = "running"
        /\ Born(scan[p].record.run) /\ ~Alive(scan[p].record.run)

(* Stamps are of the past.                                                   *)
StampsPast ==
    /\ \A t \in Tickets : ticket[t].mtime <= clock
    /\ marker.cutoff <= clock
    /\ \A p \in Scanners : scan[p].newest <= clock

NoReaders == setting.readers = {}

(* Without readers the tickets say of own children what the handles say, and *)
(* after a drain that went through the living ones were launched since.      *)
DrainHolds ==
    NoReaders =>
        /\ \A p \in Readers : scan[p].pc = "off"
        /\ \A t \in Tickets : Alive(writer.handle[t]) =>
              /\ ticket[t].status = "running"
              /\ outside.drained => writer.handle[t] \in outside.late

AtMostOne == \A r, s \in Runs : Alive(r) /\ Alive(s) => r = s
LaunchAlone ==
    writer.launch # NoLaunch => \A r \in Runs : Alive(r) => r = writer.launch.run

(* Without readers every child is on a ticket, and every running ticket is   *)
(* one the next scan, or the launcher, knows.                                *)
OnTicket(t) == ticket[t].status = "running" /\ Alive(ticket[t].run)
KnownByTickets ==
    /\ \A r \in Runs : Alive(r) =>
          \/ r = writer.launch.run
          \/ \E t \in Tickets : ticket[t].status = "running" /\ ticket[t].run = r
    /\ \A t \in Tickets : ticket[t].run # 0 => ticket[t].run # writer.launch.run
    /\ \A t \in Tickets : OnTicket(t) =>
          /\ ticket[t].mtime <= marker.cutoff => t \in marker.running
          /\ writer.state = "starting" => t \in scan["writer"].todo \cup scan["writer"].running
          /\ writer.state = "up" =>
                \/ writer.handle[t] = ticket[t].run /\ writer.current = ticket[t].run
                \/ writer.handle[t] = 0 /\ t \in writer.index
    /\ writer.state = "starting" =>
          /\ scan["writer"].cutoff = marker.cutoff /\ scan["writer"].carried = marker.running
    /\ scan["writer"].pc = "settle" => scan["writer"].record = ticket[Min(scan["writer"].todo)]

(* A writer that never ends knows its last child.                            *)
KnownByWriter ==
    \A r \in Runs : Alive(r) =>
        writer.state = "up" /\ r \in {writer.launch.run, writer.current}

OneAtATime ==
    ~Window =>
        /\ NoReaders \/ deaths = 0 => AtMostOne /\ LaunchAlone
        /\ NoReaders => KnownByTickets
        /\ deaths = 0 => KnownByWriter

LaneInv ==
    /\ LaneType /\ RunsInOrder /\ TicketsNamed /\ TicketTellsTheExit /\ WriterKnows
    /\ ScansJudge /\ StampsPast /\ DrainHolds /\ OneAtATime

-----------------------------------------------------------------------------
(* Runs, tickets and records *)

LEMMA SettingStays ==
    ASSUME UNCHANGED setting
    PROVE  /\ PidReuse' <=> PidReuse
           /\ DiskFails' <=> DiskFails
           /\ Window' <=> Window
           /\ NoReaders' <=> NoReaders
<1> QED BY DEF PidReuse, DiskFails, Window, NoReaders

LEMMA Runners ==
    ASSUME NEW r \in 0 .. MaxRuns
    PROVE  /\ Alive(r) <=> r \in Runs /\ proc[r] = "alive"
           /\ Alive(r)' <=> r \in Runs /\ proc'[r] = "alive"
           /\ r # 0 <=> r \in Runs
           /\ Born(r) <=> r \in Runs /\ proc[r] # "unborn"
           /\ Born(r)' <=> r \in Runs /\ proc'[r] # "unborn"
<1>1. MaxRuns \in Nat
  BY LaneAssumption
<1> QED BY <1>1 DEF Alive, Runs, Born

LEMMA RunIs ==
    ASSUME NEW r \in Runs
    PROVE  /\ r \in 0 .. MaxRuns /\ r # 0
           /\ Alive(r) <=> proc[r] = "alive"
           /\ Alive(r)' <=> proc'[r] = "alive"
<1>1. MaxRuns \in Nat
  BY LaneAssumption
<1> QED BY <1>1 DEF Alive, Runs

LEMMA ScannerIs ==
    /\ "writer" \in Scanners /\ "writer" \notin Readers
    /\ \A p \in Readers : p \in Scanners
    /\ \A p \in Scanners : p = "writer" \/ p \in Readers
<1> QED BY LaneAssumption DEF Scanners

LEMMA NothingIs ==
    /\ NoTicket \in Record /\ NoTicket.run = 0 /\ NoTicket.status = "none" /\ NoTicket.mtime = 0
    /\ NoLaunch \in Launches /\ NoLaunch.run = 0
    /\ NoScan \in ScanRow /\ NoScan.pc = "off" /\ NoScan.newest = 0
    /\ 0 \in 0 .. MaxRuns /\ 0 \notin Runs /\ ~Alive(0)
<1>1. MaxRuns \in Nat
  BY LaneAssumption
<1>2. NoTicket \in Record /\ NoTicket.run = 0 /\ NoTicket.status = "none" /\ NoTicket.mtime = 0
  BY <1>1 DEF NoTicket, Record, Statuses
<1>3. NoLaunch \in Launches /\ NoLaunch.run = 0
  BY <1>1 DEF NoLaunch, Launches
<1>4. NoScan \in ScanRow /\ NoScan.pc = "off" /\ NoScan.newest = 0
  BY <1>2 DEF NoScan, ScanRow
<1> QED BY <1>1, <1>2, <1>3, <1>4 DEF Alive, Runs

(* A directory that is not empty has a first ticket: one with the fewest      *)
(* tickets up to it.                                                         *)
LEMMA FirstTicket ==
    ASSUME NEW S \in SUBSET Tickets, S # {}
    PROVE  Min(S) \in S
<1> DEFINE Upto(x) == S \cap (0 .. x)
<1>1. S \subseteq Nat
  BY LaneAssumption
<1>2. \A x \in S : x \in Upto(x)
  BY <1>1
<1> DEFINE Uptos == {Upto(x) : x \in S}
<1>3. Uptos \subseteq FiniteSubsetsOf(S) /\ Uptos # {}
  <2>1. IsFiniteSet(S)
    BY LaneAssumption, FS_Subset
  <2>2. \A x \in S : Upto(x) \in SUBSET S /\ IsFiniteSet(Upto(x))
    BY <2>1, FS_Subset
  <2> QED BY <2>2 DEF FiniteSubsetsOf
<1>4. \E T \in Uptos : \A U \in Uptos : ~ (<<U, T>> \in StrictSubsetOrdering(S))
  <2> HIDE DEF Uptos
  <2>1. IsWellFoundedOn(StrictSubsetOrdering(S), FiniteSubsetsOf(S))
    BY FS_StrictSubsetOrderingWellFounded
  <2> QED BY <1>3, <2>1, WFMin
<1>5. PICK x \in S : \A y \in S : ~ (<<Upto(y), Upto(x)>> \in StrictSubsetOrdering(S))
  BY <1>4
<1>6. ASSUME NEW y \in S, y < x PROVE FALSE
  <2>1. Upto(y) \subseteq Upto(x) /\ x \notin Upto(y) /\ x \in Upto(x)
    BY <1>1, <1>6
  <2>2. <<Upto(y), Upto(x)>> \in StrictSubsetOrdering(S)
    BY <2>1 DEF StrictSubsetOrdering
  <2> QED BY <1>5, <2>2
<1>7. \A y \in S : x =< y
  BY <1>1, <1>6
<1> QED BY <1>7 DEF Min

(* A process whose pid is free, or taken by a stranger, is not a child.       *)
LEMMA GoneIsOver ==
    ASSUME NEW r \in 0 .. MaxRuns, FALSE \in HoldsSlot(r)
    PROVE  ~Alive(r)
<1> QED BY DEF HoldsSlot, Alive

LEMMA RowsAre ==
    ASSUME LaneType, NEW t \in Tickets
    PROVE  /\ ticket[t] \in Record
           /\ ticket[t].status \in Statuses /\ ticket[t].run \in 0 .. MaxRuns
           /\ ticket[t].started \in Nat /\ ticket[t].mtime \in Nat
           /\ writer.handle[t] \in 0 .. MaxRuns
<1>1. ticket[t] \in Record /\ writer.handle[t] \in 0 .. MaxRuns
  BY DEF LaneType, TypeOK, Record
<1> QED BY <1>1 DEF Record

LEMMA ScanIs ==
    ASSUME LaneType, NEW p \in Scanners
    PROVE  /\ scan[p] \in ScanRow
           /\ scan[p].pc \in {"off", "scan", "settle", "done"}
           /\ scan[p].todo \in SUBSET Tickets /\ scan[p].since \in Nat /\ scan[p].cutoff \in Nat
           /\ scan[p].carried \in SUBSET Tickets /\ scan[p].running \in SUBSET Tickets
           /\ scan[p].newest \in Nat /\ scan[p].record \in Record
           /\ scan[p].record.run \in 0 .. MaxRuns
<1>1. scan[p] \in ScanRow
  BY DEF LaneType
<1> QED BY <1>1 DEF ScanRow, Record

(* The typed rows are what the type invariant of the model asks for.          *)
LEMMA TypeFromRows ==
    ASSUME ticket \in [Tickets -> Record], marker \in [cutoff : Nat, running : SUBSET Tickets],
           proc \in [Runs -> {"unborn", "alive", "exited", "reused", "gone"}],
           exit \in [Runs -> {"none", "ok", "bad"}],
           writer \in [state : {"down", "starting", "up"}, handle : [Tickets -> 0 .. MaxRuns],
                       index : SUBSET Tickets, current : 0 .. MaxRuns, launch : Launches],
           scan \in [Scanners -> ScanRow], setting \in Settings
    PROVE  TypeOK
<1>1. \A p \in Scanners : scan[p] \in ScanRow
  OBVIOUS
<1>2. \A p \in Scanners : /\ scan[p].pc \in {"off", "scan", "settle", "done"}
                          /\ scan[p].todo \cup scan[p].running \subseteq Tickets
                          /\ scan[p].record \in Record
  BY <1>1 DEF ScanRow
<1> QED BY <1>2 DEF TypeOK, Record

LEMMA InitInv ==
    ASSUME Init
    PROVE  LaneInv
<1>1. LaneType
  <2>1. ticket \in [Tickets -> Record] /\ marker \in [cutoff : Nat, running : SUBSET Tickets]
    BY NothingIs DEF Init
  <2>2. Down \in [state : {"down", "starting", "up"}, handle : [Tickets -> 0 .. MaxRuns],
                  index : SUBSET Tickets, current : 0 .. MaxRuns, launch : Launches]
    BY NothingIs DEF Down
  <2>3. scan \in [Scanners -> ScanRow]
    BY NothingIs DEF Init
  <2>4. outside \in OutsideRow
    BY DEF Init, OutsideRow
  <2>5. TypeOK
    BY <2>1, <2>2, <2>3, TypeFromRows DEF Init
  <2> QED BY <2>1, <2>2, <2>3, <2>4, <2>5 DEF Init, LaneType
<1>2. RunsInOrder /\ TicketsNamed /\ TicketTellsTheExit
  BY NothingIs DEF Init, RunsInOrder, TicketsNamed, TicketTellsTheExit
<1>3. WriterKnows
  BY NothingIs, ScannerIs DEF Init, WriterKnows, Down
<1>4. ScansJudge /\ StampsPast
  BY NothingIs DEF Init, ScansJudge, StampsPast
<1>5. DrainHolds
  BY NothingIs, ScannerIs DEF Init, DrainHolds, Down
<1>6. \A r \in Runs : ~Alive(r)
  BY RunIs DEF Init
<1>7. OneAtATime
  BY <1>6, NothingIs, ScannerIs DEF Init, OneAtATime, AtMostOne, LaunchAlone, KnownByTickets, KnownByWriter, OnTicket, Down
<1> QED BY <1>1, <1>2, <1>3, <1>4, <1>5, <1>7 DEF LaneInv

-----------------------------------------------------------------------------
(* The controller and the drain *)

LEMMA OutsideKeeps ==
    ASSUME LaneInv, UNCHANGED <<files, host, writer, scan, clock, deaths, setting>>,
           outside' \in OutsideRow,
           writer.launch # NoLaunch => outside'.request,
           NoReaders /\ outside'.drained =>
               \A t \in Tickets : Alive(writer.handle[t]) => writer.handle[t] \in outside'.late
    PROVE  LaneInv'
<1>1. LaneType'
  BY DEF LaneInv, LaneType, TypeOK, files, host
<1>2. RunsInOrder' /\ TicketsNamed' /\ TicketTellsTheExit' /\ ScansJudge' /\ StampsPast'
  BY DEF LaneInv, RunsInOrder, TicketsNamed, TicketTellsTheExit, ScansJudge, StampsPast, Born, Alive, files, host
<1>3. WriterKnows'
  BY DEF LaneInv, WriterKnows, files, host
<1>4. DrainHolds'
  BY SettingStays DEF LaneInv, DrainHolds, Alive, files, host
<1>5. OneAtATime'
  BY SettingStays DEF LaneInv, OneAtATime, AtMostOne, LaunchAlone, KnownByTickets, KnownByWriter, OnTicket, Alive, files, host
<1> QED BY <1>1, <1>2, <1>3, <1>4, <1>5 DEF LaneInv

LEMMA ControllerKeeps ==
    ASSUME LaneInv, UNCHANGED setting, Ask \/ ControllerStops \/ Drain \/ ControllerStarts
    PROVE  LaneInv'
<1>1. /\ outside \in OutsideRow
      /\ writer.launch # NoLaunch => outside.request
      /\ NoReaders /\ outside.drained =>
            \A t \in Tickets : Alive(writer.handle[t]) => writer.handle[t] \in outside.late
  BY DEF LaneInv, LaneType, WriterKnows, DrainHolds
<1>2. CASE Ask \/ ControllerStops \/ ControllerStarts
  <2>1. /\ outside' \in OutsideRow
        /\ writer.launch # NoLaunch => outside'.request
        /\ outside'.drained => outside.drained /\ outside'.late = outside.late
    BY <1>1, <1>2 DEF Ask, ControllerStops, ControllerStarts, OutsideRow
  <2> QED BY <1>1, <1>2, <2>1, OutsideKeeps DEF Ask, ControllerStops, ControllerStarts
<1>3. CASE Drain
  <2>1. outside' \in OutsideRow /\ outside'.request = outside.request
    BY <1>1, <1>3 DEF Drain, OutsideRow
  <2>2. ASSUME NoReaders, NEW t \in Tickets PROVE ~Alive(writer.handle[t])
    <3>1. SUFFICES ASSUME Alive(writer.handle[t]) PROVE FALSE
      OBVIOUS
    <3>2. ticket[t].status = "running" /\ ticket[t].run = writer.handle[t]
      BY <2>2, <3>1 DEF LaneInv, DrainHolds, WriterKnows, Alive
    <3>3. FALSE \in HoldsSlot(ticket[t].run)
      BY <1>3, <3>2 DEF Drain, Running, Gone
    <3> QED BY <3>1, <3>2, <3>3, GoneIsOver, RowsAre DEF LaneInv
  <2> QED BY <1>1, <1>3, <2>1, <2>2, OutsideKeeps DEF Drain
<1> QED BY <1>2, <1>3

-----------------------------------------------------------------------------
(* The children *)

(* A child that ends, and a pid that changes hands, leave less alive.         *)
LEMMA ChildKeeps ==
    ASSUME LaneInv, NEW r \in Runs, UNCHANGED <<files, writer, scan, outside, clock, deaths, setting>>,
           proc' \in [Runs -> {"unborn", "alive", "exited", "reused", "gone"}],
           exit' \in [Runs -> {"none", "ok", "bad"}],
           \A s \in Runs : s # r => proc'[s] = proc[s] /\ exit'[s] = exit[s],
           proc[r] # "unborn", proc'[r] \in {"exited", "reused", "gone"}, exit'[r] # "none",
           exit[r] # "none" => exit'[r] = exit[r],
           proc'[r] # "exited" => writer.launch.run # r /\ \A t \in Tickets : writer.handle[t] # r
    PROVE  LaneInv'
<1>1. /\ LaneType /\ RunsInOrder /\ TicketsNamed /\ TicketTellsTheExit /\ WriterKnows
      /\ ScansJudge /\ StampsPast /\ DrainHolds /\ OneAtATime
  BY DEF LaneInv
<1>2. \A s \in 0 .. MaxRuns : /\ Alive(s)' => Alive(s)
                              /\ Born(s)' <=> Born(s)
  BY Runners
<1>3. LaneType'
  BY <1>1 DEF LaneType, TypeOK, files
<1>4. RunsInOrder'
  BY <1>1 DEF RunsInOrder
<1>5. TicketsNamed' /\ TicketTellsTheExit'
  <2>1. ASSUME NEW t \in Tickets
        PROVE  /\ IF ticket[t].status = "none" THEN ticket[t].run = 0 ELSE Born(ticket[t].run)'
               /\ ticket[t].status = "succeeded" => exit'[ticket[t].run] = "ok"
               /\ ticket[t].status = "failed" => exit'[ticket[t].run] = "bad"
               /\ ticket[t].status = "orphaned" => ~Alive(ticket[t].run)'
    <3>1. /\ ticket[t].run \in 0 .. MaxRuns
          /\ IF ticket[t].status = "none" THEN ticket[t].run = 0 ELSE Born(ticket[t].run)
          /\ ticket[t].status = "succeeded" => exit[ticket[t].run] = "ok"
          /\ ticket[t].status = "failed" => exit[ticket[t].run] = "bad"
          /\ ticket[t].status = "orphaned" => ~Alive(ticket[t].run)
      BY <1>1, RowsAre DEF TicketsNamed, TicketTellsTheExit
    <3>2. \A s \in Runs : exit[s] # "none" => exit'[s] = exit[s]
      OBVIOUS
    <3>3. ticket[t].status # "none" => ticket[t].run \in Runs
      BY <3>1 DEF Born
    <3>4. /\ Alive(ticket[t].run)' => Alive(ticket[t].run)
          /\ Born(ticket[t].run)' <=> Born(ticket[t].run)
      BY <1>2, <3>1, Runners DEF files
    <3> QED BY <3>1, <3>2, <3>3, <3>4
  <2> QED BY <2>1 DEF TicketsNamed, TicketTellsTheExit, files
<1>6. WriterKnows'
  BY <1>1, Runners, RowsAre DEF WriterKnows, files
<1>7. ScansJudge' /\ StampsPast'
  BY <1>1, <1>2, ScanIs DEF ScansJudge, StampsPast, files
<1>8. DrainHolds'
  BY <1>1, <1>2, RowsAre, SettingStays DEF DrainHolds, files
<1>9. OneAtATime'
  <2>1. \A t \in Tickets : OnTicket(t)' => OnTicket(t)
    BY <1>1, <1>2, RowsAre DEF OnTicket, files
  <2>2. \A s \in Runs : Alive(s)' => Alive(s)
    BY <1>2, RunIs
  <2>3. AtMostOne => AtMostOne'
    BY <2>2 DEF AtMostOne
  <2>4. LaunchAlone => LaunchAlone'
    BY <2>2 DEF LaunchAlone
  <2>5. KnownByTickets => KnownByTickets'
    BY <2>1, <2>2 DEF KnownByTickets, files
  <2>6. KnownByWriter => KnownByWriter'
    BY <2>2 DEF KnownByWriter
  <2> QED BY <1>1, <2>3, <2>4, <2>5, <2>6, SettingStays DEF OneAtATime
<1> QED BY <1>3, <1>4, <1>5, <1>6, <1>7, <1>8, <1>9 DEF LaneInv

LEMMA HostKeeps ==
    ASSUME LaneInv, UNCHANGED setting, NEW r \in Runs, ChildExits(r) \/ PidTaken(r) \/ PidFreed(r)
    PROVE  LaneInv'
<1>1. /\ proc \in [Runs -> {"unborn", "alive", "exited", "reused", "gone"}]
      /\ exit \in [Runs -> {"none", "ok", "bad"}]
      /\ \A s \in Runs : exit[s] = "none" <=> proc[s] \in {"unborn", "alive"}
  BY DEF LaneInv, LaneType, TypeOK, RunsInOrder
<1>2. CASE ChildExits(r)
  <2>1. /\ proc[r] = "alive" /\ proc' = [proc EXCEPT ![r] = "exited"]
        /\ \E how \in {"ok", "bad"} : exit' = [exit EXCEPT ![r] = how]
        /\ UNCHANGED <<files, writer, scan, outside, clock, deaths>>
    BY <1>2 DEF ChildExits
  <2>2. /\ proc' \in [Runs -> {"unborn", "alive", "exited", "reused", "gone"}]
        /\ \A s \in Runs : s # r => proc'[s] = proc[s]
        /\ proc'[r] = "exited"
    BY <1>1, <2>1
  <2>3. /\ exit' \in [Runs -> {"none", "ok", "bad"}] /\ exit'[r] # "none"
        /\ \A s \in Runs : s # r => exit'[s] = exit[s]
    BY <1>1, <2>1
  <2> QED BY <1>1, <2>1, <2>2, <2>3, ChildKeeps
<1>3. CASE PidTaken(r) \/ PidFreed(r)
  <2>1. PICK v \in {"reused", "gone"} :
            /\ proc[r] \in {"exited", "reused"} /\ proc' = [proc EXCEPT ![r] = v]
            /\ UNCHANGED <<files, exit, writer, scan, outside, clock, deaths>>
            /\ proc[r] = "exited" => writer.launch.run # r /\ \A t \in Tickets : writer.handle[t] # r
    BY <1>3 DEF PidTaken, PidFreed
  <2>2. proc[r] = "reused" => writer.launch.run # r /\ \A t \in Tickets : writer.handle[t] # r
    BY NothingIs DEF LaneInv, WriterKnows
  <2>3. /\ proc' \in [Runs -> {"unborn", "alive", "exited", "reused", "gone"}]
        /\ \A s \in Runs : s # r => proc'[s] = proc[s]
        /\ proc'[r] \in {"reused", "gone"}
    BY <1>1, <2>1
  <2> QED BY <1>1, <2>1, <2>2, <2>3, ChildKeeps
<1> QED BY <1>2, <1>3

-----------------------------------------------------------------------------
(* The scans *)

WriterRow == [state : {"down", "starting", "up"}, handle : [Tickets -> 0 .. MaxRuns],
              index : SUBSET Tickets, current : 0 .. MaxRuns, launch : Launches]
MarkerRow == [cutoff : Nat, running : SUBSET Tickets]

LEMMA WriterIs ==
    ASSUME LaneType
    PROVE  /\ writer \in WriterRow /\ marker \in MarkerRow
           /\ writer.state \in {"down", "starting", "up"}
           /\ writer.handle \in [Tickets -> 0 .. MaxRuns] /\ writer.index \in SUBSET Tickets
           /\ writer.current \in 0 .. MaxRuns /\ writer.launch \in Launches
           /\ writer.launch.run \in 0 .. MaxRuns
           /\ writer.launch.started \in Nat
           /\ marker.cutoff \in Nat /\ marker.running \in SUBSET Tickets
           /\ clock \in Nat /\ deaths \in Nat
<1>1. writer \in WriterRow /\ marker \in MarkerRow /\ clock \in Nat /\ deaths \in Nat
  BY DEF LaneType, WriterRow, MarkerRow
<1>2. writer.launch \in Launches
  BY <1>1 DEF WriterRow
<1> QED BY <1>1, <1>2 DEF WriterRow, MarkerRow, Launches

(* A step of one scan, with what it may say of it.                           *)
LEMMA ScanMoves ==
    ASSUME LaneInv, UNCHANGED <<ticket, host, outside, clock, deaths, setting>>,
           NEW p \in Scanners, NEW row \in ScanRow, scan' = [scan EXCEPT ![p] = row],
           marker' \in MarkerRow, marker'.cutoff <= clock,
           writer' \in WriterRow, writer'.handle = writer.handle,
           writer'.current = writer.current, writer'.launch = writer.launch,
           writer'.state = "starting" <=> scan'["writer"].pc # "off",
           writer'.state = "up" \/ writer.state # "up",
           p = "writer" => row.pc # "done",
           row.newest <= clock,
           row.pc = "settle" => /\ row.todo # {} /\ row.record.status = "running"
                                /\ Born(row.record.run) /\ ~Alive(row.record.run),
           NoReaders => p = "writer",
           ~Window /\ NoReaders => KnownByTickets'
    PROVE  LaneInv'
<1>1. /\ LaneType /\ RunsInOrder /\ TicketsNamed /\ TicketTellsTheExit /\ WriterKnows
      /\ ScansJudge /\ StampsPast /\ DrainHolds /\ OneAtATime
  BY DEF LaneInv
<1>2. scan' \in [Scanners -> ScanRow]
  BY <1>1 DEF LaneType
<1>3. scan'[p] = row /\ \A q \in Scanners : q # p => scan'[q] = scan[q]
  BY <1>1 DEF LaneType
<1>4. LaneType'
  <2>1. TypeOK'
    <3>1. /\ ticket' \in [Tickets -> Record]
          /\ proc' \in [Runs -> {"unborn", "alive", "exited", "reused", "gone"}]
          /\ exit' \in [Runs -> {"none", "ok", "bad"}] /\ setting' \in Settings
      BY <1>1 DEF LaneType, TypeOK, Record, host
    <3>2. \A q \in Scanners : /\ scan'[q].pc \in {"off", "scan", "settle", "done"}
                              /\ scan'[q].todo \cup scan'[q].running \subseteq Tickets
                              /\ scan'[q].record \in Record
      <4>1. \A q \in Scanners : scan'[q] \in ScanRow
        BY <1>2
      <4> QED BY <4>1 DEF ScanRow
    <3> QED BY <3>1, <3>2 DEF TypeOK, Record, WriterRow, MarkerRow
  <2> QED BY <1>1, <1>2, <2>1 DEF LaneType, WriterRow, MarkerRow
<1>5. RunsInOrder' /\ TicketsNamed' /\ TicketTellsTheExit'
  BY <1>1 DEF RunsInOrder, TicketsNamed, TicketTellsTheExit, Born, Alive, host
<1>6. WriterKnows'
  <2>1. scan'["writer"].pc # "done"
    BY <1>1, <1>3, ScannerIs DEF WriterKnows
  <2> QED BY <1>1, <2>1 DEF WriterKnows, host
<1>7. ScansJudge' /\ StampsPast'
  <2>1. \A q \in Scanners : scan'[q].newest <= clock
    BY <1>1, <1>3 DEF StampsPast
  <2>2. ScansJudge'
    BY <1>1, <1>3 DEF ScansJudge, Born, Alive, host
  <2> QED BY <1>1, <2>1, <2>2 DEF StampsPast
<1>8. DrainHolds'
  BY <1>1, <1>3, ScannerIs, SettingStays DEF DrainHolds, Alive, host
<1>9. OneAtATime'
  <2>1. AtMostOne => AtMostOne'
    BY DEF AtMostOne, Alive, host
  <2>2. LaunchAlone => LaunchAlone'
    BY DEF LaunchAlone, Alive, host
  <2>3. KnownByWriter => KnownByWriter'
    BY DEF KnownByWriter, Alive, host
  <2> QED BY <1>1, <2>1, <2>2, <2>3, SettingStays DEF OneAtATime
<1> QED BY <1>4, <1>5, <1>6, <1>7, <1>8, <1>9 DEF LaneInv

(* What a constructor reads first.                                           *)
LEMMA OpenedScan ==
    ASSUME NEW since \in Nat, NEW todo \in SUBSET Tickets,
           NEW cutoff \in Nat, NEW carried \in SUBSET Tickets
    PROVE  LET row == [NoScan EXCEPT !.pc = "scan", !.since = since, !.todo = todo,
                          !.cutoff = cutoff, !.carried = carried, !.newest = cutoff]
           IN  /\ row \in ScanRow
               /\ row.pc = "scan" /\ row.todo = todo /\ row.cutoff = cutoff
               /\ row.carried = carried /\ row.newest = cutoff /\ row.running = {}
<1> DEFINE a == [NoScan EXCEPT !.pc = "scan"]
           b == [a EXCEPT !.since = since]
           c == [b EXCEPT !.todo = todo]
           d == [c EXCEPT !.cutoff = cutoff]
           e == [d EXCEPT !.carried = carried]
           f == [e EXCEPT !.newest = cutoff]
<1>1. a \in ScanRow /\ a.pc = "scan" /\ a.running = {}
  BY NothingIs DEF ScanRow, NoScan
<1> HIDE DEF a
<1>2. b \in ScanRow /\ b.pc = "scan" /\ b.running = {}
  BY <1>1 DEF ScanRow
<1> HIDE DEF b
<1>3. c \in ScanRow /\ c.pc = "scan" /\ c.running = {} /\ c.todo = todo
  BY <1>2 DEF ScanRow
<1> HIDE DEF c
<1>4. d \in ScanRow /\ d.pc = "scan" /\ d.running = {} /\ d.todo = todo /\ d.cutoff = cutoff
  BY <1>3 DEF ScanRow
<1> HIDE DEF d
<1>5. /\ e \in ScanRow /\ e.pc = "scan" /\ e.running = {} /\ e.todo = todo /\ e.cutoff = cutoff
      /\ e.carried = carried
  BY <1>4 DEF ScanRow
<1> HIDE DEF e
<1>6. /\ f \in ScanRow /\ f.pc = "scan" /\ f.running = {} /\ f.todo = todo /\ f.cutoff = cutoff
      /\ f.carried = carried /\ f.newest = cutoff
  BY <1>5 DEF ScanRow
<1> QED BY <1>6 DEF a, b, c, d, e, f

LEMMA BegunIs ==
    ASSUME LaneInv, NEW p \in Scanners, ScanStart(p)
    PROVE  \E row \in ScanRow :
              /\ scan' = [scan EXCEPT ![p] = row]
              /\ row.pc = "scan" /\ row.todo = {t \in Tickets : ticket[t].status # "none"}
              /\ row.cutoff = marker.cutoff /\ row.carried = marker.running
              /\ row.newest <= clock /\ row.running = {}
<1> DEFINE todo == {t \in Tickets : ticket[t].status # "none"}
           row == [NoScan EXCEPT !.pc = "scan", !.since = clock + 1, !.todo = todo,
                      !.cutoff = marker.cutoff, !.carried = marker.running,
                      !.newest = marker.cutoff]
<1>1. LaneType /\ StampsPast
  BY DEF LaneInv
<1>2. /\ row \in ScanRow
      /\ row.pc = "scan" /\ row.todo = todo /\ row.cutoff = marker.cutoff
      /\ row.carried = marker.running /\ row.newest = marker.cutoff /\ row.running = {}
  <2>1. /\ todo \in SUBSET Tickets /\ clock + 1 \in Nat /\ marker.cutoff \in Nat
        /\ marker.running \in SUBSET Tickets
    BY <1>1, WriterIs
  <2> HIDE DEF todo
  <2> QED BY <2>1, OpenedScan
<1>3. scan' = [scan EXCEPT ![p] = row]
  BY DEF ScanStart
<1> HIDE DEF row
<1> QED BY <1>1, <1>2, <1>3 DEF StampsPast

LEMMA StartKeeps ==
    ASSUME LaneInv, UNCHANGED setting, Start
    PROVE  LaneInv'
<1>1. /\ LaneType /\ WriterKnows /\ StampsPast /\ OneAtATime
  BY DEF LaneInv
<1>2. PICK row \in ScanRow :
              /\ scan' = [scan EXCEPT !["writer"] = row]
              /\ row.pc = "scan" /\ row.todo = {t \in Tickets : ticket[t].status # "none"}
              /\ row.cutoff = marker.cutoff /\ row.carried = marker.running
              /\ row.newest <= clock /\ row.running = {}
  BY BegunIs, ScannerIs DEF Start
<1>3. /\ writer' \in WriterRow /\ writer'.state = "starting" /\ writer.state = "down"
      /\ writer'.handle = writer.handle /\ writer'.index = writer.index
      /\ writer'.current = writer.current /\ writer'.launch = writer.launch
      /\ UNCHANGED <<ticket, marker, host, outside, clock, deaths>>
  BY <1>1, WriterIs DEF Start, WriterRow, files
<1>4. scan'["writer"] = row
  BY <1>1, <1>2, ScannerIs DEF LaneType
<1>5. ASSUME ~Window, NoReaders PROVE KnownByTickets'
  <2>1. KnownByTickets
    BY <1>1, <1>5 DEF OneAtATime
  <2>2. \A t \in Tickets : OnTicket(t) => t \in row.todo
    BY <1>2 DEF OnTicket
  <2> QED BY <1>2, <1>3, <1>4, <2>1, <2>2 DEF KnownByTickets, OnTicket, Alive, host
<1> QED BY <1>1, <1>2, <1>3, <1>4, <1>5, WriterIs, ScannerIs, ScanMoves DEF StampsPast

LEMMA OpenReaderKeeps ==
    ASSUME LaneInv, UNCHANGED setting, NEW p \in setting.readers, OpenReader(p)
    PROVE  LaneInv'
<1>1. LaneType /\ WriterKnows /\ StampsPast
  BY DEF LaneInv
<1>2. p \in Readers /\ p \in Scanners /\ p # "writer" /\ ~NoReaders
  <2>1. setting \in Settings
    BY <1>1 DEF LaneType, TypeOK
  <2> QED BY <2>1, LaneAssumption, ScannerIs DEF NoReaders
<1>3. PICK row \in ScanRow :
              /\ scan' = [scan EXCEPT ![p] = row]
              /\ row.pc = "scan" /\ row.newest <= clock
  BY <1>2, BegunIs DEF OpenReader
<1>4. scan'["writer"] = scan["writer"]
  BY <1>1, <1>2, <1>3, ScannerIs DEF LaneType
<1>5. UNCHANGED <<ticket, marker, writer, host, outside, clock, deaths>>
  BY DEF OpenReader, files
<1> QED BY <1>1, <1>2, <1>3, <1>4, <1>5, WriterIs, ScanMoves DEF StampsPast, WriterKnows

(* What a scan has after one ticket: it is skipped or settled already, kept   *)
(* as running, or to be settled.                                             *)
LEMMA ScannedTicket ==
    ASSUME LaneInv, NEW p \in Scanners, ScanTicket(p)
    PROVE  /\ scan[p].pc = "scan" /\ scan[p].todo # {} /\ Min(scan[p].todo) \in Tickets
           /\ UNCHANGED <<files, host, writer, outside, clock, deaths>>
           /\ \E row \in ScanRow :
              LET t == Min(scan[p].todo)
              IN  /\ scan' = [scan EXCEPT ![p] = row]
                  /\ row.newest <= clock
                  /\ row.cutoff = scan[p].cutoff /\ row.carried = scan[p].carried
                  /\ \/ /\ row.pc = "scan" /\ row.todo = scan[p].todo \ {t}
                        /\ row.running = scan[p].running
                        /\ \/ ticket[t].mtime <= scan[p].cutoff /\ t \notin scan[p].carried
                           \/ ticket[t].status # "running"
                     \/ /\ row.pc = "scan" /\ row.todo = scan[p].todo \ {t}
                        /\ row.running = scan[p].running \cup {t}
                     \/ /\ row.pc = "settle" /\ row.todo = scan[p].todo
                        /\ row.running = scan[p].running
                        /\ row.record = ticket[t] /\ ticket[t].status = "running"
                        /\ FALSE \in HoldsSlot(ticket[t].run)
<1> DEFINE s == scan[p]
           t == Min(s.todo)
           rec == ticket[t]
           newest == IF rec.mtime > s.newest THEN rec.mtime ELSE s.newest
           seen == [s EXCEPT !.todo = s.todo \ {t}, !.newest = newest]
           skip == rec.mtime <= s.cutoff /\ t \notin s.carried
<1>1. LaneType /\ StampsPast
  BY DEF LaneInv
<1>2. s \in ScanRow /\ s.pc = "scan" /\ s.todo \in SUBSET Tickets /\ s.todo # {}
  BY <1>1, ScanIs DEF ScanTicket
<1>3. t \in Tickets /\ t \in s.todo
  BY <1>2, FirstTicket
<1>4. newest \in Nat /\ newest <= clock /\ rec \in Record
  BY <1>1, <1>3, RowsAre, ScanIs DEF StampsPast
<1>5. /\ seen \in ScanRow /\ seen.pc = s.pc /\ seen.todo = s.todo \ {t} /\ seen.newest = newest
      /\ seen.cutoff = s.cutoff /\ seen.carried = s.carried /\ seen.running = s.running
      /\ seen.record = s.record
  <2> DEFINE a == [s EXCEPT !.todo = s.todo \ {t}]
             b == [a EXCEPT !.newest = newest]
  <2> HIDE DEF newest, t, s, rec
  <2>1. /\ a \in ScanRow /\ a.pc = s.pc /\ a.todo = s.todo \ {t}
        /\ a.cutoff = s.cutoff /\ a.carried = s.carried /\ a.running = s.running
        /\ a.record = s.record
    BY <1>2 DEF ScanRow
  <2>2. seen = b
    OBVIOUS
  <2> HIDE DEF a
  <2>3. /\ b \in ScanRow /\ b.pc = a.pc /\ b.todo = a.todo /\ b.newest = newest
        /\ b.cutoff = a.cutoff /\ b.carried = a.carried /\ b.running = a.running
        /\ b.record = a.record
    BY <1>4, <2>1 DEF ScanRow
  <2> HIDE DEF b
  <2> QED BY <2>1, <2>2, <2>3
<1>6. \/ /\ skip \/ rec.status # "running"
         /\ scan' = [scan EXCEPT ![p] = seen]
      \/ /\ rec.status = "running"
         /\ scan' = [scan EXCEPT ![p] = [seen EXCEPT !.running = seen.running \cup {t}]]
      \/ /\ rec.status = "running" /\ FALSE \in HoldsSlot(rec.run)
         /\ scan' = [scan EXCEPT ![p] = [seen EXCEPT !.todo = s.todo, !.pc = "settle", !.record = rec]]
  BY DEF ScanTicket
<1> HIDE DEF seen, newest, skip
<1>7. CASE (skip \/ rec.status # "running") /\ scan' = [scan EXCEPT ![p] = seen]
  BY <1>2, <1>3, <1>4, <1>5, <1>7 DEF ScanTicket, skip
<1>8. CASE scan' = [scan EXCEPT ![p] = [seen EXCEPT !.running = seen.running \cup {t}]]
  <2> DEFINE row == [seen EXCEPT !.running = seen.running \cup {t}]
  <2>1. /\ row \in ScanRow /\ row.pc = "scan" /\ row.todo = s.todo \ {t} /\ row.newest = newest
        /\ row.cutoff = s.cutoff /\ row.carried = s.carried /\ row.running = s.running \cup {t}
    BY <1>2, <1>3, <1>5 DEF ScanRow
  <2> HIDE DEF row
  <2> QED BY <1>2, <1>3, <1>4, <1>8, <2>1 DEF ScanTicket, row
<1>9. CASE /\ rec.status = "running" /\ FALSE \in HoldsSlot(rec.run)
           /\ scan' = [scan EXCEPT ![p] = [seen EXCEPT !.todo = s.todo, !.pc = "settle", !.record = rec]]
  <2> DEFINE a == [seen EXCEPT !.todo = s.todo]
             b == [a EXCEPT !.pc = "settle"]
             row == [b EXCEPT !.record = rec]
  <2>1. /\ a \in ScanRow /\ a.todo = s.todo /\ a.newest = newest
        /\ a.cutoff = s.cutoff /\ a.carried = s.carried /\ a.running = s.running
    BY <1>2, <1>5 DEF ScanRow
  <2> HIDE DEF a
  <2>2. /\ b \in ScanRow /\ b.pc = "settle" /\ b.todo = s.todo /\ b.newest = newest
        /\ b.cutoff = s.cutoff /\ b.carried = s.carried /\ b.running = s.running
    BY <2>1 DEF ScanRow
  <2> HIDE DEF b
  <2>3. /\ row \in ScanRow /\ row.pc = "settle" /\ row.todo = s.todo /\ row.newest = newest
        /\ row.cutoff = s.cutoff /\ row.carried = s.carried /\ row.running = s.running
        /\ row.record = rec
    BY <1>4, <2>2 DEF ScanRow
  <2>4. scan' = [scan EXCEPT ![p] = row]
    BY <1>9 DEF a, b
  <2> HIDE DEF row
  <2> QED BY <1>2, <1>3, <1>4, <1>9, <2>3, <2>4 DEF ScanTicket
<1> QED BY <1>6, <1>7, <1>8, <1>9

LEMMA ScanTicketKeeps ==
    ASSUME LaneInv, UNCHANGED setting, NEW p \in Scanners, ScanTicket(p)
    PROVE  LaneInv'
<1> DEFINE t == Min(scan[p].todo)
<1>1. /\ LaneType /\ WriterKnows /\ StampsPast /\ OneAtATime /\ DrainHolds /\ TicketsNamed
  BY DEF LaneInv
<1>2. /\ scan[p].pc = "scan" /\ scan[p].todo # {} /\ t \in Tickets
      /\ UNCHANGED <<files, host, writer, outside, clock, deaths>>
  BY ScannedTicket
<1>3. PICK row \in ScanRow :
              /\ scan' = [scan EXCEPT ![p] = row]
              /\ row.newest <= clock
              /\ row.cutoff = scan[p].cutoff /\ row.carried = scan[p].carried
              /\ \/ /\ row.pc = "scan" /\ row.todo = scan[p].todo \ {t}
                    /\ row.running = scan[p].running
                    /\ \/ ticket[t].mtime <= scan[p].cutoff /\ t \notin scan[p].carried
                       \/ ticket[t].status # "running"
                 \/ /\ row.pc = "scan" /\ row.todo = scan[p].todo \ {t}
                    /\ row.running = scan[p].running \cup {t}
                 \/ /\ row.pc = "settle" /\ row.todo = scan[p].todo
                    /\ row.running = scan[p].running
                    /\ row.record = ticket[t] /\ ticket[t].status = "running"
                    /\ FALSE \in HoldsSlot(ticket[t].run)
  BY ScannedTicket
<1>4. scan'[p] = row /\ \A q \in Scanners : q # p => scan'[q] = scan[q]
  BY <1>1, <1>3 DEF LaneType
<1>5. row.pc = "settle" => /\ row.todo # {} /\ row.record.status = "running"
                           /\ Born(row.record.run) /\ ~Alive(row.record.run)
  BY <1>1, <1>2, <1>3, GoneIsOver, RowsAre DEF TicketsNamed
<1>6. NoReaders => p = "writer"
  BY <1>1, <1>2, ScannerIs DEF DrainHolds
<1>7. ASSUME ~Window, NoReaders PROVE KnownByTickets'
  <2>1. KnownByTickets /\ p = "writer" /\ writer.state = "starting"
    BY <1>1, <1>2, <1>6, <1>7 DEF OneAtATime, WriterKnows
  <2>2. scan[p].cutoff = marker.cutoff /\ scan[p].carried = marker.running
    BY <2>1 DEF KnownByTickets
  <2>3. ASSUME NEW x \in Tickets, OnTicket(x)
        PROVE  x \in row.todo \cup row.running
    <3>1. x \in scan[p].todo \cup scan[p].running
      BY <2>1, <2>3 DEF KnownByTickets
    <3>2. ticket[x].mtime <= marker.cutoff => x \in marker.running
      BY <2>1, <2>3 DEF KnownByTickets
    <3> QED BY <1>3, <2>2, <2>3, <3>1, <3>2 DEF OnTicket
  <2>4. \A x \in Tickets : OnTicket(x)' <=> OnTicket(x)
    BY <1>2 DEF OnTicket, Alive, files, host
  <2>5. scan'["writer"] = row
    BY <1>4, <2>1
  <2>6. \A r \in Runs : Alive(r)' =>
            \/ r = writer.launch.run
            \/ \E x \in Tickets : ticket[x].status = "running" /\ ticket[x].run = r
    BY <1>2, <2>1 DEF KnownByTickets, Alive, host
  <2>7. row.pc = "settle" => row.record = ticket[Min(row.todo)]
    BY <1>3
  <2> QED BY <1>2, <1>3, <2>1, <2>2, <2>3, <2>4, <2>5, <2>6, <2>7 DEF KnownByTickets, files
<1>8. /\ writer.state = "starting" <=> scan'["writer"].pc # "off"
      /\ row.pc \in {"scan", "settle"}
  BY <1>1, <1>2, <1>3, <1>4, ScannerIs DEF WriterKnows
<1> QED BY <1>1, <1>2, <1>3, <1>5, <1>6, <1>7, <1>8, WriterIs, ScanMoves DEF files, StampsPast

(* The marker of a reader, which only the settings with readers have.         *)
LEMMA ReaderReadyKeeps ==
    ASSUME LaneInv, UNCHANGED setting, NEW p \in setting.readers, ReaderReady(p)
    PROVE  LaneInv'
<1>1. LaneType /\ WriterKnows /\ StampsPast
  BY DEF LaneInv
<1>2. p \in Readers /\ p \in Scanners /\ p # "writer" /\ ~NoReaders
  <2>1. setting \in Settings
    BY <1>1 DEF LaneType, TypeOK
  <2> QED BY <2>1, LaneAssumption, ScannerIs DEF NoReaders
<1>3. /\ [NoScan EXCEPT !.pc = "done"] \in ScanRow
      /\ [NoScan EXCEPT !.pc = "done"].pc = "done" /\ [NoScan EXCEPT !.pc = "done"].newest = 0
  BY NothingIs DEF ScanRow, NoScan
<1>4. marker' \in MarkerRow /\ marker'.cutoff <= clock
  BY <1>1, <1>2, ScanIs DEF ReaderReady, ScanEnds, MarkerRow, StampsPast
<1>5. scan' = [scan EXCEPT ![p] = [NoScan EXCEPT !.pc = "done"]]
  BY DEF ReaderReady
<1>6. scan'["writer"] = scan["writer"]
  BY <1>1, <1>2, <1>5, ScannerIs DEF LaneType
<1>7. UNCHANGED <<ticket, writer, host, outside, clock, deaths>> /\ 0 <= clock
  BY <1>1, WriterIs DEF ReaderReady
<1> QED BY <1>1, <1>2, <1>3, <1>4, <1>5, <1>6, <1>7, WriterIs, ScanMoves DEF WriterKnows

LEMMA ReadyKeeps ==
    ASSUME LaneInv, UNCHANGED setting, Ready
    PROVE  LaneInv'
<1>1. LaneType /\ WriterKnows /\ StampsPast /\ OneAtATime
  BY DEF LaneInv
<1>2. /\ scan["writer"].pc = "scan" /\ scan["writer"].todo = {} /\ writer.state = "starting"
      /\ marker' = [cutoff |-> scan["writer"].newest, running |-> scan["writer"].running]
      /\ scan' = [scan EXCEPT !["writer"] = NoScan]
      /\ UNCHANGED <<ticket, host, outside, clock, deaths>>
  BY <1>1 DEF Ready, ScanEnds, WriterKnows
<1>3. /\ writer' \in WriterRow /\ writer'.state = "up" /\ writer'.index = scan["writer"].running
      /\ writer'.handle = writer.handle /\ writer'.current = writer.current
      /\ writer'.launch = writer.launch
  <2>1. scan["writer"].running \in SUBSET Tickets
    BY <1>1, ScannerIs, ScanIs
  <2>2. writer \in WriterRow
    BY <1>1, WriterIs
  <2>3. writer' = [[writer EXCEPT !.state = "up"] EXCEPT !.index = scan["writer"].running]
    BY DEF Ready
  <2> QED BY <2>1, <2>2, <2>3 DEF WriterRow
<1>4. marker' \in MarkerRow /\ marker'.cutoff <= clock
  BY <1>1, <1>2, ScannerIs, ScanIs DEF MarkerRow, StampsPast
<1>5. scan'["writer"] = NoScan
  BY <1>1, <1>2, ScannerIs DEF LaneType
<1>6. ASSUME ~Window, NoReaders PROVE KnownByTickets'
  <2>1. KnownByTickets
    BY <1>1, <1>6 DEF OneAtATime
  <2>2. \A x \in Tickets : OnTicket(x)' <=> OnTicket(x)
    BY <1>2 DEF OnTicket, Alive, host
  <2>3. \A x \in Tickets : OnTicket(x) => x \in scan["writer"].running
    BY <1>2, <2>1 DEF KnownByTickets
  <2>4. \A x \in Tickets : writer'.handle[x] = 0
    BY <1>1, <1>2, <1>3 DEF WriterKnows
  <2>5. \A r \in Runs : Alive(r)' =>
            \/ r = writer.launch.run
            \/ \E x \in Tickets : ticket[x].status = "running" /\ ticket[x].run = r
    BY <1>2, <2>1 DEF KnownByTickets, Alive, host
  <2> QED BY <1>2, <1>3, <1>5, <2>1, <2>2, <2>3, <2>4, <2>5, NothingIs DEF KnownByTickets
<1>7. /\ NoScan \in ScanRow /\ NoScan.pc = "off" /\ NoScan.newest <= clock
      /\ "writer" \in Scanners
  BY <1>1, NothingIs, ScannerIs, WriterIs
<1>8. writer'.state = "starting" <=> scan'["writer"].pc # "off"
  BY <1>3, <1>5, <1>7
<1> QED BY <1>2, <1>3, <1>4, <1>6, <1>7, <1>8, ScanMoves

-----------------------------------------------------------------------------
(* What is written into tickets *)

(* A ticket is judged when it is settled by what its child did, or called    *)
(* orphaned because its child is over and nobody has its handle.             *)
Judged(t) ==
    \/ ticket'[t] = ticket[t]
    \/ /\ ticket[t].status = "running" /\ ticket'[t].run = ticket[t].run
       /\ ~Alive(ticket[t].run) /\ ticket'[t].mtime <= clock'
       /\ \/ /\ writer.handle[t] = ticket[t].run
             /\ \/ ticket'[t].status = "succeeded" /\ exit[ticket[t].run] = "ok"
                \/ ticket'[t].status = "failed" /\ exit[ticket[t].run] = "bad"
          \/ writer.handle[t] = 0 /\ ticket'[t].status = "orphaned"

(* A judged ticket tells the truth, whatever child is started meanwhile.      *)
LEMMA JudgedIsTrue ==
    ASSUME LaneInv, clock' \in Nat, clock <= clock', exit' = exit,
           \A t \in Tickets : Judged(t),
           \A r \in Runs : proc[r] # "unborn" => proc'[r] = proc[r]
    PROVE  /\ TicketsNamed' /\ TicketTellsTheExit'
           /\ \A t \in Tickets : ticket'[t].mtime <= clock'
           /\ \A t \in Tickets : Born(ticket[t].run) \/ ticket[t].run = 0
           /\ \A t \in Tickets : OnTicket(t)' => OnTicket(t) /\ ticket'[t] = ticket[t]
           /\ \A t \in Tickets : OnTicket(t) => ticket'[t] = ticket[t]
<1>1. LaneType /\ TicketsNamed /\ TicketTellsTheExit /\ StampsPast
  BY DEF LaneInv
<1>2. ASSUME NEW t \in Tickets
      PROVE  /\ IF ticket'[t].status = "none" THEN ticket'[t].run = 0 ELSE Born(ticket[t].run)'
             /\ ticket'[t].status = "succeeded" => exit'[ticket'[t].run] = "ok"
             /\ ticket'[t].status = "failed" => exit'[ticket'[t].run] = "bad"
             /\ ticket'[t].status = "orphaned" => ~Alive(ticket[t].run)'
             /\ ticket'[t].mtime <= clock'
             /\ Born(ticket[t].run) \/ ticket[t].run = 0
             /\ OnTicket(t)' => OnTicket(t) /\ ticket'[t] = ticket[t]
             /\ OnTicket(t) => ticket'[t] = ticket[t]
  <2>1. /\ ticket[t].run \in 0 .. MaxRuns /\ ticket[t].mtime <= clock /\ ticket[t].mtime \in Nat
        /\ IF ticket[t].status = "none" THEN ticket[t].run = 0 ELSE Born(ticket[t].run)
        /\ ticket[t].status = "succeeded" => exit[ticket[t].run] = "ok"
        /\ ticket[t].status = "failed" => exit[ticket[t].run] = "bad"
        /\ ticket[t].status = "orphaned" => ~Alive(ticket[t].run)
    BY <1>1, RowsAre DEF TicketsNamed, TicketTellsTheExit, StampsPast
  <2>2. Born(ticket[t].run) => proc'[ticket[t].run] = proc[ticket[t].run]
    BY DEF Born
  <2>3. Judged(t)
    OBVIOUS
  <2>4. CASE ticket'[t] = ticket[t]
    <3>1. ticket'[t].mtime <= clock'
      BY <1>1, <2>1, <2>4, WriterIs
    <3>2. Born(ticket[t].run) => (Born(ticket[t].run)' /\ (Alive(ticket[t].run)' <=> Alive(ticket[t].run)))
      BY <2>1, <2>2, <2>4, Runners DEF Born
    <3> QED BY <2>1, <2>4, <3>1, <3>2, NothingIs DEF OnTicket
  <2>5. CASE ticket'[t] # ticket[t]
    <3>1. /\ ticket[t].status = "running" /\ ticket'[t].run = ticket[t].run
          /\ ~Alive(ticket[t].run) /\ ticket'[t].mtime <= clock'
          /\ \/ ticket'[t].status = "succeeded" /\ exit[ticket[t].run] = "ok"
             \/ ticket'[t].status = "failed" /\ exit[ticket[t].run] = "bad"
             \/ ticket'[t].status = "orphaned"
      BY <2>3, <2>5 DEF Judged
    <3>2. Born(ticket[t].run) /\ Born(ticket[t].run)' /\ ~Alive(ticket[t].run)'
      BY <2>1, <2>2, <3>1, Runners DEF Born
    <3> QED BY <3>1, <3>2 DEF OnTicket
  <2> QED BY <2>4, <2>5
<1> QED BY <1>2 DEF TicketsNamed, TicketTellsTheExit

(* The settling of a ticket, for the writer that starts or for a reader: the *)
(* child is over, and only a reader may write an old record back.            *)
LEMMA SettledRow ==
    ASSUME LaneInv, NEW p \in Scanners, ScanSettle(p)
    PROVE  LET t == Min(scan[p].todo)
           IN  /\ t \in Tickets /\ scan[p].pc = "settle" /\ t \in scan[p].todo
               /\ clock' = clock + 1
               /\ UNCHANGED <<marker, host, writer, outside, deaths>>
               /\ \A x \in Tickets : x # t => ticket'[x] = ticket[x]
               /\ ticket' \in [Tickets -> Record]
               /\ \/ ticket'[t] = ticket[t]
                  \/ /\ ticket'[t].status = "orphaned" /\ ticket'[t].mtime = clock + 1
                     /\ ticket'[t].run = scan[p].record.run
               /\ \E row \in ScanRow :
                     /\ scan' = [scan EXCEPT ![p] = row]
                     /\ row.pc = "scan" /\ row.todo = scan[p].todo \ {t}
                     /\ row.running = scan[p].running /\ row.newest = scan[p].newest
                     /\ row.cutoff = scan[p].cutoff /\ row.carried = scan[p].carried
<1> DEFINE s == scan[p]
           t == Min(s.todo)
           a == [s EXCEPT !.pc = "scan"]
           b == [a EXCEPT !.todo = s.todo \ {t}]
           row == [b EXCEPT !.record = NoTicket]
           old == [s.record EXCEPT !.status = "orphaned"]
           new == [old EXCEPT !.mtime = clock + 1]
<1>1. LaneType /\ ScansJudge
  BY DEF LaneInv
<1>2. /\ s \in ScanRow /\ s.pc = "settle" /\ s.todo \in SUBSET Tickets /\ s.todo # {}
      /\ s.record \in Record /\ clock' = clock + 1 /\ clock + 1 \in Nat
  BY <1>1, ScanIs, WriterIs DEF ScanSettle, ScansJudge
<1>3. t \in Tickets /\ t \in s.todo
  BY <1>2, FirstTicket
<1>4. scan' = [scan EXCEPT ![p] = row]
  <2>1. scan \in [Scanners -> ScanRow]
    BY <1>1 DEF LaneType
  <2> QED BY <2>1 DEF ScanSettle
<1>5. /\ new \in Record /\ new.status = "orphaned" /\ new.mtime = clock + 1
      /\ new.run = s.record.run
  <2>1. old \in Record /\ old.status = "orphaned" /\ old.run = s.record.run
    BY <1>2 DEF Record, Statuses
  <2> HIDE DEF old, s
  <2>2. new \in Record /\ new.status = "orphaned" /\ new.mtime = clock + 1 /\ new.run = old.run
    BY <1>2, <2>1 DEF Record
  <2> QED BY <2>1, <2>2
<1>6. PICK w \in Written({t}) :
          ticket' = [x \in Tickets |-> IF x \in w THEN new ELSE ticket[x]]
  BY DEF ScanSettle
<1> HIDE DEF new, old
<1>7. /\ \A x \in Tickets : x # t => ticket'[x] = ticket[x]
      /\ ticket'[t] = ticket[t] \/ ticket'[t] = new
      /\ ticket' \in [Tickets -> Record]
  <2>1. w \subseteq {t}
    BY DEF Written
  <2>2. \A x \in Tickets : ticket'[x] = IF x \in w THEN new ELSE ticket[x]
    BY <1>6, Zenon
  <2>3. \A x \in Tickets : ticket[x] \in Record
    BY <1>1, RowsAre
  <2>4. \A x \in Tickets : (IF x \in w THEN new ELSE ticket[x]) \in Record
    BY <1>5, <2>3
  <2>5. ticket' \in [Tickets -> Record]
    BY <1>6, <2>4, Zenon
  <2> HIDE DEF t
  <2> QED BY <1>3, <2>1, <2>2, <2>5
<1>8. /\ row \in ScanRow /\ row.pc = "scan" /\ row.todo = s.todo \ {t}
      /\ row.running = s.running /\ row.newest = s.newest
      /\ row.cutoff = s.cutoff /\ row.carried = s.carried
  <2> HIDE DEF t, s
  <2>1. /\ a \in ScanRow /\ a.pc = "scan" /\ a.running = s.running /\ a.newest = s.newest
        /\ a.cutoff = s.cutoff /\ a.carried = s.carried
    BY <1>2 DEF ScanRow
  <2> HIDE DEF a
  <2>2. /\ b \in ScanRow /\ b.pc = "scan" /\ b.todo = s.todo \ {t} /\ b.running = a.running
        /\ b.newest = a.newest /\ b.cutoff = a.cutoff /\ b.carried = a.carried
    BY <1>2, <2>1 DEF ScanRow
  <2> HIDE DEF b
  <2>3. /\ row \in ScanRow /\ row.pc = "scan" /\ row.todo = b.todo /\ row.running = b.running
        /\ row.newest = b.newest /\ row.cutoff = b.cutoff /\ row.carried = b.carried
    BY <2>2, NothingIs DEF ScanRow
  <2> HIDE DEF row
  <2> QED BY <2>1, <2>2, <2>3
<1>9. UNCHANGED <<marker, host, writer, outside, deaths>>
  BY DEF ScanSettle
<1> HIDE DEF row
<1> QED BY <1>2, <1>3, <1>4, <1>5, <1>7, <1>8, <1>9

LEMMA ScanSettleKeeps ==
    ASSUME LaneInv, UNCHANGED setting, NEW p \in Scanners, ScanSettle(p)
    PROVE  LaneInv'
<1> DEFINE t == Min(scan[p].todo)
<1>1. /\ LaneType /\ RunsInOrder /\ TicketsNamed /\ TicketTellsTheExit /\ WriterKnows
      /\ ScansJudge /\ StampsPast /\ DrainHolds /\ OneAtATime
  BY DEF LaneInv
<1>2. /\ t \in Tickets /\ scan[p].pc = "settle" /\ t \in scan[p].todo /\ clock' = clock + 1
      /\ UNCHANGED <<marker, host, writer, outside, deaths>>
      /\ \A x \in Tickets : x # t => ticket'[x] = ticket[x]
      /\ ticket' \in [Tickets -> Record]
      /\ \/ ticket'[t] = ticket[t]
         \/ /\ ticket'[t].status = "orphaned" /\ ticket'[t].mtime = clock + 1
            /\ ticket'[t].run = scan[p].record.run
  BY SettledRow
<1>3. PICK row \in ScanRow :
          /\ scan' = [scan EXCEPT ![p] = row]
          /\ row.pc = "scan" /\ row.todo = scan[p].todo \ {t}
          /\ row.running = scan[p].running /\ row.newest = scan[p].newest
          /\ row.cutoff = scan[p].cutoff /\ row.carried = scan[p].carried
  BY SettledRow
<1>4. scan'[p] = row /\ \A q \in Scanners : q # p => scan'[q] = scan[q]
  BY <1>1, <1>3 DEF LaneType
<1>5. Born(scan[p].record.run) /\ ~Alive(scan[p].record.run)
  BY <1>1, <1>2 DEF ScansJudge
<1> HIDE DEF t
<1>6. LaneType'
  <2>1. scan' \in [Scanners -> ScanRow]
    BY <1>1, <1>3 DEF LaneType
  <2>2. TypeOK'
    <3>1. \A q \in Scanners : scan'[q] \in ScanRow
      BY <2>1
    <3>2. \A q \in Scanners : /\ scan'[q].pc \in {"off", "scan", "settle", "done"}
                              /\ scan'[q].todo \cup scan'[q].running \subseteq Tickets
                              /\ scan'[q].record \in Record
      BY <3>1 DEF ScanRow
    <3> QED BY <1>1, <1>2, <3>2 DEF LaneType, TypeOK, Record, host
  <2>3. clock' \in Nat
    BY <1>1, <1>2, WriterIs
  <2> QED BY <1>1, <1>2, <2>1, <2>2, <2>3 DEF LaneType, host
<1>7. RunsInOrder'
  BY <1>1, <1>2 DEF RunsInOrder, host
<1>8. TicketsNamed' /\ TicketTellsTheExit'
  <2>1. ASSUME NEW x \in Tickets
        PROVE  /\ IF ticket'[x].status = "none" THEN ticket'[x].run = 0
                  ELSE ticket'[x].run \in Runs /\ proc[ticket'[x].run] # "unborn"
               /\ ticket'[x].status = "succeeded" => exit[ticket'[x].run] = "ok"
               /\ ticket'[x].status = "failed" => exit[ticket'[x].run] = "bad"
               /\ ticket'[x].status = "orphaned" =>
                     ~ (ticket'[x].run # 0 /\ proc[ticket'[x].run] = "alive")
    BY <1>1, <1>2, <1>5 DEF TicketsNamed, TicketTellsTheExit, Born, Alive
  <2> QED BY <1>2, <2>1 DEF TicketsNamed, TicketTellsTheExit, Born, Alive, host
<1>9. WriterKnows'
  <2>1. scan'["writer"].pc # "done" /\ (scan["writer"].pc # "off" <=> scan'["writer"].pc # "off")
    BY <1>1, <1>2, <1>3, <1>4, ScannerIs DEF WriterKnows
  <2>2. \A x \in Tickets : ticket'[x].status = "running" => ticket'[x] = ticket[x]
    BY <1>2
  <2> QED BY <1>1, <1>2, <2>1, <2>2 DEF WriterKnows, host
<1>10. ScansJudge' /\ StampsPast'
  <2>1. ScansJudge'
    BY <1>1, <1>2, <1>3, <1>4 DEF ScansJudge, Born, Alive, host
  <2>2. clock \in Nat /\ marker.cutoff \in Nat
    BY <1>1, WriterIs
  <2>3. \A x \in Tickets : ticket'[x].mtime <= clock + 1
    BY <1>1, <1>2, <2>2, RowsAre DEF StampsPast
  <2>4. \A q \in Scanners : scan'[q].newest <= clock + 1
    BY <1>1, <1>3, <1>4, <2>2, ScanIs DEF StampsPast
  <2>5. marker.cutoff <= clock + 1
    BY <1>1, <2>2 DEF StampsPast
  <2> QED BY <1>2, <2>1, <2>3, <2>4, <2>5 DEF StampsPast
<1>11. NoReaders => /\ p = "writer" /\ writer.state = "starting"
                    /\ writer.launch = NoLaunch
                    /\ \A x \in Tickets : writer.handle[x] = 0
  BY <1>1, <1>2, ScannerIs DEF DrainHolds, WriterKnows
<1>12. DrainHolds'
  <2>1. NoReaders => \A x \in Tickets : ~Alive(writer.handle[x])'
    BY <1>2, <1>11 DEF Alive
  <2>2. NoReaders => \A q \in Readers : scan'[q].pc = "off"
    BY <1>1, <1>4, <1>11, ScannerIs DEF DrainHolds
  <2> QED BY <1>1, <1>2, <2>1, <2>2, SettingStays DEF DrainHolds, host
<1>13. ASSUME ~Window, NoReaders PROVE KnownByTickets'
  <2>1. KnownByTickets /\ scan["writer"].record = ticket[t] /\ ~Alive(ticket[t].run)
    BY <1>1, <1>2, <1>5, <1>11, <1>13 DEF OneAtATime, KnownByTickets, t
  <2>2. \A x \in Tickets : OnTicket(x)' => OnTicket(x) /\ x # t /\ ticket'[x] = ticket[x]
    BY <1>2, <2>1 DEF OnTicket, Alive, host
  <2>3. ASSUME NEW r \in Runs, Alive(r)'
        PROVE  \E x \in Tickets : ticket'[x].status = "running" /\ ticket'[x].run = r
    <3>1. Alive(r) /\ r # writer.launch.run
      BY <1>2, <1>11, <1>13, <2>3, NothingIs, RunIs DEF Alive, host
    <3>2. PICK x \in Tickets : ticket[x].status = "running" /\ ticket[x].run = r
      BY <2>1, <3>1 DEF KnownByTickets
    <3> QED BY <1>2, <2>1, <3>1, <3>2
  <2>4. scan'["writer"].pc = "scan" /\ scan'["writer"] = row
    BY <1>3, <1>4, <1>11, <1>13
  <2>5. \A x \in Tickets : ticket'[x].run # 0 => ticket'[x].run # writer.launch.run
    BY <1>2, <1>11, <1>13, NothingIs
  <2>6. \A x \in Tickets : OnTicket(x)' => x \in row.todo \cup row.running
    BY <1>3, <1>11, <1>13, <2>1, <2>2 DEF KnownByTickets
  <2>7. row.cutoff = marker.cutoff /\ row.carried = marker.running
    BY <1>3, <1>11, <1>13, <2>1 DEF KnownByTickets
  <2>8. \A x \in Tickets : OnTicket(x)' => (ticket'[x].mtime <= marker.cutoff => x \in marker.running)
    BY <2>1, <2>2 DEF KnownByTickets
  <2>9. /\ writer'.launch = writer.launch /\ writer'.state = "starting"
        /\ marker' = marker /\ scan'["writer"].pc # "settle"
    BY <1>2, <1>11, <1>13, <2>4
  <2> QED BY <2>3, <2>4, <2>5, <2>6, <2>7, <2>8, <2>9 DEF KnownByTickets
<1>14. OneAtATime'
  <2>1. AtMostOne => AtMostOne'
    BY <1>2 DEF AtMostOne, Alive, host
  <2>2. LaunchAlone => LaunchAlone'
    BY <1>2 DEF LaunchAlone, Alive, host
  <2>3. KnownByWriter => KnownByWriter'
    BY <1>2 DEF KnownByWriter, Alive, host
  <2> QED BY <1>1, <1>2, <1>13, <2>1, <2>2, <2>3, SettingStays DEF OneAtATime
<1> QED BY <1>6, <1>7, <1>8, <1>9, <1>10, <1>12, <1>14 DEF LaneInv

(* A settlement that is written is a judgement.                              *)
LEMMA SettledIs ==
    ASSUME LaneInv, NEW t \in Tickets, NEW status \in Statuses
    PROVE  /\ Settled(t, status) \in Record /\ Settled(t, status).status = status
           /\ Settled(t, status).run = ticket[t].run /\ Settled(t, status).mtime = clock + 1
<1> DEFINE a == [ticket[t] EXCEPT !.status = status]
           b == [a EXCEPT !.mtime = clock + 1]
<1>1. ticket[t] \in Record /\ clock + 1 \in Nat
  BY RowsAre, WriterIs DEF LaneInv
<1>2. a \in Record /\ a.status = status /\ a.run = ticket[t].run
  BY <1>1 DEF Record
<1>3. Settled(t, status) = b
  BY DEF Settled
<1> HIDE DEF a
<1>4. b \in Record /\ b.status = a.status /\ b.run = a.run /\ b.mtime = clock + 1
  BY <1>1, <1>2 DEF Record
<1> HIDE DEF b
<1> QED BY <1>2, <1>3, <1>4

LEMMA SettlementJudges ==
    ASSUME LaneInv, NEW t \in Tickets, clock + 1 <= clock', ticket[t].status = "running",
           \/ t \in Finished /\ ticket'[t] = Settled(t, ExitStatus(writer.handle[t]))
           \/ writer.handle[t] = 0 /\ Gone(t) /\ ticket'[t] = Settled(t, "orphaned")
    PROVE  Judged(t) /\ ticket'[t] \in Record
<1>1. /\ ticket[t].run \in 0 .. MaxRuns /\ writer.handle[t] \in 0 .. MaxRuns
      /\ \A r \in Runs : exit[r] \in {"none", "ok", "bad"}
      /\ \A r \in Runs : exit[r] = "none" <=> proc[r] \in {"unborn", "alive"}
  BY RowsAre DEF LaneInv, LaneType, TypeOK, RunsInOrder
<1>2. CASE t \in Finished /\ ticket'[t] = Settled(t, ExitStatus(writer.handle[t]))
  <2>1. /\ writer.handle[t] \in Runs /\ ~Alive(writer.handle[t])
        /\ ticket[t].run = writer.handle[t] /\ proc[writer.handle[t]] = "exited"
    BY <1>1, <1>2, Runners DEF Finished, LaneInv, WriterKnows
  <2>2. /\ ExitStatus(writer.handle[t]) \in {"succeeded", "failed"}
        /\ ExitStatus(writer.handle[t]) = "succeeded" => exit[ticket[t].run] = "ok"
        /\ ExitStatus(writer.handle[t]) = "failed" => exit[ticket[t].run] = "bad"
    BY <1>1, <2>1 DEF ExitStatus
  <2>3. {"succeeded", "failed"} \subseteq Statuses
    BY DEF Statuses
  <2>4. /\ ticket'[t] \in Record /\ ticket'[t].status = ExitStatus(writer.handle[t])
        /\ ticket'[t].run = ticket[t].run /\ ticket'[t].mtime = clock + 1
    BY <1>2, <2>2, <2>3, SettledIs
  <2> QED BY <2>1, <2>2, <2>4 DEF Judged
<1>3. CASE writer.handle[t] = 0 /\ Gone(t) /\ ticket'[t] = Settled(t, "orphaned")
  <2>1. ~Alive(ticket[t].run)
    BY <1>1, <1>3, GoneIsOver DEF Gone
  <2>2. /\ ticket'[t] \in Record /\ ticket'[t].status = "orphaned"
        /\ ticket'[t].run = ticket[t].run /\ ticket'[t].mtime = clock + 1
    BY <1>3, SettledIs DEF Statuses
  <2> QED BY <1>3, <2>1, <2>2 DEF Judged
<1> QED BY <1>2, <1>3

(* What may be called orphaned: a running ticket nobody has a handle for,     *)
(* whose child is gone.                                                      *)
Lost == {c \in Running(Tickets) : writer.handle[c] = 0 /\ Gone(c)}

LEMMA ReapedJudges ==
    ASSUME LaneInv, NEW S \in SUBSET Finished, NEW L \in SUBSET Lost,
           NEW w \in Written(Running(S)), NEW l \in Written(L),
           ticket' = TicketsAfter(w, l), clock' \in Nat, clock <= clock',
           w \cup l # {} => clock + 1 <= clock'
    PROVE  ticket' \in [Tickets -> Record] /\ \A t \in Tickets : Judged(t)
<1>1. w \subseteq Running(S) /\ l \subseteq L
  BY DEF Written
<1>2. ASSUME NEW t \in Tickets PROVE Judged(t) /\ ticket'[t] \in Record
  <2>1. CASE t \in w
    <3>1. ticket'[t] = Settled(t, ExitStatus(writer.handle[t]))
      BY <2>1 DEF TicketsAfter
    <3>2. t \in Finished /\ ticket[t].status = "running"
      BY <1>1, <2>1 DEF Running
    <3> QED BY <2>1, <3>1, <3>2, SettlementJudges
  <2>2. CASE t \notin w /\ t \in l
    <3>1. ticket'[t] = Settled(t, "orphaned")
      BY <2>2 DEF TicketsAfter
    <3>2. writer.handle[t] = 0 /\ Gone(t) /\ ticket[t].status = "running"
      BY <1>1, <2>2 DEF Lost, Running
    <3> QED BY <2>2, <3>1, <3>2, SettlementJudges
  <2>3. CASE t \notin w /\ t \notin l
    <3>1. ticket'[t] = ticket[t]
      BY <2>3 DEF TicketsAfter
    <3> QED BY <3>1, RowsAre DEF Judged, LaneInv
  <2> QED BY <2>1, <2>2, <2>3
<1>3. ticket' = [t \in Tickets |-> ticket'[t]]
  BY DEF TicketsAfter
<1> QED BY <1>2, <1>3

(* A launcher forgets no child that runs.                                    *)
LEMMA ForgottenIs ==
    ASSUME LaneInv, NEW S \in SUBSET Finished, NEW L \in SUBSET Lost
    PROVE  LET w == Forgotten(S, L)
           IN  /\ w \in WriterRow /\ w.state = writer.state
               /\ w.current = writer.current /\ w.launch = writer.launch
               /\ \A t \in Tickets : \/ w.handle[t] = writer.handle[t]
                                     \/ w.handle[t] = 0 /\ ~Alive(writer.handle[t])
               /\ \A t \in Tickets : OnTicket(t) =>
                     w.handle[t] = writer.handle[t] /\ (t \in writer.index => t \in w.index)
<1> DEFINE handle == [t \in Tickets |-> IF t \in S THEN 0 ELSE writer.handle[t]]
           index == writer.index \ (S \cup L)
           a == [writer EXCEPT !.handle = handle]
           b == [a EXCEPT !.index = index]
<1>1. /\ writer \in WriterRow /\ writer.handle \in [Tickets -> 0 .. MaxRuns]
      /\ writer.index \in SUBSET Tickets
  BY WriterIs DEF LaneInv
<1>2. handle \in [Tickets -> 0 .. MaxRuns]
  BY <1>1, NothingIs
<1>3. Forgotten(S, L) = b
  BY DEF Forgotten
<1>4. \A t \in Tickets : \/ handle[t] = writer.handle[t]
                         \/ handle[t] = 0 /\ ~Alive(writer.handle[t])
  BY DEF Finished
<1>5. ASSUME NEW t \in Tickets, OnTicket(t)
      PROVE  handle[t] = writer.handle[t] /\ (t \in writer.index => t \in index)
  <2>1. t \notin S
    BY <1>5 DEF Finished, OnTicket, LaneInv, WriterKnows
  <2>2. t \notin L
    BY <1>5, GoneIsOver, RowsAre DEF Lost, Gone, OnTicket, LaneInv
  <2> QED BY <2>1, <2>2
<1>6. index \in SUBSET Tickets
  BY <1>1
<1> HIDE DEF handle, index
<1>7. /\ a \in WriterRow /\ a.handle = handle /\ a.state = writer.state
      /\ a.current = writer.current /\ a.launch = writer.launch
  BY <1>1, <1>2 DEF WriterRow
<1> HIDE DEF a
<1>8. /\ b \in WriterRow /\ b.handle = a.handle /\ b.index = index /\ b.state = a.state
      /\ b.current = a.current /\ b.launch = a.launch
  BY <1>6, <1>7 DEF WriterRow
<1> HIDE DEF b
<1>9. b.handle = handle /\ b.state = writer.state
      /\ b.current = writer.current /\ b.launch = writer.launch
  BY <1>7, <1>8
<1>10. \A t \in Tickets : \/ b.handle[t] = writer.handle[t]
                          \/ b.handle[t] = 0 /\ ~Alive(writer.handle[t])
  BY <1>4, <1>9
<1>11. \A t \in Tickets : OnTicket(t) =>
          b.handle[t] = writer.handle[t] /\ (t \in writer.index => t \in b.index)
  BY <1>5, <1>8, <1>9
<1> QED BY <1>3, <1>8, <1>9, <1>10, <1>11, ZenonT(30)

(* Reaping, with nothing launched.                                           *)
LEMMA ReapKeeps ==
    ASSUME LaneInv, Idle, UNCHANGED <<marker, host, scan, deaths, setting>>,
           outside' \in OutsideRow,
           outside'.drained = outside.drained /\ outside'.late = outside.late,
           outside'.request => outside.request,
           ticket' \in [Tickets -> Record], clock' \in Nat, clock <= clock',
           \A t \in Tickets : Judged(t),
           NEW S \in SUBSET Finished, NEW L \in SUBSET Lost, writer' = Forgotten(S, L)
    PROVE  LaneInv'
<1>1. /\ LaneType /\ RunsInOrder /\ TicketsNamed /\ TicketTellsTheExit /\ WriterKnows
      /\ ScansJudge /\ StampsPast /\ DrainHolds /\ OneAtATime
  BY DEF LaneInv
<1>2. /\ writer' \in WriterRow /\ writer'.state = "up" /\ writer.state = "up"
      /\ writer'.current = writer.current
      /\ writer'.launch = NoLaunch /\ writer.launch = NoLaunch
      /\ \A t \in Tickets : \/ writer'.handle[t] = writer.handle[t]
                            \/ writer'.handle[t] = 0 /\ ~Alive(writer.handle[t])
      /\ \A t \in Tickets : OnTicket(t) =>
            writer'.handle[t] = writer.handle[t] /\ (t \in writer.index => t \in writer'.index)
  <2>1. writer.state = "up" /\ writer.launch = NoLaunch
    BY DEF Idle
  <2> DEFINE w == Forgotten(S, L)
  <2>2. /\ w \in WriterRow /\ w.state = writer.state
        /\ w.current = writer.current /\ w.launch = writer.launch
        /\ \A t \in Tickets : \/ w.handle[t] = writer.handle[t]
                              \/ w.handle[t] = 0 /\ ~Alive(writer.handle[t])
        /\ \A t \in Tickets : OnTicket(t) =>
              w.handle[t] = writer.handle[t] /\ (t \in writer.index => t \in w.index)
    BY ForgottenIs, Zenon
  <2>3. writer' = w
    OBVIOUS
  <2> HIDE DEF w
  <2> QED BY <2>1, <2>2, <2>3, ZenonT(30)
<1>3. /\ TicketsNamed' /\ TicketTellsTheExit'
      /\ \A t \in Tickets : ticket'[t].mtime <= clock'
      /\ \A t \in Tickets : OnTicket(t)' => OnTicket(t) /\ ticket'[t] = ticket[t]
      /\ \A t \in Tickets : OnTicket(t) => ticket'[t] = ticket[t]
  <2>1. exit' = exit /\ \A r \in Runs : proc[r] # "unborn" => proc'[r] = proc[r]
    BY DEF host
  <2> QED BY <2>1, JudgedIsTrue
<1>4. LaneType'
  <2>1. TypeOK'
    BY <1>1, <1>2 DEF LaneType, TypeOK, Record, WriterRow, host
  <2> QED BY <1>1, <1>2, <2>1 DEF LaneType, WriterRow
<1>5. RunsInOrder'
  BY <1>1 DEF RunsInOrder, host
<1>6. \A t \in Tickets : ticket'[t].status = "running" => ticket'[t] = ticket[t]
  BY DEF Judged
<1>7. WriterKnows'
  BY <1>1, <1>2, <1>6 DEF WriterKnows, host
<1>8. ScansJudge' /\ StampsPast'
  <2>1. ScansJudge'
    BY <1>1 DEF ScansJudge, Born, Alive, host
  <2>2. clock \in Nat /\ marker.cutoff \in Nat /\ \A p \in Scanners : scan[p].newest \in Nat
    BY <1>1, WriterIs, ScanIs
  <2>3. marker'.cutoff <= clock' /\ \A p \in Scanners : scan'[p].newest <= clock'
    BY <1>1, <2>2 DEF StampsPast
  <2> QED BY <1>3, <2>1, <2>3 DEF StampsPast
<1>9. DrainHolds'
  <2>1. ASSUME NEW t \in Tickets, Alive(writer.handle[t])'
        PROVE  Alive(writer.handle[t]) /\ writer'.handle[t] = writer.handle[t]
    <3>1. writer'.handle[t] # 0 /\ proc[writer'.handle[t]] = "alive"
      BY <2>1 DEF Alive, host
    <3> QED BY <1>2, <3>1 DEF Alive
  <2>2. NoReaders => \A t \in Tickets : Alive(writer.handle[t])' => ticket'[t].status = "running"
    <3>1. ASSUME NoReaders, NEW t \in Tickets, Alive(writer.handle[t])'
          PROVE  ticket'[t].status = "running"
      <4>1. ticket[t].status = "running" /\ Alive(writer.handle[t])
        BY <1>1, <2>1, <3>1 DEF DrainHolds
      <4>2. OnTicket(t)
        BY <1>1, <4>1 DEF OnTicket, WriterKnows, Alive
      <4> QED BY <1>3, <4>1, <4>2
    <3> QED BY <3>1
  <2> QED BY <1>1, <2>1, <2>2, SettingStays DEF DrainHolds
<1>10. ASSUME ~Window, NoReaders PROVE KnownByTickets'
  <2>1. KnownByTickets
    BY <1>1, <1>10 DEF OneAtATime
  <2>2. scan["writer"].pc = "off"
    BY <1>1, <1>2 DEF WriterKnows
  <2>3. ASSUME NEW r \in Runs, Alive(r)'
        PROVE  \E x \in Tickets : ticket'[x].status = "running" /\ ticket'[x].run = r
    <3>1. Alive(r) /\ r # writer.launch.run
      BY <1>2, <2>3, NothingIs DEF Alive, host
    <3>2. PICK x \in Tickets : ticket[x].status = "running" /\ ticket[x].run = r
      BY <2>1, <3>1 DEF KnownByTickets
    <3> QED BY <1>3, <3>1, <3>2 DEF OnTicket
  <2>4. \A x \in Tickets : OnTicket(x)' =>
            /\ ticket'[x].mtime <= marker.cutoff => x \in marker.running
            /\ \/ writer'.handle[x] = ticket'[x].run /\ writer'.current = ticket'[x].run
               \/ writer'.handle[x] = 0 /\ x \in writer'.index
    BY <1>2, <1>3, <2>1 DEF KnownByTickets
  <2> QED BY <1>2, <2>2, <2>3, <2>4, NothingIs DEF KnownByTickets
<1>11. OneAtATime'
  <2>1. AtMostOne => AtMostOne'
    BY DEF AtMostOne, Alive, host
  <2>2. LaunchAlone'
    BY <1>2 DEF LaunchAlone
  <2>3. KnownByWriter => KnownByWriter'
    BY <1>2 DEF KnownByWriter, Alive, host
  <2> QED BY <1>1, <1>10, <2>1, <2>2, <2>3, SettingStays DEF OneAtATime
<1> QED BY <1>3, <1>4, <1>5, <1>7, <1>8, <1>9, <1>11 DEF LaneInv

LEMMA RefuseJudges ==
    ASSUME LaneInv, Refuse
    PROVE  /\ clock' \in Nat /\ clock <= clock'
           /\ ticket' \in [Tickets -> Record] /\ \A t \in Tickets : Judged(t)
           /\ \E S \in SUBSET Finished, L \in SUBSET Lost : writer' = Forgotten(S, L)
<1>1. PICK S \in SUBSET Finished, L \in SUBSET {c \in Inherited : Gone(c)} :
          Reaped(S, L) /\ writer' = Forgotten(S, L)
  BY DEF Refuse
<1>2. L \in SUBSET Lost
  <2>1. writer.index \in SUBSET Tickets
    BY WriterIs DEF LaneInv
  <2> QED BY <2>1 DEF Inherited, Lost, Running
<1>3. PICK w \in Written(Running(S)), l \in Written(L) :
          /\ ticket' = TicketsAfter(w, l)
          /\ clock' = IF w \cup l = {} THEN clock ELSE clock + 1
  BY <1>1 DEF Reaped
<1>4. clock' \in Nat /\ clock <= clock' /\ (w \cup l # {} => clock + 1 <= clock')
  BY <1>3, WriterIs DEF LaneInv
<1>5. ticket' \in [Tickets -> Record] /\ \A t \in Tickets : Judged(t)
  BY <1>2, <1>3, <1>4, ReapedJudges
<1> QED BY <1>1, <1>2, <1>4, <1>5

LEMMA RefuseKeeps ==
    ASSUME LaneInv, UNCHANGED setting, Refuse
    PROVE  LaneInv'
<1>1. /\ clock' \in Nat /\ clock <= clock'
      /\ ticket' \in [Tickets -> Record] /\ \A t \in Tickets : Judged(t)
  BY RefuseJudges
<1>2. PICK S \in SUBSET Finished, L \in SUBSET Lost : writer' = Forgotten(S, L)
  BY RefuseJudges
<1>3. /\ outside' \in OutsideRow
      /\ outside'.drained = outside.drained /\ outside'.late = outside.late
      /\ outside'.request => outside.request
  BY DEF Refuse, LaneInv, LaneType, OutsideRow
<1>4. Idle /\ UNCHANGED <<marker, host, scan, deaths>>
  BY DEF Refuse
<1> QED BY <1>1, <1>2, <1>3, <1>4, ReapKeeps

LEMMA StatusJudges ==
    ASSUME LaneInv, NEW t \in Tickets, Status(t)
    PROVE  /\ clock' \in Nat /\ clock <= clock'
           /\ ticket' \in [Tickets -> Record] /\ \A x \in Tickets : Judged(x)
           /\ \E S \in SUBSET Finished, L \in SUBSET Lost : writer' = Forgotten(S, L)
<1>1. /\ Idle /\ ticket[t].status = "running" /\ clock' = clock + 1
      /\ UNCHANGED <<marker, host, scan, outside, deaths>>
  BY DEF Status
<1>2. clock' \in Nat /\ clock <= clock' /\ clock + 1 <= clock'
  BY <1>1, WriterIs DEF LaneInv
<1>3. PICK S \in SUBSET Finished, L \in SUBSET Lost :
          /\ writer' = Forgotten(S, L)
          /\ \A x \in Tickets : x # t => ticket'[x] = ticket[x]
          /\ \/ t \in Finished /\ ticket'[t] = Settled(t, ExitStatus(writer.handle[t]))
             \/ writer.handle[t] = 0 /\ Gone(t) /\ ticket'[t] = Settled(t, "orphaned")
          /\ ticket' = [x \in Tickets |-> ticket'[x]]
  <2>1. ticket \in [Tickets -> Record]
    BY DEF LaneInv, LaneType, TypeOK, Record
  <2>2. CASE ByHandle(t)
    <3>1. {t} \in SUBSET Finished /\ {} \in SUBSET Lost
      BY <2>2 DEF ByHandle
    <3>2. /\ \A x \in Tickets : x # t => ticket'[x] = ticket[x]
          /\ t \in Finished /\ ticket'[t] = Settled(t, ExitStatus(writer.handle[t]))
          /\ ticket' = [x \in Tickets |-> ticket'[x]]
      BY <2>1, <2>2 DEF ByHandle
    <3>3. writer' = Forgotten({t}, {})
      BY <2>2 DEF ByHandle
    <3> QED BY <3>1, <3>2, <3>3
  <2>3. CASE ByPid(t)
    <3>1. {} \in SUBSET Finished /\ {t} \in SUBSET Lost
      BY <1>1, <2>3 DEF ByPid, Lost, Running
    <3>2. /\ \A x \in Tickets : x # t => ticket'[x] = ticket[x]
          /\ writer.handle[t] = 0 /\ Gone(t) /\ ticket'[t] = Settled(t, "orphaned")
          /\ ticket' = [x \in Tickets |-> ticket'[x]]
      BY <2>1, <2>3 DEF ByPid
    <3>3. writer' = Forgotten({}, {t})
      BY <2>3 DEF ByPid
    <3> QED BY <3>1, <3>2, <3>3
  <2> QED BY <2>2, <2>3 DEF Status
<1>4. Judged(t) /\ ticket'[t] \in Record
  BY <1>1, <1>2, <1>3, SettlementJudges
<1>5. ASSUME NEW x \in Tickets PROVE Judged(x) /\ ticket'[x] \in Record
  BY <1>3, <1>4, RowsAre DEF Judged, LaneInv
<1>6. ticket' \in [Tickets -> Record]
  BY <1>3, <1>5
<1> QED BY <1>2, <1>3, <1>5, <1>6

LEMMA StatusKeeps ==
    ASSUME LaneInv, UNCHANGED setting, NEW t \in Tickets, Status(t)
    PROVE  LaneInv'
<1>1. /\ clock' \in Nat /\ clock <= clock'
      /\ ticket' \in [Tickets -> Record] /\ \A x \in Tickets : Judged(x)
  BY StatusJudges
<1>2. PICK S \in SUBSET Finished, L \in SUBSET Lost : writer' = Forgotten(S, L)
  BY StatusJudges
<1>3. outside \in OutsideRow
  BY DEF LaneInv, LaneType
<1>4. Idle /\ UNCHANGED <<marker, host, scan, outside, deaths>>
  BY DEF Status
<1> QED BY <1>1, <1>2, <1>3, <1>4, ReapKeeps

-----------------------------------------------------------------------------
(* A launch *)

(* The next run is the first that was not started.                           *)
LEMMA NextRun ==
    ASSUME LaneInv, NEW r, r = Cardinality({x \in Runs : proc[x] # "unborn"}) + 1, r \in Runs
    PROVE  proc[r] = "unborn" /\ \A s \in Runs : s < r => proc[s] # "unborn"
<1> DEFINE B == {x \in Runs : proc[x] # "unborn"}
<1>1. MaxRuns \in Nat
  BY LaneAssumption
<1>2. IsFiniteSet(Runs) /\ IsFiniteSet(B) /\ Cardinality(B) \in Nat
  <2>1. IsFiniteSet(1 .. MaxRuns)
    BY <1>1, FS_Interval
  <2>2. B \subseteq 1 .. MaxRuns
    BY DEF Runs
  <2> HIDE DEF B
  <2>3. IsFiniteSet(B)
    BY <2>1, <2>2, FS_Subset
  <2> QED BY <2>1, <2>3, FS_CardinalityType DEF Runs
<1>3. \A x, y \in Runs : y <= x /\ x \in B => y \in B
  BY DEF LaneInv, RunsInOrder
<1>4. r = Cardinality(B) + 1
  OBVIOUS
<1> HIDE DEF B
<1>5. r \notin B
  <2>1. SUFFICES ASSUME r \in B PROVE FALSE
    OBVIOUS
  <2>2. 1 .. r \subseteq B
    <3>1. r \in Nat /\ r <= MaxRuns
      BY <1>1 DEF Runs
    <3>2. \A y \in 1 .. r : y \in Runs /\ y <= r
      BY <1>1, <3>1 DEF Runs
    <3> QED BY <1>3, <2>1, <3>2
  <2>3. Cardinality(1 .. r) = r
    BY <1>2, <1>4, FS_Interval
  <2>4. Cardinality(1 .. r) <= Cardinality(B)
    BY <1>2, <2>2, FS_Subset
  <2> QED BY <1>2, <1>4, <2>3, <2>4
<1>6. ASSUME NEW s \in Runs, s < r PROVE s \in B
  <2>1. SUFFICES ASSUME s \notin B PROVE FALSE
    OBVIOUS
  <2>2. s \in Nat /\ s >= 1 /\ B \subseteq Runs
    BY <1>1 DEF Runs, B
  <2>3. B \subseteq 1 .. (s - 1)
    BY <1>1, <1>3, <2>1, <2>2 DEF Runs
  <2>4. IsFiniteSet(1 .. (s - 1)) /\ Cardinality(1 .. (s - 1)) = s - 1
    BY <2>2, FS_Interval
  <2>5. Cardinality(B) <= s - 1
    BY <2>3, <2>4, FS_Subset
  <2> QED BY <1>2, <1>4, <1>6, <2>2, <2>5
<1> QED BY <1>5, <1>6 DEF B

(* Nobody runs when a request finds the slot free.                           *)
LEMMA SlotIsFree ==
    ASSUME LaneInv, Idle, ~Alive(writer.current), \A c \in Inherited : Gone(c),
           ~Window, NoReaders \/ deaths = 0, NEW r \in Runs
    PROVE  ~Alive(r)
<1>1. LaneType /\ OneAtATime /\ writer.state = "up" /\ writer.launch.run = 0 /\ r # 0
  BY NothingIs, RunIs DEF LaneInv, Idle
<1>2. SUFFICES ASSUME Alive(r) PROVE FALSE
  OBVIOUS
<1>3. CASE deaths = 0
  BY <1>1, <1>2, <1>3 DEF OneAtATime, KnownByWriter
<1>4. CASE NoReaders
  <2>1. KnownByTickets
    BY <1>1, <1>4 DEF OneAtATime
  <2>2. PICK t \in Tickets : ticket[t].status = "running" /\ ticket[t].run = r
    BY <1>1, <1>2, <2>1 DEF KnownByTickets
  <2>3. OnTicket(t)
    BY <1>2, <2>2 DEF OnTicket
  <2>4. writer.handle[t] = 0 /\ t \in writer.index
    BY <1>1, <1>2, <2>1, <2>2, <2>3 DEF KnownByTickets
  <2>5. FALSE \in HoldsSlot(r)
    BY <2>2, <2>4 DEF Inherited, Running, Gone
  <2> QED BY <1>1, <1>2, <2>5, GoneIsOver, RunIs
<1> QED BY <1>3, <1>4

LEMMA SpawnJudges ==
    ASSUME LaneInv, NEW t, Spawn(t)
    PROVE  /\ Inherited \in SUBSET Lost
           /\ ticket' \in [Tickets -> Record] /\ \A x \in Tickets : Judged(x)
<1>1. PICK S \in SUBSET Finished : Popen(t, S)
  BY DEF Spawn
<1>2. PICK w \in Written(Running(S)), l \in Written(Inherited) : ticket' = TicketsAfter(w, l)
  BY <1>1 DEF Popen
<1>3. clock' \in Nat /\ clock <= clock' /\ clock + 1 <= clock'
  BY <1>1, WriterIs DEF LaneInv, Popen
<1>4. Inherited \in SUBSET Lost
  <2>1. writer.index \in SUBSET Tickets /\ \A c \in Inherited : Gone(c)
    BY WriterIs DEF LaneInv, Spawn
  <2> QED BY <2>1 DEF Inherited, Lost, Running
<1> QED BY <1>2, <1>3, <1>4, ReapedJudges

LEMMA SpawnKeeps ==
    ASSUME LaneInv, UNCHANGED setting, NEW t \in setting.tickets, Spawn(t)
    PROVE  LaneInv'
<1> DEFINE r == Cardinality({x \in Runs : proc[x] # "unborn"}) + 1
           launch == [ticket |-> t, run |-> r, started |-> clock + 2]
<1>1. /\ LaneType /\ RunsInOrder /\ TicketsNamed /\ TicketTellsTheExit /\ WriterKnows
      /\ ScansJudge /\ StampsPast /\ DrainHolds /\ OneAtATime
  BY DEF LaneInv
<1>2. /\ Idle /\ outside.request /\ ~Alive(writer.current) /\ \A c \in Inherited : Gone(c)
      /\ writer.state = "up" /\ writer.launch = NoLaunch
      /\ UNCHANGED <<marker, exit, scan, outside, deaths>>
  BY DEF Spawn, Idle
<1>3. PICK S \in SUBSET Finished : Popen(t, S)
  BY DEF Spawn
<1>4. /\ r \in Runs /\ clock' = clock + 2 /\ proc' = [proc EXCEPT ![r] = "alive"]
      /\ writer' = [Forgotten(S, Inherited) EXCEPT !.launch = launch]
  BY <1>3 DEF Popen
<1>5. proc[r] = "unborn" /\ \A s \in Runs : s < r => proc[s] # "unborn"
  <2>1. PICK q : q = r
    OBVIOUS
  <2> QED BY <1>4, NextRun
<1>6. clock \in Nat /\ clock' \in Nat /\ clock <= clock' /\ clock + 1 <= clock' /\ clock + 2 \in Nat
  BY <1>1, <1>4, WriterIs
<1>7. Inherited \in SUBSET Lost
  BY SpawnJudges
<1>8. t \in Tickets
  <2>1. setting \in Settings
    BY <1>1 DEF LaneType, TypeOK
  <2> QED BY <2>1, LaneAssumption
<1> HIDE DEF r
<1>9. r \in 0 .. MaxRuns /\ r # 0
  BY <1>4, RunIs
<1>10. launch \in Launches /\ launch # NoLaunch /\ launch.run = r /\ launch.ticket = t
  BY <1>6, <1>8, <1>9 DEF Launches, NoLaunch
<1>11. ticket' \in [Tickets -> Record] /\ \A x \in Tickets : Judged(x)
  BY SpawnJudges
<1>12. /\ proc' \in [Runs -> {"unborn", "alive", "exited", "reused", "gone"}]
       /\ proc'[r] = "alive" /\ \A s \in Runs : s # r => proc'[s] = proc[s]
       /\ \A s \in Runs : proc[s] # "unborn" => proc'[s] = proc[s]
       /\ \A s \in Runs : s # r /\ proc'[s] = "alive" => proc[s] = "alive"
  <2>1. proc \in [Runs -> {"unborn", "alive", "exited", "reused", "gone"}]
    BY <1>1 DEF LaneType, TypeOK
  <2> QED BY <1>4, <1>5, <2>1
<1>13. /\ writer' \in WriterRow /\ writer'.state = "up" /\ writer'.current = writer.current
       /\ writer'.launch = launch
       /\ \A x \in Tickets : \/ writer'.handle[x] = writer.handle[x]
                             \/ writer'.handle[x] = 0
  <2> DEFINE w == Forgotten(S, Inherited)
  <2>1. /\ w \in WriterRow /\ w.state = writer.state /\ w.current = writer.current
        /\ \A x \in Tickets : w.handle[x] = writer.handle[x] \/ w.handle[x] = 0
    BY <1>7, ForgottenIs
  <2>2. writer' = [w EXCEPT !.launch = launch]
    BY <1>4
  <2> HIDE DEF w, launch
  <2> QED BY <1>2, <1>10, <2>1, <2>2 DEF WriterRow
<1> HIDE DEF launch
<1>14. /\ TicketsNamed' /\ TicketTellsTheExit'
       /\ \A x \in Tickets : ticket'[x].mtime <= clock'
       /\ \A x \in Tickets : Born(ticket[x].run) \/ ticket[x].run = 0
       /\ \A x \in Tickets : OnTicket(x)' => OnTicket(x)
       /\ \A x \in Tickets : OnTicket(x) => ticket'[x] = ticket[x]
  BY <1>2, <1>6, <1>11, <1>12, JudgedIsTrue
<1>15. \A x \in Tickets : /\ ticket'[x].run = ticket[x].run
                          /\ ticket'[x].status = "running" => ticket'[x] = ticket[x]
  BY <1>11 DEF Judged
<1>16. LaneType'
  <2>1. TypeOK'
    BY <1>1, <1>2, <1>11, <1>12, <1>13 DEF LaneType, TypeOK, Record, WriterRow
  <2> QED BY <1>1, <1>2, <1>6, <1>11, <1>12, <1>13, <2>1 DEF LaneType, WriterRow
<1>17. RunsInOrder'
  <2>1. \A s, q \in Runs : q <= s /\ proc'[s] # "unborn" => proc'[q] # "unborn"
    <3>1. ASSUME NEW s \in Runs, NEW q \in Runs, q <= s, proc'[s] # "unborn"
          PROVE  proc'[q] # "unborn"
      <4>1. CASE s = r
        <5>1. q \in Nat /\ r \in Nat
          BY <1>9, LaneAssumption DEF Runs
        <5>2. q = r \/ q < r
          BY <3>1, <4>1, <5>1
        <5> QED BY <1>5, <1>12, <5>2
      <4>2. CASE s # r
        BY <1>1, <1>12, <3>1, <4>2 DEF RunsInOrder
      <4> QED BY <4>1, <4>2
    <3> QED BY <3>1
  <2>2. \A s \in Runs : exit[s] = "none" <=> proc'[s] \in {"unborn", "alive"}
    BY <1>1, <1>5, <1>12 DEF RunsInOrder
  <2> QED BY <1>2, <2>1, <2>2 DEF RunsInOrder
<1>18. WriterKnows'
  <2>1. ASSUME NEW x \in Tickets, writer'.handle[x] # 0
        PROVE  /\ proc'[writer'.handle[x]] \in {"alive", "exited"}
               /\ ticket'[x].status = "running" => ticket'[x].run = writer'.handle[x]
    <3>1. /\ writer'.handle[x] = writer.handle[x] /\ writer.handle[x] # 0
          /\ proc[writer.handle[x]] \in {"alive", "exited"}
          /\ ticket[x].status = "running" => ticket[x].run = writer.handle[x]
      BY <1>1, <1>13, <2>1 DEF WriterKnows
    <3>2. writer.handle[x] \in Runs
      BY <1>1, <3>1, RowsAre, Runners
    <3> QED BY <1>12, <1>15, <3>1, <3>2
  <2> QED BY <1>1, <1>2, <1>4, <1>8, <1>10, <1>12, <1>13, <2>1 DEF WriterKnows
<1>19. \A s \in 0 .. MaxRuns : Born(s) => Born(s)' /\ (Alive(s)' <=> Alive(s))
  BY <1>12, Runners DEF Born
<1>20. ScansJudge' /\ StampsPast'
  <2>1. ScansJudge'
    BY <1>1, <1>2, <1>19, ScanIs DEF ScansJudge
  <2>2. clock \in Nat /\ marker.cutoff \in Nat /\ \A p \in Scanners : scan[p].newest \in Nat
    BY <1>1, WriterIs, ScanIs
  <2>3. marker'.cutoff <= clock' /\ \A p \in Scanners : scan'[p].newest <= clock'
    BY <1>1, <1>2, <1>6, <2>2 DEF StampsPast
  <2> QED BY <1>14, <2>1, <2>3 DEF StampsPast
<1>21. DrainHolds'
  <2>1. ASSUME NEW x \in Tickets, Alive(writer.handle[x])'
        PROVE  Alive(writer.handle[x]) /\ writer'.handle[x] = writer.handle[x]
    <3>1. writer'.handle[x] # 0 /\ proc'[writer'.handle[x]] = "alive"
      BY <2>1 DEF Alive
    <3>2. writer'.handle[x] = writer.handle[x] /\ writer.handle[x] \in Runs
      BY <1>1, <1>13, <3>1, RowsAre, Runners
    <3>3. proc[writer.handle[x]] # "unborn"
      BY <1>1, <3>1, <3>2 DEF WriterKnows
    <3> QED BY <1>12, <3>1, <3>2, <3>3 DEF Alive
  <2>2. ASSUME NoReaders, NEW x \in Tickets, Alive(writer.handle[x])'
        PROVE  ticket'[x].status = "running"
    <3>1. ticket[x].status = "running" /\ Alive(writer.handle[x])
      BY <1>1, <2>1, <2>2 DEF DrainHolds
    <3>2. OnTicket(x)
      BY <1>1, <3>1 DEF OnTicket, WriterKnows, Alive
    <3> QED BY <1>14, <3>1, <3>2
  <2> QED BY <1>1, <1>2, <2>1, <2>2, SettingStays DEF DrainHolds
<1>22. ASSUME ~Window, NoReaders \/ deaths = 0, NEW s \in Runs, Alive(s)'
       PROVE  s = r
  <2>1. ~Alive(s)
    BY <1>2, <1>22, SlotIsFree
  <2> QED BY <1>12, <1>22, <2>1, RunIs
<1>23. ASSUME ~Window, NoReaders PROVE KnownByTickets'
  <2>1. \A x \in Tickets : ~OnTicket(x)
    BY <1>1, <1>2, <1>23, SlotIsFree, RowsAre, Runners DEF OnTicket
  <2>2. \A x \in Tickets : ~OnTicket(x)'
    BY <1>14, <2>1
  <2>3. \A s \in Runs : Alive(s)' => s = writer'.launch.run
    BY <1>10, <1>13, <1>22, <1>23
  <2>4. \A x \in Tickets : ticket'[x].run # 0 => ticket'[x].run # writer'.launch.run
    BY <1>5, <1>10, <1>13, <1>14, <1>15 DEF Born
  <2>5. scan'["writer"].pc = "off"
    BY <1>1, <1>2 DEF WriterKnows
  <2> QED BY <1>13, <2>2, <2>3, <2>4, <2>5 DEF KnownByTickets
<1>24. OneAtATime'
  <2>1. ~Window /\ (NoReaders \/ deaths = 0) => AtMostOne' /\ LaunchAlone'
    BY <1>10, <1>13, <1>22 DEF AtMostOne, LaunchAlone
  <2>2. ~Window /\ deaths = 0 => KnownByWriter'
    BY <1>10, <1>13, <1>22 DEF KnownByWriter
  <2> QED BY <1>2, <1>23, <2>1, <2>2, SettingStays DEF OneAtATime
<1> QED BY <1>14, <1>16, <1>17, <1>18, <1>20, <1>21, <1>24 DEF LaneInv

LEMMA WriteTicketKeeps ==
    ASSUME LaneInv, UNCHANGED setting, WriteTicket
    PROVE  LaneInv'
<1> DEFINE r == writer.launch.run
           t == writer.launch.ticket
           record == [status |-> "running", run |-> r,
                      started |-> writer.launch.started, mtime |-> clock + 1]
           a == [writer EXCEPT !.handle[t] = r]
           b == [a EXCEPT !.index = writer.index \cup {t}]
           c == [b EXCEPT !.current = r]
           d == [c EXCEPT !.launch = NoLaunch]
<1>1. /\ LaneType /\ RunsInOrder /\ TicketsNamed /\ TicketTellsTheExit /\ WriterKnows
      /\ ScansJudge /\ StampsPast /\ DrainHolds /\ OneAtATime
  BY DEF LaneInv
<1>2. /\ writer.state = "up" /\ writer.launch # NoLaunch /\ clock' = clock + 1
      /\ ticket' = [ticket EXCEPT ![t] = record] /\ writer' = d
      /\ outside' = [outside EXCEPT !.request = FALSE,
            !.late = IF outside.drained THEN @ \cup {r} ELSE @]
      /\ UNCHANGED <<marker, host, scan, deaths>>
  BY DEF WriteTicket, Launching
<1>3. t \in Tickets /\ r \in Runs /\ proc[r] \in {"alive", "exited"} /\ outside.request
  BY <1>1, <1>2 DEF WriterKnows
<1>4. /\ writer \in WriterRow /\ r \in 0 .. MaxRuns /\ r # 0 /\ clock + 1 \in Nat
      /\ writer.launch.started \in Nat /\ clock \in Nat /\ marker.cutoff \in Nat
  BY <1>1, <1>3, WriterIs, RunIs
<1>5. record \in Record /\ record.status = "running" /\ record.run = r /\ record.mtime = clock + 1
  BY <1>4 DEF Record, Statuses
<1> HIDE DEF record
<1>6. ticket' \in [Tickets -> Record] /\ ticket'[t] = record /\ \A x \in Tickets : x # t => ticket'[x] = ticket[x]
  BY <1>1, <1>2, <1>3, <1>5 DEF LaneType, TypeOK, Record
<1>7. /\ d \in WriterRow /\ d.state = writer.state /\ d.handle = [writer.handle EXCEPT ![t] = r]
      /\ d.index = writer.index \cup {t} /\ d.current = r /\ d.launch = NoLaunch
  <2> HIDE DEF t, r
  <2>1. /\ a \in WriterRow /\ a.state = writer.state /\ a.handle = [writer.handle EXCEPT ![t] = r]
    BY <1>3, <1>4 DEF WriterRow
  <2>2. writer.index \cup {t} \in SUBSET Tickets
    BY <1>1, <1>3, WriterIs
  <2> HIDE DEF a
  <2>3. /\ b \in WriterRow /\ b.state = a.state /\ b.handle = a.handle
        /\ b.index = writer.index \cup {t}
    BY <2>1, <2>2 DEF WriterRow
  <2> HIDE DEF b
  <2>4. /\ c \in WriterRow /\ c.state = b.state /\ c.handle = b.handle
        /\ c.index = b.index /\ c.current = r
    BY <1>4, <2>3 DEF WriterRow
  <2> HIDE DEF c
  <2>5. /\ d \in WriterRow /\ d.state = c.state /\ d.handle = c.handle
        /\ d.index = c.index /\ d.current = c.current /\ d.launch = NoLaunch
    BY <2>4, NothingIs DEF WriterRow
  <2> HIDE DEF d
  <2> QED BY <2>1, <2>3, <2>4, <2>5
<1> HIDE DEF d
<1>8. /\ writer'.state = "up" /\ writer'.handle[t] = r /\ writer'.current = r
      /\ writer'.launch = NoLaunch /\ \A x \in Tickets : x # t => writer'.handle[x] = writer.handle[x]
  <2>1. writer.handle \in [Tickets -> 0 .. MaxRuns]
    BY <1>1, WriterIs
  <2> QED BY <1>2, <1>3, <1>7, <2>1
<1>9. /\ outside' \in OutsideRow /\ ~outside'.request
      /\ outside'.drained = outside.drained /\ outside.late \subseteq outside'.late
      /\ outside.drained => r \in outside'.late
  BY <1>1, <1>2, <1>3 DEF LaneType, OutsideRow
<1> HIDE DEF t, r
<1>10. LaneType'
  <2>1. TypeOK'
    BY <1>1, <1>2, <1>6, <1>7 DEF LaneType, TypeOK, Record, WriterRow, host
  <2> QED BY <1>1, <1>2, <1>4, <1>6, <1>7, <1>9, <2>1 DEF LaneType, WriterRow
<1>11. RunsInOrder'
  BY <1>1, <1>2 DEF RunsInOrder, host
<1>12. TicketsNamed' /\ TicketTellsTheExit'
  <2>1. ASSUME NEW x \in Tickets
        PROVE  /\ IF ticket'[x].status = "none" THEN ticket'[x].run = 0
                  ELSE ticket'[x].run \in Runs /\ proc[ticket'[x].run] # "unborn"
               /\ ticket'[x].status = "succeeded" => exit[ticket'[x].run] = "ok"
               /\ ticket'[x].status = "failed" => exit[ticket'[x].run] = "bad"
               /\ ticket'[x].status = "orphaned" =>
                     ~ (ticket'[x].run # 0 /\ proc[ticket'[x].run] = "alive")
    <3>1. CASE x = t
      BY <1>3, <1>5, <1>6, <3>1
    <3>2. CASE x # t
      BY <1>1, <1>6, <3>2 DEF TicketsNamed, TicketTellsTheExit, Born, Alive
    <3> QED BY <3>1, <3>2
  <2> QED BY <1>2, <2>1 DEF TicketsNamed, TicketTellsTheExit, Born, Alive, host
<1>13. WriterKnows'
  <2>1. ASSUME NEW x \in Tickets, writer'.handle[x] # 0
        PROVE  /\ proc[writer'.handle[x]] \in {"alive", "exited"}
               /\ ticket'[x].status = "running" => ticket'[x].run = writer'.handle[x]
    <3>1. CASE x = t
      BY <1>3, <1>5, <1>6, <1>8, <3>1
    <3>2. CASE x # t
      BY <1>1, <1>6, <1>8, <2>1, <3>2 DEF WriterKnows
    <3> QED BY <3>1, <3>2
  <2> QED BY <1>1, <1>2, <1>8, <2>1 DEF WriterKnows, host
<1>14. ScansJudge' /\ StampsPast'
  <2>1. ScansJudge'
    BY <1>1, <1>2 DEF ScansJudge, Born, Alive, host
  <2>2. \A p \in Scanners : scan[p].newest \in Nat
    BY <1>1, ScanIs
  <2>3. marker'.cutoff <= clock' /\ \A p \in Scanners : scan'[p].newest <= clock'
    BY <1>1, <1>2, <1>4, <2>2 DEF StampsPast
  <2>4. \A x \in Tickets : ticket'[x].mtime <= clock'
    <3>1. \A x \in Tickets : ticket[x].mtime \in Nat /\ ticket[x].mtime <= clock
      BY <1>1, RowsAre DEF StampsPast
    <3> QED BY <1>2, <1>4, <1>5, <1>6, <3>1
  <2> QED BY <2>1, <2>3, <2>4 DEF StampsPast
<1>15. DrainHolds'
  <2>1. ASSUME NoReaders, NEW x \in Tickets, Alive(writer.handle[x])'
        PROVE  /\ ticket'[x].status = "running"
               /\ outside'.drained => writer'.handle[x] \in outside'.late
    <3>1. CASE x = t
      BY <1>5, <1>6, <1>8, <1>9, <3>1
    <3>2. CASE x # t
      <4>1. Alive(writer.handle[x]) /\ writer'.handle[x] = writer.handle[x]
        BY <1>2, <1>8, <2>1, <3>2 DEF Alive, host
      <4> QED BY <1>1, <1>6, <1>9, <2>1, <3>2, <4>1 DEF DrainHolds
    <3> QED BY <3>1, <3>2
  <2> QED BY <1>1, <1>2, <2>1, SettingStays DEF DrainHolds
<1>16. \A s \in Runs : Alive(s)' <=> Alive(s)
  BY <1>2 DEF Alive, host
<1>17. LaunchAlone => \A s \in Runs : Alive(s)' => s = r
  BY <1>2, <1>16 DEF LaunchAlone, r
<1>18. ASSUME ~Window, NoReaders PROVE KnownByTickets'
  <2>1. KnownByTickets /\ LaunchAlone
    BY <1>1, <1>18 DEF OneAtATime
  <2>2. ASSUME NEW x \in Tickets, OnTicket(x)' PROVE x = t
    <3>1. ticket'[x].run = r
      <4>1. ticket'[x] \in Record
        BY <1>6
      <4>2. ticket'[x].run \in Runs /\ proc[ticket'[x].run] = "alive"
        BY <1>2, <2>2, <4>1, Runners DEF OnTicket, Alive, Record, host
      <4>3. Alive(ticket'[x].run)
        BY <4>2, RunIs
      <4> QED BY <1>2, <2>1, <4>2, <4>3 DEF LaunchAlone, r
    <3>2. x # t => ticket[x].run # r
      BY <1>4, <1>6, <2>1, <3>1 DEF KnownByTickets, r
    <3> QED BY <1>6, <3>1, <3>2
  <2>3. \A s \in Runs : Alive(s)' => ticket'[t].status = "running" /\ ticket'[t].run = s
    BY <1>5, <1>6, <1>17, <2>1
  <2>4. marker'.cutoff < ticket'[t].mtime
    BY <1>1, <1>2, <1>4, <1>5, <1>6 DEF StampsPast
  <2>5. scan'["writer"].pc = "off"
    BY <1>1, <1>2 DEF WriterKnows
  <2>6. ticket'[t].run = r
    BY <1>5, <1>6
  <2>7. \A x \in Tickets : OnTicket(x)' =>
            /\ ~ (ticket'[x].mtime <= marker'.cutoff)
            /\ writer'.handle[x] = ticket'[x].run /\ writer'.current = ticket'[x].run
    <3>1. marker'.cutoff \in Nat /\ ticket'[t].mtime \in Nat
      BY <1>2, <1>4, <1>5, <1>6
    <3> QED BY <1>8, <2>2, <2>4, <2>6, <3>1
  <2> QED BY <1>3, <1>8, <2>3, <2>5, <2>7, NothingIs DEF KnownByTickets
<1>19. OneAtATime'
  <2>1. AtMostOne => AtMostOne'
    BY <1>16 DEF AtMostOne
  <2>2. LaunchAlone'
    BY <1>8 DEF LaunchAlone
  <2>3. LaunchAlone => KnownByWriter'
    BY <1>8, <1>17 DEF KnownByWriter
  <2> QED BY <1>1, <1>2, <1>18, <2>1, <2>2, <2>3, SettingStays DEF OneAtATime
<1> QED BY <1>10, <1>11, <1>12, <1>13, <1>14, <1>15, <1>19 DEF LaneInv

LEMMA TicketLostKeeps ==
    ASSUME LaneInv, UNCHANGED setting, TicketLost
    PROVE  LaneInv'
<1>1. /\ LaneType /\ RunsInOrder /\ TicketsNamed /\ TicketTellsTheExit /\ WriterKnows
      /\ ScansJudge /\ StampsPast /\ DrainHolds
  BY DEF LaneInv
<1>2. /\ Window /\ writer.state = "up" /\ writer' = [writer EXCEPT !.launch = NoLaunch]
      /\ outside' = [outside EXCEPT !.request = FALSE]
      /\ UNCHANGED <<ticket, marker, host, scan, clock, deaths>>
  BY DEF TicketLost, Launching, files
<1>3. /\ writer' \in WriterRow /\ writer'.state = "up" /\ writer'.launch = NoLaunch
      /\ writer'.handle = writer.handle
  BY <1>1, <1>2, WriterIs, NothingIs DEF WriterRow
<1>4. /\ outside' \in OutsideRow
      /\ outside'.drained = outside.drained /\ outside'.late = outside.late
      /\ ~outside'.request
  BY <1>1, <1>2 DEF LaneType, OutsideRow
<1>5. LaneType'
  <2>1. TypeOK'
    BY <1>1, <1>2, <1>3 DEF LaneType, TypeOK, WriterRow, host
  <2> QED BY <1>1, <1>2, <1>3, <1>4, <2>1 DEF LaneType, WriterRow
<1>6. RunsInOrder' /\ TicketsNamed' /\ TicketTellsTheExit' /\ ScansJudge' /\ StampsPast'
  BY <1>1, <1>2 DEF RunsInOrder, TicketsNamed, TicketTellsTheExit, ScansJudge, StampsPast, Born, Alive, host
<1>7. WriterKnows'
  BY <1>1, <1>2, <1>3 DEF WriterKnows, host
<1>8. DrainHolds'
  BY <1>1, <1>2, <1>3, <1>4, SettingStays DEF DrainHolds, Alive, host
<1>9. OneAtATime'
  BY <1>2, SettingStays DEF OneAtATime
<1> QED BY <1>5, <1>6, <1>7, <1>8, <1>9 DEF LaneInv

-----------------------------------------------------------------------------
(* The ends of a writer *)

(* Some children may end with it; what it knew is in the tickets.            *)
LEMMA EndsKeeps ==
    ASSUME LaneInv, UNCHANGED setting, Ends,
           ~Window => writer.launch = NoLaunch,
           proc' \in [Runs -> {"unborn", "alive", "exited", "reused", "gone"}],
           exit' \in [Runs -> {"none", "ok", "bad"}],
           \A r \in Runs : \/ proc'[r] = proc[r] /\ exit'[r] = exit[r]
                           \/ proc[r] = "alive" /\ proc'[r] = "exited" /\ exit'[r] = "bad"
    PROVE  LaneInv'
<1>1. /\ LaneType /\ RunsInOrder /\ TicketsNamed /\ TicketTellsTheExit /\ WriterKnows
      /\ ScansJudge /\ StampsPast /\ DrainHolds /\ OneAtATime
  BY DEF LaneInv
<1>2. /\ deaths < setting.deaths /\ deaths' = deaths + 1 /\ writer' = Down
      /\ scan' = [scan EXCEPT !["writer"] = NoScan]
      /\ outside' = [outside EXCEPT !.request = FALSE]
      /\ UNCHANGED <<ticket, marker, clock>>
  BY DEF Ends, files
<1>3. /\ Down \in WriterRow /\ Down.state = "down" /\ Down.handle = [x \in Tickets |-> 0]
      /\ Down.current = 0 /\ Down.launch = NoLaunch
  BY NothingIs DEF Down, WriterRow
<1>4. /\ outside' \in OutsideRow
      /\ outside'.drained = outside.drained /\ outside'.late = outside.late
      /\ ~outside'.request
  BY <1>1, <1>2 DEF LaneType, OutsideRow
<1>5. /\ scan' \in [Scanners -> ScanRow] /\ scan'["writer"] = NoScan
      /\ \A p \in Scanners : p # "writer" => scan'[p] = scan[p]
  BY <1>1, <1>2, NothingIs, ScannerIs DEF LaneType
<1>6. \A r \in 0 .. MaxRuns : (Alive(r)' => Alive(r)) /\ (Born(r)' <=> Born(r))
  BY Runners
<1>7. LaneType'
  <2>1. TypeOK'
    <3>1. \A p \in Scanners : scan'[p] \in ScanRow
      BY <1>5
    <3>2. \A p \in Scanners : /\ scan'[p].pc \in {"off", "scan", "settle", "done"}
                              /\ scan'[p].todo \cup scan'[p].running \subseteq Tickets
                              /\ scan'[p].record \in Record
      BY <3>1 DEF ScanRow
    <3>3. Down.state \in {"down", "starting", "up"} /\ Down.handle \in [Tickets -> 0 .. MaxRuns]
          /\ Down.index \subseteq Tickets /\ Down.current \in 0 .. MaxRuns
      BY <1>3 DEF WriterRow
    <3> QED BY <1>1, <1>2, <3>2, <3>3 DEF LaneType, TypeOK, Record
  <2>2. deaths' \in Nat
    BY <1>1, <1>2, WriterIs
  <2> QED BY <1>1, <1>2, <1>3, <1>4, <1>5, <2>1, <2>2 DEF LaneType, WriterRow
<1>8. RunsInOrder'
  <2>1. \A r \in Runs : /\ proc'[r] # "unborn" <=> proc[r] # "unborn"
                        /\ exit'[r] = "none" <=> proc'[r] \in {"unborn", "alive"}
    BY <1>1 DEF RunsInOrder
  <2> QED BY <1>1, <2>1 DEF RunsInOrder
<1>9. TicketsNamed' /\ TicketTellsTheExit'
  <2>1. ASSUME NEW x \in Tickets
        PROVE  /\ IF ticket[x].status = "none" THEN ticket[x].run = 0 ELSE Born(ticket[x].run)'
               /\ ticket[x].status = "succeeded" => exit'[ticket[x].run] = "ok"
               /\ ticket[x].status = "failed" => exit'[ticket[x].run] = "bad"
               /\ ticket[x].status = "orphaned" => ~Alive(ticket[x].run)'
    <3>1. /\ ticket[x].run \in 0 .. MaxRuns
          /\ IF ticket[x].status = "none" THEN ticket[x].run = 0 ELSE Born(ticket[x].run)
          /\ ticket[x].status = "succeeded" => exit[ticket[x].run] = "ok"
          /\ ticket[x].status = "failed" => exit[ticket[x].run] = "bad"
          /\ ticket[x].status = "orphaned" => ~Alive(ticket[x].run)
      BY <1>1, RowsAre DEF TicketsNamed, TicketTellsTheExit
    <3>2. \A s \in Runs : exit[s] # "none" => exit'[s] = exit[s]
      BY <1>1 DEF RunsInOrder
    <3>3. ticket[x].status # "none" => ticket[x].run \in Runs
      BY <3>1 DEF Born
    <3>4. /\ Alive(ticket[x].run)' => Alive(ticket[x].run)
          /\ Born(ticket[x].run)' <=> Born(ticket[x].run)
      BY <1>2, <1>6, <3>1, Runners
    <3> QED BY <3>1, <3>2, <3>3, <3>4
  <2> QED BY <1>2, <2>1 DEF TicketsNamed, TicketTellsTheExit
<1>10. WriterKnows'
  BY <1>2, <1>3, <1>5, NothingIs DEF WriterKnows
<1>11. ScansJudge' /\ StampsPast'
  <2>1. ASSUME NEW p \in Scanners, scan'[p].pc = "settle"
        PROVE  scan'[p] = scan[p]
    BY <1>5, <2>1, NothingIs
  <2>2. ScansJudge'
    BY <1>1, <1>6, <2>1, ScanIs DEF ScansJudge
  <2>3. \A p \in Scanners : scan'[p].newest <= clock
    <3>1. 0 <= clock
      BY <1>1, WriterIs
    <3> QED BY <1>1, <1>5, <3>1, NothingIs DEF StampsPast
  <2> QED BY <1>1, <1>2, <2>2, <2>3 DEF StampsPast
<1>12. DrainHolds'
  <2>1. \A x \in Tickets : ~Alive(writer.handle[x])'
    BY <1>2, <1>3 DEF Alive
  <2>2. NoReaders => \A p \in Readers : scan'[p].pc = "off"
    BY <1>1, <1>5, ScannerIs DEF DrainHolds
  <2> QED BY <1>1, <1>4, <2>1, <2>2, SettingStays DEF DrainHolds
<1>13. deaths' # 0
  BY <1>1, <1>2, WriterIs
<1>14. \A r \in Runs : Alive(r)' => Alive(r)
  BY <1>6, RunIs
<1>15. ASSUME ~Window, NoReaders PROVE KnownByTickets'
  <2>1. KnownByTickets /\ writer.launch = NoLaunch
    BY <1>1, <1>15 DEF OneAtATime
  <2>2. ASSUME NEW r \in Runs, Alive(r)'
        PROVE  \E x \in Tickets : ticket[x].status = "running" /\ ticket[x].run = r
    <3>1. Alive(r) /\ r # writer.launch.run
      BY <1>14, <2>1, <2>2, NothingIs
    <3> QED BY <2>1, <3>1 DEF KnownByTickets
  <2>3. \A x \in Tickets : OnTicket(x)' => OnTicket(x)
    BY <1>1, <1>2, <1>6, RowsAre DEF OnTicket
  <2>4. \A x \in Tickets : OnTicket(x)' => (ticket[x].mtime <= marker.cutoff => x \in marker.running)
    BY <2>1, <2>3 DEF KnownByTickets
  <2> QED BY <1>2, <1>3, <1>5, <2>2, <2>4, NothingIs DEF KnownByTickets
<1>16. OneAtATime'
  <2>1. AtMostOne => AtMostOne'
    BY <1>14 DEF AtMostOne
  <2>2. LaunchAlone'
    BY <1>2, <1>3 DEF LaunchAlone
  <2> QED BY <1>1, <1>13, <1>15, <2>1, <2>2, SettingStays DEF OneAtATime
<1> QED BY <1>7, <1>8, <1>9, <1>10, <1>11, <1>12, <1>16 DEF LaneInv

LEMMA StopKeeps ==
    ASSUME LaneInv, UNCHANGED setting, Stop
    PROVE  LaneInv'
<1>1. /\ Ends /\ writer.launch = NoLaunch
      /\ proc' = [r \in Runs |-> IF r \in Owned THEN "exited" ELSE proc[r]]
      /\ exit' = [r \in Runs |-> IF r \in Owned THEN "bad" ELSE exit[r]]
  BY DEF Stop, Idle
<1>2. /\ proc \in [Runs -> {"unborn", "alive", "exited", "reused", "gone"}]
      /\ exit \in [Runs -> {"none", "ok", "bad"}]
  BY DEF LaneInv, LaneType, TypeOK
<1>3. \A r \in Owned : r \in Runs /\ proc[r] = "alive" /\ \E t \in Tickets : Alive(writer.handle[t])
  BY DEF Owned, Alive
<1>4. /\ proc' \in [Runs -> {"unborn", "alive", "exited", "reused", "gone"}]
      /\ exit' \in [Runs -> {"none", "ok", "bad"}]
  BY <1>1, <1>2
<1>5. \A r \in Runs : \/ proc'[r] = proc[r] /\ exit'[r] = exit[r]
                      \/ proc[r] = "alive" /\ proc'[r] = "exited" /\ exit'[r] = "bad"
  BY <1>1, <1>3
<1> QED BY <1>1, <1>4, <1>5, EndsKeeps

LEMMA CrashKeeps ==
    ASSUME LaneInv, UNCHANGED setting, Crash
    PROVE  LaneInv'
<1>1. Ends /\ UNCHANGED <<proc, exit>>
  BY DEF Crash, host
<1>2. ~Window => writer.launch = NoLaunch
  BY DEF Crash, Launching, LaneInv, WriterKnows
<1>3. /\ proc \in [Runs -> {"unborn", "alive", "exited", "reused", "gone"}]
      /\ exit \in [Runs -> {"none", "ok", "bad"}]
  BY DEF LaneInv, LaneType, TypeOK
<1> QED BY <1>1, <1>2, <1>3, EndsKeeps

-----------------------------------------------------------------------------
(* Every step, and the theorems *)

LEMMA StutterKeeps ==
    ASSUME LaneInv, UNCHANGED <<vars, setting>>
    PROVE  LaneInv'
<1>1. /\ outside \in OutsideRow
      /\ writer.launch # NoLaunch => outside.request
      /\ NoReaders /\ outside.drained =>
            \A t \in Tickets : Alive(writer.handle[t]) => writer.handle[t] \in outside.late
  BY DEF LaneInv, LaneType, WriterKnows, DrainHolds
<1>2. UNCHANGED <<files, host, writer, scan, outside, clock, deaths, setting>>
  BY DEF vars
<1> QED BY <1>1, <1>2, OutsideKeeps

LEMMA NextKeeps ==
    ASSUME LaneInv, [Next]_<<vars, setting>>
    PROVE  LaneInv'
<1>1. CASE UNCHANGED <<vars, setting>>
  BY <1>1, StutterKeeps
<1>2. CASE Next
  <2>1. UNCHANGED setting
    BY <1>2 DEF Next
  <2>2. CASE Start
    BY <2>1, <2>2, StartKeeps
  <2>3. CASE Ready
    BY <2>1, <2>3, ReadyKeeps
  <2>4. CASE Refuse
    BY <2>1, <2>4, RefuseKeeps
  <2>5. CASE WriteTicket
    BY <2>1, <2>5, WriteTicketKeeps
  <2>6. CASE TicketLost
    BY <2>1, <2>6, TicketLostKeeps
  <2>7. CASE Ask \/ ControllerStops \/ Drain \/ ControllerStarts
    BY <2>1, <2>7, ControllerKeeps
  <2>8. CASE Stop
    BY <2>1, <2>8, StopKeeps
  <2>9. CASE Crash
    BY <2>1, <2>9, CrashKeeps
  <2>10. CASE \E p \in setting.readers : OpenReader(p)
    BY <2>1, <2>10, OpenReaderKeeps
  <2>11. CASE \E p \in setting.readers : ReaderReady(p)
    BY <2>1, <2>11, ReaderReadyKeeps
  <2>12. CASE \E p \in Scanners : ScanTicket(p)
    BY <2>1, <2>12, ScanTicketKeeps
  <2>13. CASE \E p \in Scanners : ScanSettle(p)
    BY <2>1, <2>13, ScanSettleKeeps
  <2>14. CASE \E t \in setting.tickets : Spawn(t)
    BY <2>1, <2>14, SpawnKeeps
  <2>15. CASE \E t \in Tickets : Status(t)
    BY <2>1, <2>15, StatusKeeps
  <2>16. CASE \E r \in Runs : ChildExits(r) \/ PidTaken(r) \/ PidFreed(r)
    BY <2>1, <2>16, HostKeeps
  <2> QED BY <1>2, <2>2, <2>3, <2>4, <2>5, <2>6, <2>7, <2>8, <2>9, <2>10, <2>11, <2>12, <2>13,
             <2>14, <2>15, <2>16 DEF Next
<1> QED BY <1>1, <1>2

(* What the launcher, its tickets, the scans, the drain and the process      *)
(* table agree on, in every state of every lane.                             *)
THEOREM LaneInvariant == Spec => []LaneInv
<1>1. Init => LaneInv
  BY InitInv
<1>2. LaneInv /\ [Next]_<<vars, setting>> => LaneInv'
  BY NextKeeps
<1> QED BY <1>1, <1>2, PTL DEF Spec

(* No two children of a lane run at once, however many writers die and start *)
(* and whoever takes their pids, unless one ends between Popen and the       *)
(* ticket, or ends with a reader at work.                                    *)
THEOREM OneChildAtATime == Spec => []OneChild
<1>1. ASSUME LaneInv PROVE OneChild
  <2> DEFINE A == {r \in Runs : Alive(r)}
  <2>1. SUFFICES ASSUME ~Window, setting.readers # {} => deaths = 0 PROVE Cardinality(A) <= 1
    BY DEF OneChild
  <2>2. ASSUME NEW r \in A, NEW s \in A PROVE r = s
    BY <1>1, <2>1, <2>2 DEF LaneInv, OneAtATime, AtMostOne, NoReaders
  <2> HIDE DEF A
  <2>3. CASE A = {}
    BY <2>3, FS_EmptySet
  <2>4. CASE A # {}
    <3>1. PICK r \in A : TRUE
      BY <2>4
    <3>2. A = {r}
      BY <2>2
    <3>3. Cardinality({r}) = 1
      BY FS_Singleton
    <3> QED BY <3>2, <3>3
  <2> QED BY <2>3, <2>4
<1> QED BY <1>1, LaneInvariant, PTL

(* The tickets are well formed; succeeded and failed are the child's own     *)
(* exit, and an orphaned ticket has no live child, with every fault.         *)
THEOREM TicketsAreTrue == Spec => []TicketsTrue
<1>1. LaneInv => TicketsTrue
  BY DEF LaneInv, LaneType, TicketsTrue
<1> QED BY <1>1, LaneInvariant, PTL

(* After a drain that went through, the living children the writer owns, and  *)
(* a stop would terminate, are those launched since, when no reader opens    *)
(* the lane: whoever asks for launches, and whatever writers end.            *)
THEOREM DrainedStopIsSafe == Spec => []DrainedStopSparesTheSeen
<1>1. ASSUME LaneInv PROVE DrainedStopSparesTheSeen
  <2>1. ASSUME NoReaders, outside.drained, NEW r \in Owned PROVE r \in outside.late
    BY <1>1, <2>1 DEF LaneInv, DrainHolds, Owned
  <2> QED BY <2>1 DEF DrainedStopSparesTheSeen, NoReaders
<1> QED BY <1>1, LaneInvariant, PTL

-----------------------------------------------------------------------------
(* The inductive invariant of the re-entry *)

Kinds == Automatic \cup {"refund", "grant"}
RunFates == {"running", "killed", "complete", "failed", "systemic"}
RunRecords == [by : Kinds, at : Nat, fate : RunFates]
Bought == {"completion", "refund", "grant"}

(* The claim was taken and has bought no run.                                *)
Unspent == claim # 0 /\ runTicket.started < claim

(* One run is paid for and not launched.                                     *)
Owed == Unspent \/ (step.pc # "idle" /\ step.by \in Bought)

One(p) == IF p THEN 1 ELSE 0

(* No moment written anywhere lies in the future.                            *)
Clock ==
    /\ 1 <= runTicket.started /\ runTicket.started <= now
    /\ claim <= now /\ completion <= now /\ used <= now
    /\ used # 1 /\ claim # 1

(* What a planned re-entry spends, as the files have it: until the launch    *)
(* the ticket is older than what was bought.                                 *)
Planned ==
    /\ step \in [pc : {"idle", "spawn", "launch"}, by : Kinds \cup {"none"}]
    /\ step.pc # "idle" => step.by \in Kinds
    /\ step.pc = "spawn" /\ step.by = "claim" => claim = 0
    /\ step.pc = "launch" /\ step.by = "claim" => Unspent
    /\ step.pc # "idle" /\ step.by = "unspent" => Unspent
    /\ step.pc # "idle" /\ step.by \in Bought => claim # 0 /\ ~Unspent
    /\ step.pc # "idle" /\ step.by = "completion" => used < completion
    /\ step.pc # "idle" /\ step.by = "refund" => refunded
    /\ Unspent => used < claim

(* Every launched run, and the one still owed, was paid for.                 *)
Account ==
    Len(runs) + One(Owed)
        <= One(claim # 0) + One(completion # 0) + spent + One(refunded)

(* The ticket and the summary are those of the last run, and no other runs.  *)
LastRun ==
    /\ step.pc # "idle" => runTicket.status = "settled"
    /\ Len(runs) = 0 => runTicket.started = 1 /\ runTicket.status = "settled"
    /\ \A i \in 1 .. Len(runs) :
          /\ runs[i].fate # "killed"
          /\ i < Len(runs) => runs[i].fate # "running" /\ runs[i].at < runTicket.started
          /\ i = Len(runs) =>
                /\ runs[i].at = runTicket.started
                /\ runTicket.status = "running" <=> runs[i].fate = "running"
                /\ runs[i].fate # "running" => runTicket.summary = runs[i].fate

Between(bought) == used < bought /\ bought <= runTicket.started

(* When nothing was bought since the last grant was spent, the last run is   *)
(* the grant's.                                                              *)
LastIsGranted ==
    used # 0 /\ used <= runTicket.started /\ ~refunded /\ ~Between(claim) /\ ~Between(completion)
        => runs[Len(runs)].by = "grant"

(* The runs the system's own conditions did not end.                         *)
Attempts == {i \in 1 .. Len(runs) : runs[i].fate # "systemic"}
LastSystemic == Len(runs) > 0 /\ runTicket.status = "settled" /\ Systemic

(* Every attempt was claimed or granted, and so was the run that is owed or  *)
(* that may be bought because the last one died systemically.                *)
AttemptsPaid == Cardinality(Attempts) + One(Owed \/ LastSystemic) <= One(claim # 0) + spent

Told == LastRun /\ LastIsGranted /\ AttemptsPaid

ReentryInv ==
    /\ ReentryTypeOK
    /\ Clock
    /\ Planned
    /\ ~LaunchWindow => Account
    /\ faults = {} => Told
    /\ RefundIsEarned

-----------------------------------------------------------------------------
(* Helpers *)

(* The runs are a sequence of records of the kinds and fates there are.      *)
LEMMA RunsType ==
    ASSUME ReentryTypeOK
    PROVE  /\ runs \in Seq(RunRecords)
           /\ Len(runs) \in Nat
           /\ \A i \in 1 .. Len(runs) : runs[i] \in RunRecords
<1>1. runs \in Seq(RunRecords)
  BY DEF ReentryTypeOK, RunRecords, Kinds, RunFates
<1> QED BY <1>1

(* The attempts are finitely many.                                           *)
LEMMA AttemptsFinite ==
    ASSUME ReentryTypeOK
    PROVE  IsFiniteSet(Attempts) /\ Cardinality(Attempts) \in Nat
<1>1. Len(runs) \in Nat
  BY RunsType
<1>2. IsFiniteSet(1 .. Len(runs))
  BY <1>1, FS_Interval
<1>3. Attempts \subseteq 1 .. Len(runs)
  BY DEF Attempts
<1> QED BY <1>2, <1>3, FS_Subset, FS_CardinalityType

(* A count of one thing is one or none.                                      *)
LEMMA OneType == ASSUME NEW p \in BOOLEAN PROVE One(p) \in {0, 1}
BY DEF One

(* Every first run that did not complete satisfies the invariant.            *)
LEMMA ReentryStarts == ReentryInit => ReentryInv
<1> SUFFICES ASSUME ReentryInit PROVE ReentryInv
  OBVIOUS
<1>1. ReentryTypeOK
  <2>1. runTicket \in [started : Nat, status : {"settled", "running"},
                    summary : {"none", "complete", "failed", "systemic"}]
    BY DEF ReentryInit
  <2>2. {claim, completion, used, now, given, spent} \subseteq Nat
    BY DEF ReentryInit
  <2>3. {grant, refunded} \subseteq BOOLEAN
    BY DEF ReentryInit
  <2>4. step.pc \in {"idle", "spawn", "launch"} /\ step.by = "none"
    BY DEF ReentryInit, NoStep
  <2>5. runs \in Seq([by : Automatic \cup {"refund", "grant"}, at : Nat,
                     fate : {"running", "killed", "complete", "failed", "systemic"}])
    BY DEF ReentryInit
  <2>6. faults \in FaultSettings
    BY DEF ReentryInit
  <2> QED BY <2>1, <2>2, <2>3, <2>4, <2>5, <2>6 DEF ReentryTypeOK
<1>2. Clock
  BY DEF ReentryInit, Clock
<1>3. Planned
  BY DEF ReentryInit, Planned, NoStep, Kinds, Automatic, Unspent
<1>4. ~Owed /\ Len(runs) = 0
  BY DEF ReentryInit, Owed, Unspent, NoStep
<1>5. Account
  BY <1>4 DEF ReentryInit, Account, One
<1>6. LastRun
  BY DEF ReentryInit, LastRun, NoStep
<1>7. LastIsGranted
  BY DEF ReentryInit, LastIsGranted
<1>8. AttemptsPaid
  <2>1. Attempts = {}
    BY <1>4 DEF Attempts
  <2>2. Cardinality(Attempts) = 0
    BY <2>1, FS_EmptySet
  <2> QED BY <2>2, <1>4 DEF ReentryInit, AttemptsPaid, LastSystemic, One
<1>9. RefundIsEarned
  BY DEF ReentryInit, RefundIsEarned
<1> QED BY <1>1, <1>2, <1>3, <1>5, <1>6, <1>7, <1>8, <1>9 DEF ReentryInv, Told

-----------------------------------------------------------------------------
(* The steps *)

Kept == UNCHANGED <<runTicket, runs, faults>>

(* A step that launches and ends nothing keeps the runs, the ticket and what *)
(* is said of them alone.                                                    *)
LEMMA RunsStay ==
    ASSUME Kept
    PROVE  /\ runs' = runs /\ runTicket' = runTicket /\ faults' = faults
           /\ Attempts' = Attempts
           /\ LaunchWindow' = LaunchWindow
           /\ Systemic' = Systemic
<1>1. runs' = runs /\ runTicket' = runTicket /\ faults' = faults
  BY DEF Kept
<1> QED BY <1>1 DEF Attempts, LaunchWindow, Systemic

(* PlanClaim keeps the invariant.                                            *)
LEMMA PlanClaimKeeps == ReentryInv /\ PlanClaim /\ UNCHANGED faults => ReentryInv'
<1> SUFFICES ASSUME ReentryInv, PlanClaim, UNCHANGED faults PROVE ReentryInv'
  OBVIOUS
<1> USE DEF ReentryInv, Told
<1>1. /\ Kept
      /\ now' = now /\ claim' = claim /\ completion' = completion /\ grant' = grant
      /\ used' = used /\ refunded' = refunded /\ given' = given /\ spent' = spent
      /\ step = [pc |-> "idle", by |-> "none"]
      /\ step' = [pc |-> "spawn", by |-> "claim"]
      /\ claim = 0
      /\ runTicket.status = "settled"
  BY DEF PlanClaim, MayPlan, Go, NoStep, paper, Kept
<1>2. ReentryTypeOK'
  BY <1>1, RunsStay DEF ReentryTypeOK, Automatic
<1>3. Clock'
  BY <1>1, RunsStay DEF Clock
<1>4. Planned'
  BY <1>1, RunsStay DEF Planned, Kinds, Automatic, Bought, Unspent
<1>5. Owed' = Owed
  BY <1>1, RunsStay DEF Owed, Bought, Unspent
<1>6. ~LaunchWindow' => Account'
  BY <1>1, <1>5, RunsStay DEF Account
<1>7. faults' = {} => LastRun'
  BY <1>1, RunsStay DEF LastRun
<1>8. faults' = {} => LastIsGranted'
  BY <1>1, RunsStay DEF LastIsGranted, Between
<1>9. faults' = {} => AttemptsPaid'
  BY <1>1, <1>5, RunsStay DEF AttemptsPaid, LastSystemic
<1>10. RefundIsEarned'
  BY <1>1, RunsStay DEF RefundIsEarned
<1> QED BY <1>2, <1>3, <1>4, <1>6, <1>7, <1>8, <1>9, <1>10

(* A plan that is refused, or whose launch fails, keeps the invariant: what  *)
(* it bought is lost, what the claim did not buy is still owed.              *)
LEMMA GivenUpKeeps == ReentryInv /\ (RefuseSpawn \/ LaunchFails) /\ UNCHANGED faults => ReentryInv'
<1> SUFFICES ASSUME ReentryInv, RefuseSpawn \/ LaunchFails, UNCHANGED faults PROVE ReentryInv'
  OBVIOUS
<1> USE DEF ReentryInv, Told
<1>1. /\ Kept
      /\ now' = now /\ claim' = claim /\ completion' = completion /\ grant' = grant
      /\ used' = used /\ refunded' = refunded /\ given' = given /\ spent' = spent
      /\ step' = [pc |-> "idle", by |-> "none"]
  BY DEF RefuseSpawn, LaunchFails, NoStep, paper, Kept
<1>2. ReentryTypeOK'
  BY <1>1, RunsStay DEF ReentryTypeOK, Automatic
<1>3. Clock'
  BY <1>1, RunsStay DEF Clock
<1>4. Planned'
  BY <1>1, RunsStay DEF Planned, Kinds, Automatic, Bought, Unspent
<1>5. Owed' => Owed
  BY <1>1, RunsStay DEF Owed, Bought, Unspent
<1>6. ~LaunchWindow' => Account'
  <2>1. spent \in Nat /\ Len(runs) \in Nat
    BY RunsType DEF ReentryTypeOK
  <2> QED BY <1>1, <1>5, <2>1, RunsStay DEF Account, One
<1>7. faults' = {} => LastRun'
  BY <1>1, RunsStay DEF LastRun
<1>8. faults' = {} => LastIsGranted'
  BY <1>1, RunsStay DEF LastIsGranted, Between
<1>9. faults' = {} => AttemptsPaid'
  BY <1>1, <1>5, RunsStay, AttemptsFinite DEF AttemptsPaid, LastSystemic, One, ReentryTypeOK
<1>10. RefundIsEarned'
  BY <1>1, RunsStay DEF RefundIsEarned
<1> QED BY <1>2, <1>3, <1>4, <1>6, <1>7, <1>8, <1>9, <1>10

(* PlanUnspent keeps the invariant: either the claim bought no run and that  *)
(* one is owed already, or the completion is bought for the first time.      *)
LEMMA PlanUnspentKeeps == ReentryInv /\ PlanUnspent /\ UNCHANGED faults => ReentryInv'
<1> SUFFICES ASSUME ReentryInv, PlanUnspent, UNCHANGED faults PROVE ReentryInv'
  OBVIOUS
<1> USE DEF ReentryInv, Told
<1>1. /\ Kept
      /\ claim' = claim /\ grant' = grant
      /\ used' = used /\ refunded' = refunded /\ given' = given /\ spent' = spent
      /\ step = [pc |-> "idle", by |-> "none"]
      /\ claim # 0
      /\ runTicket.status = "settled"
  BY DEF PlanUnspent, MayPlan, NoStep, Kept
<1>2. runTicket.started \in Nat /\ claim \in Nat /\ now \in Nat /\ completion \in Nat /\ used \in Nat
      /\ spent \in Nat
  BY DEF ReentryTypeOK
<1>3. CASE Unspent
  <2>1. now' = now /\ completion' = completion /\ step' = [pc |-> "spawn", by |-> "unspent"]
    BY <1>3, <1>2 DEF PlanUnspent, Consumed, StartedSince, Go, Unspent
  <2>2. ReentryTypeOK'
    BY <1>1, <2>1, RunsStay DEF ReentryTypeOK, Automatic
  <2>3. Clock'
    BY <1>1, <2>1, RunsStay DEF Clock
  <2>4. Planned'
    BY <1>1, <1>3, <2>1, RunsStay DEF Planned, Kinds, Automatic, Bought, Unspent
  <2>5. Owed' = Owed
    BY <1>1, <2>1, RunsStay DEF Owed, Bought, Unspent
  <2>6. ~LaunchWindow' => Account'
    BY <1>1, <2>1, <2>5, RunsStay DEF Account
  <2>7. faults' = {} => LastRun'
    BY <1>1, <2>1, RunsStay DEF LastRun
  <2>8. faults' = {} => LastIsGranted'
    BY <1>1, <2>1, RunsStay DEF LastIsGranted, Between
  <2>9. faults' = {} => AttemptsPaid'
    BY <1>1, <2>1, <2>5, RunsStay DEF AttemptsPaid, LastSystemic
  <2>10. RefundIsEarned'
    BY <1>1, <2>1, RunsStay DEF RefundIsEarned
  <2> QED BY <2>2, <2>3, <2>4, <2>6, <2>7, <2>8, <2>9, <2>10
<1>4. CASE ~Unspent
  <2>1. /\ Systemic /\ completion = 0
        /\ now' = now + 1 /\ completion' = now + 1
        /\ step' = [pc |-> "spawn", by |-> "completion"]
    BY <1>1, <1>4, <1>2 DEF PlanUnspent, Consumed, StartedSince, Go, Unspent
  <2>2. ReentryTypeOK'
    BY <1>1, <1>2, <2>1, RunsStay DEF ReentryTypeOK, Automatic
  <2>3. Clock'
    BY <1>1, <1>2, <2>1, RunsStay DEF Clock
  <2>4. Planned'
    BY <1>1, <1>2, <1>4, <2>1, RunsStay DEF Planned, Kinds, Automatic, Bought, Unspent, Clock
  <2>5. ~Owed /\ Owed'
    BY <1>1, <1>4, <2>1 DEF Owed, Bought
  <2>6. ~LaunchWindow' => Account'
    BY <1>1, <1>2, <2>1, <2>5, RunsStay, RunsType DEF Account, ReentryTypeOK, One
  <2>7. faults' = {} => LastRun'
    BY <1>1, <2>1, RunsStay DEF LastRun
  <2>8. faults' = {} => LastIsGranted'
    BY <1>1, <1>2, <2>1, RunsStay DEF LastIsGranted, Between, Clock
  <2>9. faults' = {} => AttemptsPaid'
    <3> SUFFICES ASSUME faults = {} PROVE AttemptsPaid'
      BY RunsStay, <1>1
    <3>1. Len(runs) > 0
      BY <1>1, <1>2, <1>4, RunsType DEF LastRun, Unspent, Planned, Clock, ReentryTypeOK, AttemptsPaid
    <3>2. LastSystemic
      BY <3>1, <2>1, <1>1 DEF LastSystemic
    <3> QED BY <3>2, <1>1, <1>2, <2>1, <2>5, RunsStay, AttemptsFinite DEF AttemptsPaid, One
  <2>10. RefundIsEarned'
    BY <1>1, <2>1, RunsStay DEF RefundIsEarned
  <2> QED BY <2>2, <2>3, <2>4, <2>6, <2>7, <2>8, <2>9, <2>10
<1> QED BY <1>3, <1>4

(* Consumed, the claim bought a run, and nothing is owed for it.             *)
LEMMA ConsumedNotOwed ==
    ASSUME ReentryTypeOK, MayPlan, Consumed
    PROVE  claim # 0 /\ ~Unspent /\ ~Owed
BY DEF ReentryTypeOK, MayPlan, NoStep, Consumed, StartedSince, Unspent, Owed

(* A refund is given for the last run only: it was a grant's, and systemic.  *)
LEMMA RefundableIsGranted ==
    ASSUME ReentryInv, faults = {}, MayPlan, Refundable
    PROVE  /\ Len(runs) \in 1 .. Len(runs)
           /\ runs[Len(runs)].by = "grant" /\ runs[Len(runs)].fate = "systemic"
           /\ LastSystemic
<1> USE DEF ReentryInv, Told
<1>1. /\ runTicket.status = "settled" /\ Systemic
      /\ used # 0 /\ used <= runTicket.started /\ ~refunded
      /\ ~Between(claim) /\ ~Between(completion)
  BY DEF MayPlan, Refundable, StartedSince, Between, ReentryTypeOK
<1>2. runs[Len(runs)].by = "grant"
  BY <1>1 DEF LastIsGranted
<1>3. Len(runs) \in 1 .. Len(runs)
  BY <1>1, RunsType DEF LastRun, Clock, ReentryTypeOK
<1>4. runs[Len(runs)].fate = "systemic"
  BY <1>1, <1>3 DEF LastRun, Systemic
<1> QED BY <1>1, <1>2, <1>3, <1>4 DEF LastSystemic

(* PlanRefund keeps the invariant: the refund is written down before the run *)
(* it buys, for a run that was granted and died systemically.                *)
LEMMA PlanRefundKeeps == ReentryInv /\ PlanRefund /\ UNCHANGED faults => ReentryInv'
<1> SUFFICES ASSUME ReentryInv, PlanRefund, UNCHANGED faults PROVE ReentryInv'
  OBVIOUS
<1> USE DEF ReentryInv, Told
<1>1. /\ Kept
      /\ now' = now /\ claim' = claim /\ completion' = completion /\ grant' = grant
      /\ used' = used /\ given' = given /\ spent' = spent
      /\ refunded' = TRUE
      /\ step = [pc |-> "idle", by |-> "none"]
      /\ step' = [pc |-> "spawn", by |-> "refund"]
      /\ MayPlan /\ Consumed /\ Refundable /\ runTicket.status = "settled"
  BY DEF PlanRefund, MayPlan, Go, NoStep, Kept
<1>2. claim # 0 /\ ~Unspent /\ ~Owed /\ ~refunded
  BY <1>1, ConsumedNotOwed DEF Refundable
<1>3. ReentryTypeOK'
  BY <1>1, RunsStay DEF ReentryTypeOK, Automatic
<1>4. Clock'
  BY <1>1, RunsStay DEF Clock
<1>5. Planned'
  BY <1>1, <1>2, RunsStay DEF Planned, Kinds, Automatic, Bought, Unspent
<1>6. ~LaunchWindow' => Account'
  BY <1>1, <1>2, RunsStay, RunsType DEF Account, One, ReentryTypeOK
<1>7. faults' = {} => LastRun'
  BY <1>1, RunsStay DEF LastRun
<1>8. faults' = {} => LastIsGranted'
  BY <1>1 DEF LastIsGranted
<1>9. faults' = {} => AttemptsPaid'
  BY <1>1, RefundableIsGranted, RunsStay, AttemptsFinite DEF AttemptsPaid, LastSystemic, One, ReentryTypeOK
<1>10. RefundIsEarned'
  BY <1>1, RefundableIsGranted, RunsStay DEF RefundIsEarned
<1> QED BY <1>3, <1>4, <1>5, <1>6, <1>7, <1>8, <1>9, <1>10

(* PlanGrant keeps the invariant.                                            *)
LEMMA PlanGrantKeeps == ReentryInv /\ PlanGrant /\ UNCHANGED faults => ReentryInv'
<1> SUFFICES ASSUME ReentryInv, PlanGrant, UNCHANGED faults PROVE ReentryInv'
  OBVIOUS
<1> USE DEF ReentryInv, Told
<1>1. /\ Kept
      /\ claim' = claim /\ completion' = completion /\ refunded' = refunded /\ given' = given
      /\ grant' = FALSE /\ used' = now + 1 /\ spent' = spent + 1 /\ now' = now + 1
      /\ step = [pc |-> "idle", by |-> "none"]
      /\ step' = [pc |-> "spawn", by |-> "grant"]
      /\ MayPlan /\ Consumed /\ runTicket.status = "settled"
  BY DEF PlanGrant, ConsumeGrant, MayPlan, Go, NoStep, Kept
<1>2. claim # 0 /\ ~Unspent /\ ~Owed
  BY <1>1, ConsumedNotOwed
<1>3. /\ now \in Nat /\ spent \in Nat /\ runTicket.started \in Nat /\ used \in Nat
      /\ completion \in Nat /\ claim \in Nat
  BY DEF ReentryTypeOK
<1>4. ReentryTypeOK'
  <2>1. {claim, completion, used, now, given, spent}' \subseteq Nat
    BY <1>1, <1>3 DEF ReentryTypeOK
  <2> QED BY <1>1, <2>1, RunsStay DEF ReentryTypeOK, Automatic
<1>5. Clock'
  BY <1>1, <1>3, RunsStay DEF Clock
<1>6. Planned'
  BY <1>1, <1>2, RunsStay DEF Planned, Kinds, Automatic, Bought, Unspent
<1>7. ~LaunchWindow' => Account'
  BY <1>1, <1>2, <1>3, RunsStay, RunsType DEF Account, One, ReentryTypeOK
<1>8. faults' = {} => LastRun'
  BY <1>1, RunsStay DEF LastRun
<1>9. faults' = {} => LastIsGranted'
  BY <1>1, <1>3, RunsStay DEF LastIsGranted, Clock
<1>10. faults' = {} => AttemptsPaid'
  BY <1>1, <1>2, <1>3, RunsStay, AttemptsFinite DEF AttemptsPaid, LastSystemic, One
<1>11. RefundIsEarned'
  BY <1>1, RunsStay DEF RefundIsEarned
<1> QED BY <1>4, <1>5, <1>6, <1>7, <1>8, <1>9, <1>10, <1>11

(* Claim keeps the invariant: the claim buys one run, owed until the launch. *)
LEMMA ClaimKeeps == ReentryInv /\ Claim /\ UNCHANGED faults => ReentryInv'
<1> SUFFICES ASSUME ReentryInv, Claim, UNCHANGED faults PROVE ReentryInv'
  OBVIOUS
<1> USE DEF ReentryInv, Told
<1>1. /\ Kept
      /\ completion' = completion /\ refunded' = refunded /\ given' = given
      /\ grant' = grant /\ used' = used /\ spent' = spent
      /\ step.pc = "spawn" /\ step.by \in Kinds
      /\ step' = [pc |-> "launch", by |-> step.by]
  BY DEF Claim, Kept, Planned
<1>2. /\ now \in Nat /\ spent \in Nat /\ runTicket.started \in Nat /\ used \in Nat
      /\ completion \in Nat /\ claim \in Nat
  BY DEF ReentryTypeOK
<1>3. CASE step.by = "claim"
  <2>1. claim = 0 /\ claim' = now + 1 /\ now' = now + 1
    BY <1>1, <1>3 DEF Claim, Planned
  <2>2. ReentryTypeOK'
    BY <1>1, <1>2, <1>3, <2>1, RunsStay DEF ReentryTypeOK, Automatic
  <2>3. Clock'
    BY <1>1, <1>2, <2>1, RunsStay DEF Clock
  <2>4. Unspent'
    BY <1>1, <1>2, <2>1, RunsStay DEF Unspent, Clock
  <2>5. Planned'
    BY <1>1, <1>2, <1>3, <2>1, <2>4, RunsStay DEF Planned, Kinds, Automatic, Bought, Clock
  <2>6. Owed' /\ ~Owed
    BY <1>1, <1>3, <2>1, <2>4 DEF Owed, Bought, Unspent
  <2>7. ~LaunchWindow' => Account'
    BY <1>1, <1>2, <2>1, <2>6, RunsStay, RunsType DEF Account, One, ReentryTypeOK
  <2>8. faults' = {} => LastRun'
    BY <1>1, RunsStay DEF LastRun
  <2>9. faults' = {} => LastIsGranted'
    BY <1>1, <1>2, <2>1, RunsStay DEF LastIsGranted, Between, Clock
  <2>10. faults' = {} => AttemptsPaid'
    BY <1>1, <1>2, <2>1, <2>6, RunsStay, AttemptsFinite DEF AttemptsPaid, LastSystemic, One
  <2>11. RefundIsEarned'
    BY <1>1, RunsStay DEF RefundIsEarned
  <2> QED BY <2>2, <2>3, <2>5, <2>7, <2>8, <2>9, <2>10, <2>11
<1>4. CASE step.by # "claim"
  <2>1. claim' = claim /\ now' = now
    BY <1>4 DEF Claim
  <2>2. ReentryTypeOK'
    BY <1>1, <1>2, <2>1, RunsStay DEF ReentryTypeOK, Kinds
  <2>3. Clock'
    BY <1>1, <2>1, RunsStay DEF Clock
  <2>4. Planned'
    BY <1>1, <1>4, <2>1, RunsStay DEF Planned, Kinds, Automatic, Bought, Unspent
  <2>5. Owed' = Owed
    BY <1>1, <2>1, RunsStay DEF Owed, Unspent
  <2>6. ~LaunchWindow' => Account'
    BY <1>1, <2>1, <2>5, RunsStay DEF Account
  <2>7. faults' = {} => LastRun'
    BY <1>1, RunsStay DEF LastRun
  <2>8. faults' = {} => LastIsGranted'
    BY <1>1, <2>1, RunsStay DEF LastIsGranted, Between
  <2>9. faults' = {} => AttemptsPaid'
    BY <1>1, <2>1, <2>5, RunsStay DEF AttemptsPaid, LastSystemic
  <2>10. RefundIsEarned'
    BY <1>1, RunsStay DEF RefundIsEarned
  <2> QED BY <2>2, <2>3, <2>4, <2>6, <2>7, <2>8, <2>9, <2>10
<1> QED BY <1>3, <1>4

(* WriteGrant keeps the invariant.                                           *)
LEMMA WriteGrantKeeps == ReentryInv /\ WriteGrant /\ UNCHANGED faults => ReentryInv'
<1> SUFFICES ASSUME ReentryInv, WriteGrant, UNCHANGED faults PROVE ReentryInv'
  OBVIOUS
<1> USE DEF ReentryInv, Told
<1>1. /\ Kept
      /\ now' = now /\ claim' = claim /\ completion' = completion /\ step' = step
      /\ grant' = TRUE /\ given' = given + 1
      /\ used' = used /\ refunded' = refunded /\ spent' = spent
  BY DEF WriteGrant, Kept
<1>2. ReentryTypeOK'
  <2>1. given' \in Nat
    BY <1>1 DEF ReentryTypeOK
  <2> QED BY <1>1, <2>1, RunsStay DEF ReentryTypeOK
<1>3. Clock'
  BY <1>1, RunsStay DEF Clock
<1>4. Planned'
  BY <1>1, RunsStay DEF Planned, Unspent
<1>5. Owed' = Owed
  BY <1>1, RunsStay DEF Owed, Unspent
<1>6. ~LaunchWindow' => Account'
  BY <1>1, <1>5, RunsStay DEF Account
<1>7. faults' = {} => LastRun'
  BY <1>1, RunsStay DEF LastRun
<1>8. faults' = {} => LastIsGranted'
  BY <1>1, RunsStay DEF LastIsGranted, Between
<1>9. faults' = {} => AttemptsPaid'
  BY <1>1, <1>5, RunsStay DEF AttemptsPaid, LastSystemic
<1>10. RefundIsEarned'
  BY <1>1, RunsStay DEF RefundIsEarned
<1> QED BY <1>2, <1>3, <1>4, <1>6, <1>7, <1>8, <1>9, <1>10

(* A started run was owed; it is the last one, and running.                  *)
LEMMA StartedRun ==
    ASSUME ReentryInv, Started
    PROVE  LET run == [by |-> step.by, at |-> now + 1, fate |-> "running"]
           IN  /\ Owed
               /\ run \in RunRecords
               /\ runs' = Append(runs, run)
               /\ runs' \in Seq(RunRecords)
               /\ Len(runs') = Len(runs) + 1
               /\ \A i \in 1 .. Len(runs) : runs'[i] = runs[i]
               /\ runs'[Len(runs) + 1] = run
<1> USE DEF ReentryInv
<1> DEFINE run == [by |-> step.by, at |-> now + 1, fate |-> "running"]
<1>1. step.pc = "launch" /\ step.by \in Kinds /\ runs' = Append(runs, run)
  BY DEF Started, Planned
<1>2. run \in RunRecords
  BY <1>1 DEF RunRecords, RunFates, ReentryTypeOK
<1>3. Owed
  BY <1>1 DEF Planned, Owed, Kinds, Automatic, Bought
<1>4. runs \in Seq(RunRecords)
  BY RunsType
<1> HIDE DEF run
<1>5. /\ runs' \in Seq(RunRecords)
      /\ Len(runs') = Len(runs) + 1
      /\ \A i \in 1 .. Len(runs) : runs'[i] = runs[i]
      /\ runs'[Len(runs) + 1] = run
  BY <1>1, <1>2, <1>4, AppendProperties
<1> QED BY <1>1, <1>2, <1>3, <1>5 DEF run

(* What a launch does to the attempts: one more.                             *)
LEMMA StartedAttempts ==
    ASSUME ReentryInv, Started
    PROVE  Cardinality(Attempts') = Cardinality(Attempts) + 1
<1>1. Len(runs) \in Nat /\ IsFiniteSet(Attempts) /\ Cardinality(Attempts) \in Nat
  BY RunsType, AttemptsFinite DEF ReentryInv
<1>2. /\ Len(runs') = Len(runs) + 1
      /\ \A i \in 1 .. Len(runs) : runs'[i] = runs[i]
      /\ runs'[Len(runs) + 1].fate = "running"
  BY StartedRun
<1>3. Attempts' = Attempts \cup {Len(runs) + 1}
  BY <1>1, <1>2 DEF Attempts
<1>4. Len(runs) + 1 \notin Attempts
  BY <1>1 DEF Attempts
<1> QED BY <1>1, <1>3, <1>4, FS_AddElement

(* Launch keeps the invariant: the run that was owed is the last one.        *)
LEMMA LaunchKeeps == ReentryInv /\ Launch /\ UNCHANGED faults => ReentryInv'
<1> SUFFICES ASSUME ReentryInv, Launch, UNCHANGED faults PROVE ReentryInv'
  OBVIOUS
<1> USE DEF ReentryInv, Told
<1>1. /\ claim' = claim /\ completion' = completion /\ refunded' = refunded /\ given' = given
      /\ grant' = grant /\ used' = used /\ spent' = spent /\ faults' = faults
      /\ now' = now + 1 /\ step' = [pc |-> "idle", by |-> "none"]
      /\ step.pc = "launch" /\ step.by \in Kinds
      /\ Started
  BY DEF Launch, Started, NoStep, paper, Planned
<1>2. /\ now \in Nat /\ spent \in Nat /\ runTicket.started \in Nat /\ used \in Nat
      /\ completion \in Nat /\ claim \in Nat /\ Len(runs) \in Nat
  BY RunsType DEF ReentryTypeOK
<1>3. /\ runTicket' \in [started : Nat, status : {"settled", "running"},
                      summary : {"none", "complete", "failed", "systemic"}]
      /\ runTicket'.started = now + 1 /\ runTicket'.status = "running"
  <2>1. runTicket \in [started : Nat, status : {"settled", "running"},
                    summary : {"none", "complete", "failed", "systemic"}]
    BY DEF ReentryTypeOK
  <2>2. runTicket' = [runTicket EXCEPT !.started = now + 1, !.status = "running"]
    BY DEF Launch
  <2>3. runTicket' = [started |-> now + 1, status |-> "running", summary |-> runTicket.summary]
    BY <2>1, <2>2
  <2>4. now + 1 \in Nat /\ runTicket.summary \in {"none", "complete", "failed", "systemic"}
    BY <1>2, <2>1
  <2> QED BY <2>3, <2>4
<1>4. /\ Owed
      /\ runs' \in Seq(RunRecords)
      /\ Len(runs') = Len(runs) + 1
      /\ \A i \in 1 .. Len(runs) : runs'[i] = runs[i]
      /\ runs'[Len(runs) + 1].by = step.by
      /\ runs'[Len(runs) + 1].at = now + 1
      /\ runs'[Len(runs) + 1].fate = "running"
  BY <1>1, StartedRun
<1>5. ~Unspent' /\ ~Owed'
  BY <1>1, <1>2, <1>3 DEF Unspent, Owed, Clock
<1>6. ReentryTypeOK'
  BY <1>1, <1>2, <1>3, <1>4 DEF ReentryTypeOK, RunRecords, RunFates, Kinds
<1>7. Clock'
  BY <1>1, <1>2, <1>3 DEF Clock
<1>8. Planned'
  BY <1>1, <1>5 DEF Planned
<1>9. ~LaunchWindow' => Account'
  <2> SUFFICES ASSUME ~LaunchWindow PROVE Account'
    BY <1>1 DEF LaunchWindow
  <2>1. Len(runs) + 1 <= One(claim # 0) + One(completion # 0) + spent + One(refunded)
    BY <1>4 DEF Account, One
  <2>2. Len(runs') + One(Owed') = Len(runs) + 1
    BY <1>2, <1>4, <1>5 DEF One
  <2>3. One(refunded') = One(refunded)
    BY <1>1
  <2> QED BY <1>1, <2>1, <2>2, <2>3 DEF Account
<1>10. faults' = {} => LastRun'
  <2> SUFFICES ASSUME faults = {} PROVE LastRun'
    BY <1>1
  <2>1. runTicket.status = "settled"
    BY <1>1 DEF LastRun
  <2>2. \A i \in 1 .. Len(runs) : runs[i].fate \notin {"killed", "running"} /\ runs[i].at <= runTicket.started
    BY <2>1, <1>2, RunsType DEF LastRun, RunRecords
  <2>3. ASSUME NEW i \in 1 .. Len(runs')
        PROVE  /\ runs'[i].fate # "killed"
               /\ i < Len(runs') => runs'[i].fate # "running" /\ runs'[i].at < runTicket'.started
               /\ i = Len(runs') =>
                     /\ runs'[i].at = runTicket'.started
                     /\ runTicket'.status = "running" <=> runs'[i].fate = "running"
                     /\ runs'[i].fate # "running" => runTicket'.summary = runs'[i].fate
    <3>1. CASE i \in 1 .. Len(runs)
      <4>1. runs[i].at \in Nat
        BY <3>1, RunsType DEF RunRecords
      <4> QED BY <3>1, <4>1, <2>2, <1>2, <1>3, <1>4 DEF Clock
    <3>2. CASE i = Len(runs) + 1
      BY <3>2, <1>2, <1>3, <1>4
    <3> QED BY <3>1, <3>2, <1>2, <1>4
  <2> QED BY <2>3, <1>1, <1>2, <1>4 DEF LastRun
<1>11. faults' = {} => LastIsGranted'
  <2> SUFFICES ASSUME used # 0, ~refunded, ~Between(claim)', ~Between(completion)'
               PROVE  step.by = "grant"
    BY <1>1, <1>4, <1>2 DEF LastIsGranted
  <2>1. claim <= used /\ completion <= used
    BY <1>1, <1>2, <1>3 DEF Between, Clock
  <2> QED BY <1>1, <1>2, <2>1 DEF Planned, Kinds, Automatic
<1>12. faults' = {} => AttemptsPaid'
  <2>1. ~LastSystemic'
    BY <1>3 DEF LastSystemic
  <2> QED BY <2>1, <1>1, <1>2, <1>4, <1>5, StartedAttempts, AttemptsFinite DEF AttemptsPaid, One
<1>13. RefundIsEarned'
  BY <1>1, <1>2, <1>4 DEF RefundIsEarned
<1> QED BY <1>6, <1>7, <1>8, <1>9, <1>10, <1>11, <1>12, <1>13

(* LaunchUntold keeps the invariant, which says little where a ticket may be *)
(* missing.                                                                  *)
LEMMA LaunchUntoldKeeps == ReentryInv /\ LaunchUntold /\ UNCHANGED faults => ReentryInv'
<1> SUFFICES ASSUME ReentryInv, LaunchUntold, UNCHANGED faults PROVE ReentryInv'
  OBVIOUS
<1> USE DEF ReentryInv, Told
<1>1. /\ claim' = claim /\ completion' = completion /\ refunded' = refunded /\ given' = given
      /\ grant' = grant /\ used' = used /\ spent' = spent /\ faults' = faults /\ runTicket' = runTicket
      /\ now' = now + 1 /\ step' = [pc |-> "idle", by |-> "none"]
      /\ Started /\ LaunchWindow
  BY DEF LaunchUntold, Started, NoStep, paper
<1>2. LaunchWindow' /\ faults' # {}
  BY <1>1 DEF LaunchWindow
<1>3. runs' \in Seq(RunRecords)
  BY <1>1, StartedRun
<1>4. now \in Nat
  BY DEF ReentryTypeOK
<1>5. ReentryTypeOK'
  BY <1>1, <1>3, <1>4 DEF ReentryTypeOK, RunRecords, RunFates, Kinds
<1>6. Clock'
  BY <1>1 DEF Clock, ReentryTypeOK
<1>7. Planned'
  BY <1>1 DEF Planned, Unspent
<1>8. RefundIsEarned'
  BY <1>2 DEF RefundIsEarned
<1> QED BY <1>2, <1>5, <1>6, <1>7, <1>8

(* Finish keeps the invariant: only the last run may be running, and it      *)
(* settles the ticket with its own summary.                                  *)
LEMMA FinishKeeps ==
    ASSUME ReentryInv, NEW i \in 1 .. Len(runs), NEW fate \in Fates, Finish(i, fate),
           UNCHANGED faults
    PROVE  ReentryInv'
<1> USE DEF ReentryInv, Told
<1>1. /\ claim' = claim /\ completion' = completion /\ refunded' = refunded /\ given' = given
      /\ grant' = grant /\ used' = used /\ spent' = spent /\ faults' = faults
      /\ now' = now /\ step' = step
      /\ runs[i].fate = "running"
      /\ runs' = [runs EXCEPT ![i] = [runs[i] EXCEPT !.fate = fate]]
  BY DEF Finish, paper
<1>2. fate \in {"killed", "complete", "failed", "systemic"} /\ (faults = {} => fate # "killed")
  BY DEF Fates, Killed
<1>3. /\ runs \in Seq(RunRecords) /\ Len(runs) \in Nat
      /\ \A j \in 1 .. Len(runs) : runs[j] \in RunRecords
  BY RunsType
<1> DEFINE ended == [runs[i] EXCEPT !.fate = fate]
<1>4. /\ ended \in RunRecords /\ ended.fate = fate
      /\ ended.by = runs[i].by /\ ended.at = runs[i].at
  BY <1>2, <1>3 DEF RunRecords, RunFates
<1>5. /\ runs' \in Seq(RunRecords) /\ Len(runs') = Len(runs)
      /\ \A j \in 1 .. Len(runs) : runs'[j] = IF j = i THEN ended ELSE runs[j]
  <2> HIDE DEF ended
  <2>1. runs' = [runs EXCEPT ![i] = ended]
    BY <1>1 DEF ended
  <2> QED BY <2>1, <1>3, <1>4, ExceptSeq
<1> HIDE DEF ended
<1>6. /\ runTicket' \in [started : Nat, status : {"settled", "running"},
                      summary : {"none", "complete", "failed", "systemic"}]
      /\ runTicket'.started = runTicket.started
      /\ runTicket'.summary = IF fate = "killed" THEN runTicket.summary ELSE fate
      /\ runTicket'.status = IF runs[i].at = runTicket.started THEN "settled" ELSE runTicket.status
  BY <1>2 DEF Finish, ReentryTypeOK
<1>7. Unspent' = Unspent /\ Owed' = Owed
  BY <1>1, <1>6 DEF Unspent, Owed
<1>8. ReentryTypeOK'
  BY <1>1, <1>5, <1>6 DEF ReentryTypeOK, RunRecords, RunFates, Kinds
<1>9. Clock'
  BY <1>1, <1>6 DEF Clock
<1>10. Planned'
  BY <1>1, <1>7 DEF Planned
<1>11. ~LaunchWindow' => Account'
  BY <1>1, <1>5, <1>7 DEF Account, LaunchWindow
<1>12. RefundIsEarned'
  <2> SUFFICES ASSUME faults = {}, refunded
               PROVE  \E j \in 1 .. Len(runs') : runs'[j].by = "grant" /\ runs'[j].fate = "systemic"
    BY <1>1 DEF RefundIsEarned
  <2>1. PICK j \in 1 .. Len(runs) : runs[j].by = "grant" /\ runs[j].fate = "systemic"
    BY DEF RefundIsEarned
  <2>2. runs'[j] = runs[j]
    BY <2>1, <1>1, <1>5
  <2> QED BY <2>1, <2>2, <1>5
<1>13. faults' = {} => Told'
  <2> SUFFICES ASSUME faults = {} PROVE Told'
    BY <1>1
  <2>1. /\ i = Len(runs) /\ runs[i].at = runTicket.started
        /\ runTicket.status = "running" /\ step.pc = "idle"
    BY <1>1, <1>3 DEF LastRun
  <2>2. runTicket'.status = "settled" /\ runTicket'.summary = fate
    BY <2>1, <1>2, <1>6
  <2>3. LastRun'
    <3>1. ASSUME NEW j \in 1 .. Len(runs')
          PROVE  /\ runs'[j].fate # "killed"
                 /\ j < Len(runs') => runs'[j].fate # "running" /\ runs'[j].at < runTicket'.started
                 /\ j = Len(runs') =>
                       /\ runs'[j].at = runTicket'.started
                       /\ runTicket'.status = "running" <=> runs'[j].fate = "running"
                       /\ runs'[j].fate # "running" => runTicket'.summary = runs'[j].fate
      BY <1>2, <1>4, <1>5, <1>6, <2>1, <2>2 DEF LastRun
    <3>2. Len(runs') # 0
      BY <1>3, <1>5
    <3> QED BY <3>1, <3>2, <1>1, <2>2 DEF LastRun
  <2>4. LastIsGranted'
    BY <1>1, <1>4, <1>5, <1>6, <2>1 DEF LastIsGranted, Between
  <2>5. AttemptsPaid'
    <3>1. ~LastSystemic /\ i \in Attempts /\ IsFiniteSet(Attempts) /\ Cardinality(Attempts) \in Nat
      BY <2>1, <1>1, AttemptsFinite DEF LastSystemic, Attempts
    <3>2. CASE fate = "systemic"
      <4>1. Attempts' = Attempts \ {i}
        BY <3>2, <1>4, <1>5 DEF Attempts
      <4>2. Cardinality(Attempts') = Cardinality(Attempts) - 1
        BY <3>1, <4>1, FS_RemoveElement
      <4>3. /\ Cardinality(Attempts) + One(Owed) <= One(claim # 0) + spent
            /\ spent \in Nat
        BY <3>1, <1>1 DEF AttemptsPaid, One, ReentryTypeOK
      <4>4. One(claim # 0) \in Nat /\ One(Owed) \in Nat
        BY DEF One
      <4>5. One((Owed \/ LastSystemic)') \in Nat /\ One((Owed \/ LastSystemic)') <= One(Owed) + 1
        BY <1>7 DEF One
      <4>6. One((claim # 0)') = One(claim # 0) /\ spent' = spent
        BY <1>1 DEF One
      <4> HIDE DEF Told, ReentryInv
      <4> QED BY <3>1, <4>2, <4>3, <4>4, <4>5, <4>6 DEF AttemptsPaid
    <3>3. CASE fate # "systemic"
      <4>1. Attempts' = Attempts
        BY <3>3, <1>1, <1>4, <1>5 DEF Attempts
      <4>2. ~LastSystemic'
        BY <3>3, <2>2 DEF LastSystemic, Systemic
      <4> QED BY <3>1, <4>1, <4>2, <1>1, <1>7 DEF AttemptsPaid
    <3> QED BY <3>2, <3>3
  <2> QED BY <2>3, <2>4, <2>5
<1> QED BY <1>8, <1>9, <1>10, <1>11, <1>12, <1>13

-----------------------------------------------------------------------------
(* The theorems *)

(* Every step keeps the invariant.                                           *)
LEMMA ReentryStep == ReentryInv /\ [ReentryNext]_<<reentryVars, faults>> => ReentryInv'
<1> SUFFICES ASSUME ReentryInv, [ReentryNext]_<<reentryVars, faults>> PROVE ReentryInv'
  OBVIOUS
<1>1. CASE UNCHANGED <<reentryVars, faults>>
  <2>1. /\ Kept /\ step' = step /\ now' = now
        /\ claim' = claim /\ completion' = completion /\ grant' = grant /\ used' = used
        /\ refunded' = refunded /\ given' = given /\ spent' = spent
    BY <1>1 DEF reentryVars, paper, Kept
  <2>2. Unspent' = Unspent /\ Owed' = Owed /\ LastSystemic' = LastSystemic
    BY <2>1, RunsStay DEF Unspent, Owed, LastSystemic
  <2>3. ReentryTypeOK' /\ Clock' /\ Planned' /\ RefundIsEarned'
    BY <2>1, <2>2, RunsStay DEF ReentryInv, ReentryTypeOK, Clock, Planned, RefundIsEarned
  <2>4. (~LaunchWindow' => Account') /\ (faults' = {} => Told')
    BY <2>1, <2>2, RunsStay
       DEF ReentryInv, Told, Account, LastRun, LastIsGranted, Between, AttemptsPaid
  <2> QED BY <2>3, <2>4 DEF ReentryInv
<1>2. CASE Plan /\ UNCHANGED faults
  BY <1>2, PlanClaimKeeps, PlanUnspentKeeps, PlanRefundKeeps, PlanGrantKeeps DEF Plan
<1>3. CASE (RefuseSpawn \/ LaunchFails) /\ UNCHANGED faults
  BY <1>3, GivenUpKeeps
<1>4. CASE (Claim \/ Launch \/ LaunchUntold \/ WriteGrant) /\ UNCHANGED faults
  BY <1>4, ClaimKeeps, LaunchKeeps, LaunchUntoldKeeps, WriteGrantKeeps
<1>5. CASE (\E i \in 1 .. Len(runs), fate \in Fates : Finish(i, fate)) /\ UNCHANGED faults
  BY <1>5, FinishKeeps
<1> QED BY <1>1, <1>2, <1>3, <1>4, <1>5 DEF ReentryNext

(* The invariant holds throughout.                                           *)
LEMMA ReentryInvariant == ReentrySpec => []ReentryInv
<1> QED BY ReentryStarts, ReentryStep, PTL DEF ReentrySpec

(* For any number of runs and grants and under either fault: every run was   *)
(* paid for and every refund was earned (claim_consumed, consume_grant,      *)
(* refund_systemic_grant).                                                   *)
THEOREM RunsEarned == ReentrySpec => []RunsAreEarned
<1>1. ReentryInv => RunsAreEarned
  <2> SUFFICES ASSUME ReentryInv PROVE RunsAreEarned
    OBVIOUS
  <2>1. ~LaunchWindow => Account
    BY DEF ReentryInv
  <2>2. RunsArePaid
    BY <2>1, RunsType DEF RunsArePaid, Account, One, ReentryInv, ReentryTypeOK
  <2> QED BY <2>2 DEF ReentryInv, RunsAreEarned
<1> QED BY <1>1, ReentryInvariant, PTL

(* "Once an attempt has really happened, nothing automatic may buy another": *)
(* without lost papers all attempts but one were granted by the owner, for   *)
(* any number of them (claim_consumed, lane_reentry_claim.py).               *)
THEOREM AutomaticAttemptOnce == ReentrySpec => []AutomaticOnce
<1>1. ReentryInv => AutomaticOnce
  <2> SUFFICES ASSUME ReentryInv, faults = {} PROVE Cardinality(Attempts) <= 1 + spent
    BY DEF AutomaticOnce, Attempts
  <2> QED BY AttemptsFinite DEF ReentryInv, Told, AttemptsPaid, One, ReentryTypeOK
<1> QED BY <1>1, ReentryInvariant, PTL

(* Until a re-entry is launched, the papers say so: no completion, grant or  *)
(* refund is spent, the files are those of the first run, and what is under  *)
(* way is the claim or its redemption.                                       *)
NothingBought == Len(runs) = 0 =>
    /\ runTicket.started = 1 /\ runTicket.status = "settled"
    /\ runTicket.summary # "complete"
    /\ completion = 0 /\ spent = 0 /\ ~refunded
    /\ step \in [pc : {"spawn", "launch"}, by : {"claim", "unspent"}] \cup {NoStep}

(* A claim that bought no run is never mistaken for an attempt, and holds    *)
(* nothing up: as long as no re-entry was launched it can be redeemed,       *)
(* without spending the completion or a grant, and when no re-entry is under *)
(* way the next tick may plan it (claim_consumed, lane_reentry_claim.py).    *)
ClaimCanBeRedeemed == claim # 0 /\ Len(runs) = 0 =>
    /\ ~StartedSince(claim)
    /\ completion = 0 /\ spent = 0 /\ ~refunded
    /\ step = NoStep => MayPlan /\ ~Consumed

(* Before the first launch the ticket is older than the claim.               *)
LEMMA NotStarted ==
    ASSUME ReentryInv, NothingBought, Len(runs) = 0, claim # 0
    PROVE  ~StartedSince(claim) /\ ~Consumed
<1>1. runTicket.started = 1 /\ claim \in Nat /\ claim # 1
  BY DEF ReentryInv, ReentryTypeOK, Clock, NothingBought
<1> QED BY <1>1 DEF StartedSince, Consumed

(* Every step keeps it: only a launch ends it.                               *)
LEMMA NothingBoughtStep ==
    ReentryInv /\ NothingBought /\ [ReentryNext]_<<reentryVars, faults>> => NothingBought'
<1> SUFFICES ASSUME ReentryInv, NothingBought, [ReentryNext]_<<reentryVars, faults>>,
                    Len(runs') = 0
             PROVE  NothingBought'
  BY DEF NothingBought
<1> USE DEF NothingBought
<1>1. ~Started
  <2> SUFFICES ASSUME Started PROVE FALSE
    OBVIOUS
  <2>1. Len(runs') = Len(runs) + 1 /\ Len(runs) \in Nat
    BY StartedRun, RunsType DEF ReentryInv
  <2> QED BY <2>1
<1>2. CASE UNCHANGED <<reentryVars, faults>>
  BY <1>2 DEF reentryVars, paper
<1>3. CASE \E i \in 1 .. Len(runs), fate \in Fates : Finish(i, fate)
  <2>1. PICK i \in 1 .. Len(runs), fate \in Fates : Finish(i, fate)
    BY <1>3
  <2>2. runs' = [runs EXCEPT ![i].fate = fate]
    BY <2>1 DEF Finish
  <2>3. Len(runs') = Len(runs) /\ Len(runs) \in Nat
    BY <2>2, RunsType DEF ReentryInv
  <2> QED BY <2>3
<1>4. CASE RefuseSpawn \/ LaunchFails \/ WriteGrant \/ Claim
  <2>1. /\ runs' = runs /\ runTicket' = runTicket
        /\ completion' = completion /\ spent' = spent /\ refunded' = refunded
    BY <1>4 DEF RefuseSpawn, LaunchFails, WriteGrant, Claim, paper
  <2>2. step' \in [pc : {"spawn", "launch"}, by : {"claim", "unspent"}] \cup {NoStep}
    BY <1>4, <2>1 DEF RefuseSpawn, LaunchFails, WriteGrant, Claim, NoStep
  <2> QED BY <2>1, <2>2
<1>5. CASE PlanClaim
  BY <1>5 DEF PlanClaim, Go, paper
<1>6. CASE PlanUnspent
  <2>1. runs' = runs /\ runTicket' = runTicket /\ spent' = spent /\ refunded' = refunded
    BY <1>6 DEF PlanUnspent
  <2>2. ~StartedSince(claim)
    BY <1>6, <2>1, NotStarted DEF PlanUnspent
  <2>3. completion' = completion /\ step' = [pc |-> "spawn", by |-> "unspent"]
    BY <1>6, <2>2 DEF PlanUnspent, Go
  <2> QED BY <2>1, <2>3
<1>7. CASE PlanRefund \/ PlanGrant
  <2>1. runs' = runs /\ Consumed
    BY <1>7 DEF PlanRefund, PlanGrant
  <2>2. claim # 0
    BY <2>1 DEF Consumed
  <2> QED BY <2>1, <2>2, NotStarted
<1> QED BY <1>1, <1>2, <1>3, <1>4, <1>5, <1>6, <1>7
        DEF ReentryNext, Plan, Launch, LaunchUntold

(* For any number of re-entries and grants and under every fault, a claim    *)
(* that bought no run can be redeemed: the state in which ClaimIsRedeemed    *)
(* would fail for want of a step the code allows is not reached              *)
(* (claim_consumed, lane_reentry_claim.py).                                  *)
THEOREM UnspentClaimRedeemable == ReentrySpec => []ClaimCanBeRedeemed
<1>1. ReentryInit => NothingBought
  BY DEF ReentryInit, NothingBought, NoStep
<1>2. ReentryInv /\ NothingBought => ClaimCanBeRedeemed
  <2> SUFFICES ASSUME ReentryInv, NothingBought, claim # 0, Len(runs) = 0
               PROVE  /\ ~StartedSince(claim) /\ ~Consumed
                      /\ completion = 0 /\ spent = 0 /\ ~refunded
                      /\ step = NoStep => MayPlan
    BY DEF ClaimCanBeRedeemed
  <2>1. step = NoStep => MayPlan
    BY DEF NothingBought, MayPlan
  <2> QED BY <2>1, NotStarted DEF NothingBought
<1> QED BY <1>1, <1>2, ReentryInvariant, ReentryStep, NothingBoughtStep, PTL DEF ReentrySpec

=============================================================================
