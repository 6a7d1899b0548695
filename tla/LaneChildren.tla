---------------------------- MODULE LaneChildren ----------------------------
(***************************************************************************)
(* The children of one lane: LaneChildLauncher (lane_child_launcher.py), the *)
(* drain before a writer stop (launch_drain.py), and the launchers that      *)
(* extraction children open only to read tickets (document_extraction_cli).  *)
(*                                                                           *)
(* The writer's one store thread spawns a child per request, one at a time,  *)
(* and keeps a ticket file per run identity.  Children outlive a writer that *)
(* dies; the next writer rebuilds its running set from the tickets.  A run   *)
(* is one process; a ticket may be run again and then names its last run.    *)
(*                                                                           *)
(* clock counts the moments that are stamped: a launch and a ticket write.   *)
(***************************************************************************)
EXTENDS Naturals, FiniteSets, FiniteSetsExt

CONSTANTS
    Tickets,        \* ticket digests, in the order of their directories
    Readers,        \* processes that open the launcher to read tickets
    MaxRuns,        \* bound: launches
    Settings        \* the settings a behaviour may run under

(* What may go wrong: a stranger gets the pid of a child that is gone; the   *)
(* settling of a ticket fails on the disk; the writer dies, or the disk      *)
(* fails, between Popen and the ticket.                                      *)
Faults == {"pid reuse", "disk", "launch window"}

ASSUME LaneAssumption ==
    /\ Tickets \subseteq Nat
    /\ IsFiniteSet(Tickets)
    /\ "writer" \notin Readers
    /\ MaxRuns \in Nat
    /\ Settings \subseteq [tickets : SUBSET Tickets, readers : SUBSET Readers,
                           deaths : Nat, faults : SUBSET Faults]

VARIABLES
    ticket,       \* the ticket files
    marker,       \* .reconciliation.json of the lane
    proc,         \* the children: what the operating system runs
    exit,         \* how a child ended
    writer,       \* the launcher object in the writer
    scan,         \* reconcile_startup in each process that runs it
    outside,      \* the controller, a request in the writer, and the drain;
                  \* late is history: the launches that ended since the drain
                  \* found nothing
    clock, deaths,
    setting       \* the requests' tickets, the readers, the bound on the ends
                  \* of a writer, the faults

files == <<ticket, marker>>
host == <<proc, exit>>
vars == <<files, host, writer, scan, outside, clock, deaths>>

PidReuse == "pid reuse" \in setting.faults
DiskFails == "disk" \in setting.faults
Window == "launch window" \in setting.faults

Runs == 1 .. MaxRuns
Statuses == {"none", "running", "succeeded", "failed", "orphaned"}
NoTicket == [status |-> "none", run |-> 0, started |-> 0, mtime |-> 0]
NoLaunch == [ticket |-> 0, run |-> 0, started |-> 0]

(* A launcher object: handles by ticket (_children), the running set, the    *)
(* last handle (_current), and the launch between Popen and its ticket.      *)
Down == [state |-> "down", handle |-> [t \in Tickets |-> 0], index |-> {},
         current |-> 0, launch |-> NoLaunch]

NoScan == [pc |-> "off", todo |-> {}, since |-> 0, cutoff |-> 0,
           carried |-> {}, running |-> {}, newest |-> 0,
           record |-> NoTicket]

Scanners == Readers \cup {"writer"}

Alive(r) == r # 0 /\ proc[r] = "alive"

(* Mutant of HoldsSlot: a pid that answers kill(pid, 0) counts as running,   *)
(* zombies included.                                                         *)
HoldsSlotZombie(r) == IF proc[r] \in {"alive", "exited"} THEN {TRUE} ELSE {FALSE}

(* ticket_identity is not False: the slot is held by a live child, and by a  *)
(* stranger's process that ps does not tell apart from it.                   *)
HoldsSlot(r) ==
    CASE proc[r] = "alive"  -> {TRUE}
      [] proc[r] = "reused" -> BOOLEAN
      [] OTHER              -> {FALSE}

Init ==
    /\ ticket = [t \in Tickets |-> NoTicket]
    /\ marker = [cutoff |-> 0, running |-> {}]
    /\ proc = [r \in Runs |-> "unborn"]
    /\ exit = [r \in Runs |-> "none"]
    /\ writer = Down
    /\ scan = [p \in Scanners |-> NoScan]
    /\ outside = [controller |-> "up", request |-> FALSE, drained |-> FALSE, late |-> {}]
    /\ clock = 0 /\ deaths = 0
    /\ setting \in Settings

Idle == writer.state = "up" /\ writer.launch = NoLaunch
Launching == writer.state = "up" /\ writer.launch # NoLaunch

-----------------------------------------------------------------------------
(* Tickets *)

ExitStatus(r) == IF exit[r] = "ok" THEN "succeeded" ELSE "failed"

Settled(t, status) ==
    [ticket[t] EXCEPT !.status = status, !.mtime = clock + 1]

(* Tickets with an exit or an orphaned status written into them.             *)
TicketsAfter(ended, lost) ==
    [t \in Tickets |->
        IF t \in ended THEN Settled(t, ExitStatus(writer.handle[t]))
        ELSE IF t \in lost THEN Settled(t, "orphaned")
        ELSE ticket[t]]

(* What the disk lets through of the writes to S: write errors are ignored.  *)
Written(S) == IF DiskFails THEN SUBSET S ELSE {S}

Running(S) == {t \in S : ticket[t].status = "running"}

-----------------------------------------------------------------------------
(* Startup reconciliation: by the writer that starts, and by every process   *)
(* that constructs a launcher.                                               *)

ScanStart(p) ==
    /\ scan[p].pc = "off"
    /\ scan' = [scan EXCEPT ![p] =
          [NoScan EXCEPT !.pc = "scan", !.since = clock + 1,
              !.todo = {t \in Tickets : ticket[t].status # "none"},
              !.cutoff = marker.cutoff, !.carried = marker.running,
              !.newest = marker.cutoff]]

Start ==
    /\ writer.state = "down"
    /\ ScanStart("writer")
    /\ writer' = [writer EXCEPT !.state = "starting"]
    /\ UNCHANGED <<files, host, outside, clock, deaths>>

OpenReader(p) ==
    /\ ScanStart(p)
    /\ UNCHANGED <<files, host, writer, outside, clock, deaths>>

(* One ticket of the sorted directory: skipped when the last reconciliation  *)
(* judged it, kept when it started after this process or its child is still  *)
(* there, otherwise to be settled.                                           *)
ScanTicket(p) ==
    LET s == scan[p]
        t == Min(s.todo)
        rec == ticket[t]
        skip == rec.mtime <= s.cutoff /\ t \notin s.carried
        seen == [s EXCEPT !.todo = @ \ {t},
                          !.newest = IF rec.mtime > @ THEN rec.mtime ELSE @]
    IN  /\ s.pc = "scan" /\ s.todo # {}
        /\ \/ /\ skip \/ rec.status # "running"
              /\ scan' = [scan EXCEPT ![p] = seen]
           \/ /\ ~skip /\ rec.status = "running"
              /\ rec.started >= s.since \/ TRUE \in HoldsSlot(rec.run)
              /\ scan' = [scan EXCEPT ![p] = [seen EXCEPT !.running = @ \cup {t}]]
           \/ /\ ~skip /\ rec.status = "running"
              /\ rec.started < s.since /\ FALSE \in HoldsSlot(rec.run)
              /\ scan' = [scan EXCEPT ![p] =
                    [seen EXCEPT !.todo = s.todo, !.pc = "settle", !.record = rec]]
        /\ UNCHANGED <<files, host, writer, outside, clock, deaths>>

(* The record as it was read is written back as orphaned.                    *)
ScanSettle(p) ==
    LET t == Min(scan[p].todo)
    IN  /\ scan[p].pc = "settle"
        /\ \E w \in Written({t}) :
              ticket' = [x \in Tickets |->
                  IF x \in w THEN [scan[p].record EXCEPT !.status = "orphaned",
                                                         !.mtime = clock + 1]
                  ELSE ticket[x]]
        /\ clock' = clock + 1
        /\ scan' = [scan EXCEPT ![p].pc = "scan", ![p].todo = @ \ {t},
                                ![p].record = NoTicket]
        /\ UNCHANGED <<marker, host, writer, outside, deaths>>

ScanEnds(p) ==
    /\ scan[p].pc = "scan" /\ scan[p].todo = {}
    /\ marker' = [cutoff |-> scan[p].newest, running |-> scan[p].running]

(* Mutant of Ready: the running set is built only from own launches.         *)
ReadyEmpty ==
    /\ ScanEnds("writer")
    /\ writer' = [writer EXCEPT !.state = "up"]
    /\ scan' = [scan EXCEPT !["writer"] = NoScan]
    /\ UNCHANGED <<ticket, host, outside, clock, deaths>>

(* The writer's launcher is built; what still runs is its running set.       *)
Ready ==
    /\ ScanEnds("writer")
    /\ writer' = [writer EXCEPT !.state = "up", !.index = scan["writer"].running]
    /\ scan' = [scan EXCEPT !["writer"] = NoScan]
    /\ UNCHANGED <<ticket, host, outside, clock, deaths>>

ReaderReady(p) ==
    /\ ScanEnds(p)
    /\ scan' = [scan EXCEPT ![p] = [NoScan EXCEPT !.pc = "done"]]
    /\ UNCHANGED <<ticket, host, writer, outside, clock, deaths>>

-----------------------------------------------------------------------------
(* Launching *)

(* Own children that have ended and whose handle was not yet waited on.      *)
Finished == {t \in Tickets : writer.handle[t] # 0 /\ ~Alive(writer.handle[t])}

(* Tickets of the running set whose child an earlier writer started.         *)
Inherited == {t \in Running(writer.index) : writer.handle[t] = 0}

(* What _reap_locked writes for the children in S, _live_ticket_locked for   *)
(* the children of L it found gone.                                          *)
Reaped(S, L) ==
    \E w \in Written(Running(S)), l \in Written(L) :
        /\ ticket' = TicketsAfter(w, l)
        /\ clock' = IF w \cup l = {} THEN clock ELSE clock + 1

Forgotten(S, L) ==
    [writer EXCEPT !.handle = [t \in Tickets |-> IF t \in S THEN 0 ELSE @[t]],
                   !.index = @ \ (S \cup L)]

Gone(c) == FALSE \in HoldsSlot(ticket[c].run)

(* A request that found the slot free launches the next process, before the  *)
(* ticket says so.                                                           *)
Popen(t, S) ==
    LET r == Cardinality({x \in Runs : proc[x] # "unborn"}) + 1
    IN  /\ r \in Runs
        /\ writer' = [Forgotten(S, Inherited) EXCEPT
              !.launch = [ticket |-> t, run |-> r, started |-> clock + 2]]
        /\ \E w \in Written(Running(S)), l \in Written(Inherited) :
              ticket' = TicketsAfter(w, l)
        /\ clock' = clock + 2
        /\ proc' = [proc EXCEPT ![r] = "alive"]

(* spawn up to Popen.  A child may end between the reaping and the questions *)
(* after it, so any of the finished ones may be left unreaped.               *)
Spawn(t) ==
    /\ Idle /\ outside.request
    /\ ~Alive(writer.current)
    /\ \A c \in Inherited : Gone(c)
    /\ \E S \in SUBSET Finished : Popen(t, S)
    /\ UNCHANGED <<marker, exit, scan, outside, deaths>>

(* spawn refused: the last child runs; an inherited one holds the slot (its  *)
(* own ticket is answered as it is); or the slot is free, and the owner      *)
(* paused the lane or the command is not of this workspace.                  *)
Refuse ==
    /\ Idle /\ outside.request
    /\ outside' = [outside EXCEPT !.request = FALSE]
    /\ \E S \in SUBSET Finished, L \in SUBSET {c \in Inherited : Gone(c)} :
          /\ \/ Alive(writer.current) /\ L = {}
             \/ \E c \in Inherited \ L : TRUE \in HoldsSlot(ticket[c].run)
             \/ ~Alive(writer.current) /\ L = Inherited
          /\ Reaped(S, L)
          /\ writer' = Forgotten(S, L)
    /\ UNCHANGED <<marker, host, scan, deaths>>

(* The ticket of the launch is written, then the launcher remembers it.      *)
WriteTicket ==
    LET launch == writer.launch
    IN  /\ Launching
        /\ ticket' = [ticket EXCEPT ![launch.ticket] =
              [status |-> "running", run |-> launch.run,
               started |-> launch.started, mtime |-> clock + 1]]
        /\ clock' = clock + 1
        /\ writer' = [writer EXCEPT !.handle[launch.ticket] = launch.run,
                                    !.index = @ \cup {launch.ticket},
                                    !.current = launch.run,
                                    !.launch = NoLaunch]
        /\ outside' = [outside EXCEPT !.request = FALSE,
              !.late = IF outside.drained THEN @ \cup {launch.run} ELSE @]
        /\ UNCHANGED <<marker, host, scan, deaths>>

(* The write fails: the request fails, and nothing remembers the child.      *)
TicketLost ==
    /\ Window /\ Launching
    /\ writer' = [writer EXCEPT !.launch = NoLaunch]
    /\ outside' = [outside EXCEPT !.request = FALSE]
    /\ UNCHANGED <<files, host, scan, clock, deaths>>

(* Mutant of ByPid: success is read from the summary beside the ticket.      *)
ByPidAdopts(t) ==
    /\ writer.handle[t] = 0 /\ Gone(t)
    /\ ticket' = [ticket EXCEPT ![t] = Settled(t, "succeeded")]
    /\ writer' = Forgotten({}, {t})

(* A running ticket this launcher has no handle for, and whose child is gone.*)
ByPid(t) ==
    /\ writer.handle[t] = 0 /\ Gone(t)
    /\ ticket' = [ticket EXCEPT ![t] = Settled(t, "orphaned")]
    /\ writer' = Forgotten({}, {t})

ByHandle(t) ==
    /\ t \in Finished
    /\ ticket' = [ticket EXCEPT ![t] = Settled(t, ExitStatus(writer.handle[t]))]
    /\ writer' = Forgotten({t}, {})

(* status of a ticket: an own child by its handle, any other by its pid.     *)
Status(t) ==
    /\ Idle /\ ticket[t].status = "running"
    /\ ByHandle(t) \/ ByPid(t)
    /\ clock' = clock + 1
    /\ UNCHANGED <<marker, host, scan, outside, deaths>>

-----------------------------------------------------------------------------
(* Children, writer, controller and drain *)

ChildExits(r) ==
    /\ proc[r] = "alive"
    /\ proc' = [proc EXCEPT ![r] = "exited"]
    /\ \E how \in {"ok", "bad"} : exit' = [exit EXCEPT ![r] = how]
    /\ UNCHANGED <<files, writer, scan, outside, clock, deaths>>

(* Only a pid that was waited on is handed out again: the launcher holds     *)
(* that of a launch in progress too.                                         *)
PidTaken(r) ==
    /\ PidReuse
    /\ proc[r] = "exited" /\ writer.launch.run # r
    /\ \A t \in Tickets : writer.handle[t] # r
    /\ proc' = [proc EXCEPT ![r] = "reused"]
    /\ UNCHANGED <<files, exit, writer, scan, outside, clock, deaths>>

PidFreed(r) ==
    /\ proc[r] = "reused"
    /\ proc' = [proc EXCEPT ![r] = "gone"]
    /\ UNCHANGED <<files, exit, writer, scan, outside, clock, deaths>>

(* A run of the lane is asked for, by a controller tick, or by the owner or a *)
(* driver, who need no controller; the request waits for the store thread.   *)
Ask ==
    /\ Idle /\ ~outside.request
    /\ outside' = [outside EXCEPT !.request = TRUE]
    /\ UNCHANGED <<files, host, writer, scan, clock, deaths>>

(* install.sh and workspace stop: the controller goes first.                 *)
ControllerStops ==
    /\ outside.controller = "up"
    /\ outside' = [outside EXCEPT !.controller = "down"]
    /\ UNCHANGED <<files, host, writer, scan, clock, deaths>>

(* Mutant of Drain: the timeout counts as drained.                           *)
DrainAnyway ==
    /\ outside.controller = "down" /\ ~outside.drained
    /\ outside' = [outside EXCEPT !.drained = TRUE]
    /\ UNCHANGED <<files, host, writer, scan, clock, deaths>>

(* A poll of the drain that finds no ticket running with a live process.     *)
Drain ==
    /\ outside.controller = "down" /\ ~outside.drained
    /\ \A t \in Running(Tickets) : Gone(t)
    /\ outside' = [outside EXCEPT !.drained = TRUE]
    /\ UNCHANGED <<files, host, writer, scan, clock, deaths>>

(* The deployment is over, or gave up on its drain.                          *)
ControllerStarts ==
    /\ outside.controller = "down" /\ writer.state = "up"
    /\ outside' = [outside EXCEPT !.controller = "up", !.drained = FALSE, !.late = {}]
    /\ UNCHANGED <<files, host, writer, scan, clock, deaths>>

Ends ==
    /\ deaths < setting.deaths
    /\ deaths' = deaths + 1
    /\ writer' = Down
    /\ scan' = [scan EXCEPT !["writer"] = NoScan]
    /\ outside' = [outside EXCEPT !.request = FALSE]
    /\ UNCHANGED <<files, clock>>

Owned == {r \in Runs : Alive(r) /\ \E t \in Tickets : writer.handle[t] = r}

(* The service is stopped: close terminates the own children and leaves      *)
(* their tickets as they are.                                                *)
Stop ==
    /\ Idle
    /\ Ends
    /\ proc' = [r \in Runs |-> IF r \in Owned THEN "exited" ELSE proc[r]]
    /\ exit' = [r \in Runs |-> IF r \in Owned THEN "bad" ELSE exit[r]]

(* The writer dies; its children go on.                                      *)
Crash ==
    /\ writer.state # "down"
    /\ Launching => Window
    /\ Ends
    /\ UNCHANGED host

Next ==
    /\ \/ Start \/ Ready \/ Refuse \/ WriteTicket \/ TicketLost
       \/ Ask \/ ControllerStops \/ Drain \/ ControllerStarts \/ Stop \/ Crash
       \/ \E p \in setting.readers : OpenReader(p) \/ ReaderReady(p)
       \/ \E p \in Scanners : ScanTicket(p) \/ ScanSettle(p)
       \/ \E t \in setting.tickets : Spawn(t)
       \/ \E t \in Tickets : Status(t)
       \/ \E r \in Runs : ChildExits(r) \/ PidTaken(r) \/ PidFreed(r)
    /\ UNCHANGED setting

Spec == Init /\ [][Next]_<<vars, setting>>

(* The service manager restarts the writer, the store thread goes on with    *)
(* what it is doing, and ticks ask for the status of what they wait for.     *)
(* Children have time limits, and so have, in the end, strangers' processes. *)
FairSpec ==
    /\ Spec
    /\ WF_vars(Start \/ Ready \/ ScanTicket("writer") \/ ScanSettle("writer")
                \/ WriteTicket \/ TicketLost)
    /\ \A t \in Tickets : WF_vars(Status(t))
    /\ \A r \in Runs : WF_vars(ChildExits(r) \/ PidFreed(r))

-----------------------------------------------------------------------------
(* Properties *)

(* The shape of the lane.                                                    *)
TypeOK ==
    LET Record == [status : Statuses, run : 0 .. MaxRuns, started : Nat, mtime : Nat]
    IN  /\ ticket \in [Tickets -> Record]
        /\ marker.cutoff \in Nat /\ marker.running \subseteq Tickets
        /\ proc \in [Runs -> {"unborn", "alive", "exited", "reused", "gone"}]
        /\ exit \in [Runs -> {"none", "ok", "bad"}]
        /\ writer.state \in {"down", "starting", "up"}
        /\ writer.handle \in [Tickets -> 0 .. MaxRuns]
        /\ writer.index \subseteq Tickets
        /\ writer.current \in 0 .. MaxRuns
        /\ \A p \in Scanners : /\ scan[p].pc \in {"off", "scan", "settle", "done"}
                                /\ scan[p].todo \cup scan[p].running \subseteq Tickets
                                /\ scan[p].record \in Record
        /\ setting \in Settings

(* "One child at a time for one lane, with tickets a restart cannot          *)
(* confuse": whatever writers die and start, whoever's pids are reused, no   *)
(* two children of the lane run at once.  Left out are a writer that ends    *)
(* between Popen and the ticket, and one that ends with a reader at work.    *)
OneChild ==
    ~Window /\ (setting.readers # {} => deaths = 0) =>
        Cardinality({r \in Runs : Alive(r)}) <= 1

(* A settled ticket tells the truth about its run: succeeded and failed are  *)
(* the child's own exit, and an orphaned ticket has no live child.           *)
TicketTellsTheExit ==
    \A t \in Tickets :
        /\ ticket[t].status = "succeeded" => exit[ticket[t].run] = "ok"
        /\ ticket[t].status = "failed" => exit[ticket[t].run] = "bad"
        /\ ticket[t].status = "orphaned" => ~Alive(ticket[t].run)

(* Tickets are well formed and true.                                         *)
TicketsTrue == TypeOK /\ TicketTellsTheExit

(* After a successful drain the writer owns no living child but those whose  *)
(* launch ended after the drain had looked, so that the stop, which          *)
(* terminates what the writer owns, ends no run the drain should have waited *)
(* for.  Readers, which may write an old record over the ticket of a running *)
(* child, are left out.                                                      *)
DrainedStopSparesTheSeen ==
    setting.readers = {} /\ outside.drained => Owned \subseteq outside.late

(* No ticket stays running for ever: what died with its writer is settled,   *)
(* through restarts, lost tickets, readers and reused pids, as long as the   *)
(* disk takes the settlement.                                                *)
SlotComesBack ==
    \A t \in Tickets : (ticket[t].status = "running" /\ ~DiskFails)
                          ~> ticket[t].status # "running"

=============================================================================
