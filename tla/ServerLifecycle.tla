--------------------------- MODULE ServerLifecycle ---------------------------
(***************************************************************************)
(* cmd/server: processes of this program on one host, with one config,     *)
(* share the OTLP port and the DuckDB file.  A process starts, may take    *)
(* over from the instance that has the port, migrates, serves and shuts    *)
(* down; any may be signalled or crash at any step (main.go, restart.go,   *)
(* otlp/server.go, store/db.go).                                           *)
(***************************************************************************)
EXTENDS Migrations

CONSTANTS
  Proc,         \* the processes; each runs once
  None,         \* nobody
  SkipIfRunning,  \* those started with -skip-if-running
  InitialDb,    \* what the file may contain at first
  MaxCrashes,   \* bound: crashes and signals from outside
  MaxFaults     \* bound: steps that fail

ASSUME LifecycleAssumption ==
  /\ None \notin Proc /\ SkipIfRunning \subseteq Proc
  /\ InitialDb \subseteq {DatabaseAt(v) : v \in 0 .. 8}  \* no file, or any version's
  /\ MaxCrashes \in Nat /\ MaxFaults \in Nat

VARIABLES
  pc,        \* where runServer is
  targets,   \* the instances a takeover found at the port
  port,      \* who listens on grpc_listen
  file,      \* who holds DuckDB's lock on the file
  db,        \* the file's schema and old rows
  at,        \* index of the next statement in each process's current script
  term,      \* processes whose signal context is done
  killed,    \* processes that were sent SIGKILL
  buffered,  \* processes with accepted rows that are not in the file
  outlived,  \* processes whose handlers may outlive the gRPC server
  flushErr,  \* processes whose last flush failed
  crashes, faults

vars == <<pc, targets, port, file, db, at, term, killed, buffered, outlived,
          flushErr, crashes, faults>>
rows == <<buffered, outlived, flushErr>>

Gone == {"idle", "exited", "dead"}

\* Between these the writer runs, and the ticker may flush.
WriterRuns == {"listen", "bound", "serving", "draining", "stopArchiver", "stopWriter"}

Places == Gone \cup WriterRuns \cup
          {"probe", "locate", "terminate", "waitTerm", "waitKill", "open",
           "migrate", "startWriter", "closeDb", "stopPricing"}

Init ==
  /\ pc = [p \in Proc |-> "idle"]
  /\ targets = [p \in Proc |-> {}]
  /\ port = None /\ file = None
  /\ db \in InitialDb
  /\ at = [p \in Proc |-> 1]
  /\ term = {} /\ killed = {}
  /\ buffered = {} /\ outlived = {} /\ flushErr = {}
  /\ crashes = 0 /\ faults = 0

Alive(p) == pc[p] \notin Gone

\* The main goroutine of p goes from one step to the next.
Step(p, from, to) ==
  /\ pc[p] = from /\ p \notin killed
  /\ pc' = [pc EXCEPT ![p] = to]

Fault == faults < MaxFaults /\ faults' = faults + 1

-----------------------------------------------------------------------------
(* Start and takeover *)

Start(p) ==
  /\ Step(p, "idle", "probe")
  /\ UNCHANGED <<targets, port, file, db, at, term, killed, rows, crashes, faults>>

\* alreadyListening; -skip-if-running exits with status 0.
Probe(p) ==
  /\ \/ port = None /\ Step(p, "probe", "open")
     \/ port # None /\ p \in SkipIfRunning /\ Step(p, "probe", "exited")
     \/ port # None /\ p \notin SkipIfRunning /\ Step(p, "probe", "locate")
  /\ UNCHANGED <<targets, port, file, db, at, term, killed, rows, crashes, faults>>

\* Mutant: an empty list of processes is not refused.
LocateAny(p) ==
  /\ Step(p, "locate", "terminate")
  /\ targets' = [targets EXCEPT ![p] = {port}]
  /\ UNCHANGED <<port, file, db, at, term, killed, rows, crashes, faults>>

\* findListenerPIDs; lsof may fail, and nobody may be left at the port.
Locate(p) ==
  /\ \/ /\ port # None
        /\ targets' = [targets EXCEPT ![p] = {port}]
        /\ Step(p, "locate", "terminate")
        /\ UNCHANGED faults
     \/ port = None /\ Step(p, "locate", "exited") /\ UNCHANGED <<targets, faults>>
     \/ Fault /\ Step(p, "locate", "exited") /\ UNCHANGED targets
  /\ UNCHANGED <<port, file, db, at, term, killed, rows, crashes>>

\* What the system takes back from a process that is no more.
Release(p) ==
  /\ port' = IF port = p THEN None ELSE port
  /\ file' = IF file = p THEN None ELSE file

\* Before signal.NotifyContext, and again after its stop, SIGTERM is deadly.
Unarmed == {"bound", "closeDb", "stopPricing"}

\* SIGTERM ends the select of a serving instance; a later one changes nothing.
SignalTerm(p, t) ==
  IF pc[t] \in Unarmed
  THEN pc' = [pc EXCEPT ![p] = "waitTerm", ![t] = "dead"] /\ Release(t) /\ UNCHANGED term
  ELSE /\ pc' = [pc EXCEPT ![p] = "waitTerm"]
       /\ term' = IF Alive(t) THEN term \cup {t} ELSE term
       /\ UNCHANGED <<port, file>>

SendTerm(p) ==
  /\ pc[p] = "terminate" /\ p \notin killed
  /\ \E t \in targets[p] : SignalTerm(p, t)
  /\ UNCHANGED <<targets, db, at, killed, rows, crashes, faults>>

\* Mutant: readiness is gated on the listener port.
PortReleased(p) == port \notin targets[p]

\* allExited.
AllExited(p) == \A t \in targets[p] : ~Alive(t)

\* waitForPIDsExit, of either timeout, sees the processes gone.
WaitOver(p) ==
  /\ AllExited(p)
  /\ Step(p, "waitTerm", "open") \/ Step(p, "waitKill", "open")
  /\ UNCHANGED <<targets, port, file, db, at, term, killed, rows, crashes, faults>>

\* Mutants: no second signal and an error; or the wait has no end.
NoEscalation(p) ==
  /\ ~AllExited(p)
  /\ Step(p, "waitTerm", "exited")
  /\ UNCHANGED <<targets, port, file, db, at, term, killed, rows, crashes, faults>>

NoDeadline(p) == FALSE /\ UNCHANGED vars

\* gracefulStopTimeout has passed.
Escalate(p) ==
  /\ ~AllExited(p)
  /\ Step(p, "waitTerm", "waitKill")
  /\ killed' = killed \cup {t \in targets[p] : Alive(t)}
  /\ UNCHANGED <<targets, port, file, db, at, term, rows, crashes, faults>>

\* A killed process disappears; until then it only keeps what it holds.
Dies(p) ==
  /\ p \in killed /\ Alive(p)
  /\ pc' = [pc EXCEPT ![p] = "dead"]
  /\ Release(p)
  /\ UNCHANGED <<targets, db, at, term, killed, rows, crashes, faults>>

\* forcedStopTimeout has passed too.
GiveUp(p) ==
  /\ ~AllExited(p) /\ Fault
  /\ Step(p, "waitKill", "exited")
  /\ UNCHANGED <<targets, port, file, db, at, term, killed, rows, crashes>>

-----------------------------------------------------------------------------
(* From store.Open to the select in runServer.  The price engine runs from *)
(* before Open on, so an error stops it.                                   *)

\* Mutant: the OTLP listener is bound as soon as the file is open.
OpenAndListen(p) ==
  /\ file = None /\ port = None
  /\ Step(p, "open", "migrate")
  /\ file' = p /\ port' = p
  /\ UNCHANGED <<targets, db, at, term, killed, rows, crashes, faults>>

\* NewEngine may fail, which returns at once; DuckDB refuses a file that another
\* process has open, and may fail otherwise.
Open(p) ==
  /\ \/ file = None /\ Step(p, "open", "migrate") /\ file' = p /\ UNCHANGED faults
     \/ file # None /\ Step(p, "open", "stopPricing") /\ UNCHANGED <<file, faults>>
     \/ /\ Step(p, "open", "exited") \/ Step(p, "open", "stopPricing")
        /\ Fault /\ UNCHANGED file
  /\ UNCHANGED <<targets, port, db, at, term, killed, rows, crashes>>

Script(d) == Min(Pending(d))

\* Mutant: the version is recorded before its statements run.
RecordFirst(p) ==
  LET v == Script(db) IN
  /\ \/ /\ Pending(db) # {} /\ Step(p, "migrate", "migrate")
        /\ db' = Record(Exec(db, v, at[p]), v)
        /\ at' = [at EXCEPT ![p] = 1]
     \/ Pending(db) = {} /\ Step(p, "migrate", "startWriter") /\ UNCHANGED <<db, at>>
  /\ UNCHANGED <<targets, port, file, term, killed, rows, crashes, faults>>

\* One db.Exec of RunMigrations, or its end.
Migrate(p) ==
  LET v == Script(db)
      left == Pending(db) # {} /\ at[p] <= Len(Scripts[v]) IN
  /\ \/ /\ left /\ ~Fails(db, v, at[p])
        /\ Step(p, "migrate", "migrate")
        /\ db' = Exec(db, v, at[p])
        /\ at' = [at EXCEPT ![p] = @ + 1]
        /\ UNCHANGED faults
     \/ /\ left
        /\ \/ Fails(db, v, at[p]) /\ UNCHANGED faults
           \/ Fault
        /\ Step(p, "migrate", "closeDb")
        /\ UNCHANGED <<db, at>>
     \/ /\ Pending(db) # {} /\ ~left
        /\ Step(p, "migrate", "migrate")
        /\ db' = Record(db, v)
        /\ at' = [at EXCEPT ![p] = 1]
        /\ UNCHANGED faults
     \/ /\ Pending(db) = {}
        /\ Step(p, "migrate", "startWriter")
        /\ UNCHANGED <<db, at, faults>>
  /\ UNCHANGED <<targets, port, file, term, killed, rows, crashes>>

\* NewArchiver or NewBufferedWriter may fail; then writer.Start; the HTTP server
\* may fail, which stops the writer.
StartWriter(p) ==
  /\ \/ Step(p, "startWriter", "listen") /\ UNCHANGED faults
     \/ (Step(p, "startWriter", "closeDb") \/ Step(p, "startWriter", "stopWriter")) /\ Fault
  /\ UNCHANGED <<targets, port, file, db, at, term, killed, rows, crashes>>

\* otlp.NewServer: net.Listen, or the error path that stops the writer.
Listen(p) ==
  /\ \/ port = None /\ Step(p, "listen", "bound") /\ port' = p /\ UNCHANGED faults
     \/ port # None /\ Step(p, "listen", "stopWriter") /\ UNCHANGED <<port, faults>>
     \/ port = None /\ Step(p, "listen", "stopWriter") /\ Fault /\ UNCHANGED port
  /\ UNCHANGED <<targets, file, db, at, term, killed, rows, crashes>>

\* go srv.Serve, archiver.Start, signal.NotifyContext.
Arm(p) ==
  /\ Step(p, "bound", "serving")
  /\ UNCHANGED <<targets, port, file, db, at, term, killed, rows, crashes, faults>>

\* A handler's row; Serve's goroutine answers before the context is armed.
Accept(p) ==
  /\ \/ pc[p] \in {"bound", "serving", "draining"}
     \/ Alive(p) /\ p \in outlived
  /\ p \notin killed /\ p \notin buffered
  /\ buffered' = buffered \cup {p}
  /\ UNCHANGED <<pc, targets, port, file, db, at, term, killed, outlived, flushErr,
                 crashes, faults>>

\* The writer's ticker.
Flush(p) ==
  /\ pc[p] \in WriterRuns /\ p \notin killed /\ p \in buffered
  /\ buffered' = buffered \ {p}
  /\ UNCHANGED <<pc, targets, port, file, db, at, term, killed, outlived, flushErr,
                 crashes, faults>>

-----------------------------------------------------------------------------
(* Shutdown *)

\* Mutant: the listener stays open while the server drains.
DrainListening(p) ==
  /\ p \in term
  /\ Step(p, "serving", "draining")
  /\ UNCHANGED <<targets, port, file, db, at, term, killed, rows, crashes, faults>>

\* srv.Shutdown: GracefulStop closes the listener first.
Drain(p) ==
  /\ p \in term
  /\ Step(p, "serving", "draining")
  /\ port' = None
  /\ UNCHANGED <<targets, file, db, at, term, killed, rows, crashes, faults>>

\* All handlers have returned, or shutdownTimeout has passed and Stop is called.
GrpcStopped(p) ==
  /\ Step(p, "draining", "stopArchiver")
  /\ outlived' = outlived \/ outlived' = outlived \cup {p}
  /\ UNCHANGED <<targets, port, file, db, at, term, killed, buffered, flushErr,
                 crashes, faults>>

\* Serve returns an error and has closed the listener; nobody stops the handlers.
ServeFails(p) ==
  /\ Step(p, "serving", "stopArchiver")
  /\ Fault
  /\ port' = None
  /\ outlived' = outlived \cup {p}
  /\ UNCHANGED <<targets, file, db, at, term, killed, buffered, flushErr, crashes>>

\* statsSrv.Shutdown and archiver.Stop.
StopArchiver(p) ==
  /\ Step(p, "stopArchiver", "stopWriter")
  /\ UNCHANGED <<targets, port, file, db, at, term, killed, rows, crashes, faults>>

\* Mutant: the writer is stopped without its last flush.
StopWithoutFlush(p) ==
  /\ Step(p, "stopWriter", "closeDb")
  /\ UNCHANGED <<targets, port, file, db, at, term, killed, rows, crashes, faults>>

\* writer.Stop: the last flush, which may fail.
StopWriter(p) ==
  /\ Step(p, "stopWriter", "closeDb")
  /\ \/ buffered' = buffered \ {p} /\ UNCHANGED <<flushErr, faults>>
     \/ flushErr' = flushErr \cup {p} /\ Fault /\ UNCHANGED buffered
  /\ UNCHANGED <<targets, port, file, db, at, term, killed, outlived, crashes>>

\* The deferred calls, last first: db.Close, then the price engine's Stop.
CloseDb(p) ==
  /\ Step(p, "closeDb", "stopPricing")
  /\ file' = IF file = p THEN None ELSE file
  /\ UNCHANGED <<targets, port, db, at, term, killed, rows, crashes, faults>>

\* Stop waits for a fetch in progress; then the process exits.
StopPricing(p) ==
  /\ Step(p, "stopPricing", "exited")
  /\ UNCHANGED <<targets, port, file, db, at, term, killed, rows, crashes, faults>>

-----------------------------------------------------------------------------
(* From outside *)

\* A crash, kill -9, or a signal to a process that has not armed itself.
Crash(p) ==
  /\ Alive(p) /\ crashes < MaxCrashes
  /\ crashes' = crashes + 1
  /\ pc' = [pc EXCEPT ![p] = "dead"]
  /\ Release(p)
  /\ UNCHANGED <<targets, db, at, term, killed, rows, faults>>

\* Ctrl-C or kill -TERM of a serving instance.
Stop(p) ==
  /\ pc[p] = "serving" /\ p \notin term /\ crashes < MaxCrashes
  /\ crashes' = crashes + 1
  /\ term' = term \cup {p}
  /\ UNCHANGED <<pc, targets, port, file, db, at, killed, rows, faults>>

Takeover(p) == Probe(p) \/ Locate(p) \/ SendTerm(p) \/ WaitOver(p) \/ Escalate(p)
Startup(p)  == Open(p) \/ Migrate(p) \/ StartWriter(p) \/ Listen(p) \/ Arm(p)
Shutdown(p) == \/ Drain(p) \/ GrpcStopped(p) \/ StopArchiver(p) \/ StopWriter(p)
               \/ CloseDb(p) \/ StopPricing(p)

Next ==
  \E p \in Proc :
    \/ Start(p) \/ Takeover(p) \/ Startup(p) \/ Shutdown(p)
    \/ Dies(p) \/ GiveUp(p) \/ ServeFails(p)
    \/ Accept(p) \/ Flush(p)
    \/ Crash(p) \/ Stop(p)

Spec == Init /\ [][Next]_vars

(* A process runs, its deadlines pass and a killed one disappears.  An     *)
(* instance that was told to stop may hang for ever.                       *)
Fairness ==
  \A p \in Proc : /\ WF_vars(Takeover(p) \/ Startup(p))
                  /\ WF_vars(p \notin term /\ Shutdown(p))
                  /\ WF_vars(Dies(p))

FairSpec == Spec /\ Fairness

-----------------------------------------------------------------------------
(* Properties *)

\* Every variable has its type.
TypeOK ==
  /\ pc \in [Proc -> Places]
  /\ targets \in [Proc -> SUBSET Proc]
  /\ port \in Proc \cup {None} /\ file \in Proc \cup {None}
  /\ db \in Databases
  /\ at \in [Proc -> Nat]
  /\ term \subseteq Proc /\ killed \subseteq Proc
  /\ buffered \subseteq Proc /\ outlived \subseteq Proc /\ flushErr \subseteq Proc
  /\ crashes \in Nat /\ faults \in Nat

\* Who listens on the OTLP port has the file: the rows it accepts can be written,
\* and an instance that got the file never finds the port taken by another.
ListenerOwnsFile == port # None => file = port

\* The instances a takeover signalled have let the file go when it opens it:
\* the wait is for the processes, not for the port (restart.go:23).
TakeoverFindsFileFree ==
  \A p \in Proc : pc[p] = "open" => file \notin targets[p]

\* A recorded version is complete, old rows included, whatever was interrupted.
RecordedComplete ==
  /\ \A v \in db.recorded : db.done[v] = Len(Scripts[v])
  /\ 8 \in db.recorded => db.usage = "clean" /\ db.marked
  /\ \A v \in db.recorded : 1 .. v \subseteq db.recorded

\* From version 6 on an interrupted upgrade can be repeated (models.md:695); the
\* scripts before it do not survive an interruption.
UpgradeRepeatable ==
  \A p \in Proc :
    pc[p] = "migrate" /\ 1 .. 6 \subseteq db.recorded /\ Pending(db) # {}
      /\ at[p] <= Len(Scripts[Script(db)]) => ~Fails(db, Script(db), at[p])

\* No takeover kills an instance while it migrates: the port it is found by is
\* bound after the migrations.
MigrationUndisturbed ==
  [][\A p \in Proc : pc[p] = "migrate" /\ (pc'[p] = "dead" \/ p \in killed')
       => crashes' = crashes + 1]_vars

\* A process that ends by itself leaves no accepted row behind unless handlers
\* outlived its gRPC server or the last flush failed.
ExitDrained ==
  \A p \in Proc : pc[p] = "exited" /\ p \in buffered => p \in outlived \cup flushErr

\* A start comes to an end: the process serves, or it is gone.
StartReturns ==
  \A p \in Proc : (pc[p] = "probe") ~> (pc[p] \in {"serving", "exited", "dead"})

\* However many are started together, some instance serves in the end, even if
\* the one they take over from hangs.
ServedInTheEnd ==
  (\E p \in Proc : pc[p] # "idle") ~> (\E p \in Proc : pc[p] = "serving" /\ p \notin term)

\* README.md:137: SIGKILL is for an instance that has not released the port.
KilledHoldsPort == [][\A p \in killed' \ killed : port = p]_vars
=============================================================================
