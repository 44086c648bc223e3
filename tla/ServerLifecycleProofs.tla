------------------------ MODULE ServerLifecycleProofs ------------------------
(* Who has the port and the file, whom a takeover may kill, what a migration *)
(* leaves in the file and what a shutdown leaves unwritten, for any number   *)
(* of processes, any file and any number of crashes and failures.            *)
EXTENDS ServerLifecycle, SequenceTheorems, TLAPS

\* Where a process has the file, where it listens, and where it may be once it
\* has listened.
Holding   == {"migrate", "startWriter", "listen", "bound", "serving", "draining",
              "stopArchiver", "stopWriter", "closeDb"}
Listening == {"bound", "serving"}
Listened  == {"bound", "serving", "draining", "stopArchiver", "stopWriter",
              "closeDb", "stopPricing", "exited", "dead"}
Over      == {"exited", "dead"}
Early     == {"idle", "probe", "locate"}

Shapes  == /\ pc \in [Proc -> Places]
           /\ targets \in [Proc -> SUBSET Proc]
           /\ file \in Proc \cup {None} /\ port \in Proc \cup {None}
           /\ killed \subseteq Proc
Holders == \A p \in Proc : pc[p] \in Holding <=> file = p
Listens == port # None => file = port /\ pc[port] \in Listening
Found   == \A p \in Proc : \A t \in targets[p] : pc[t] \in Listened
Cleared == \A p \in Proc : pc[p] = "open" => \A t \in targets[p] : pc[t] \in Over
Alone   == \A p \in Proc : pc[p] \in Early => targets[p] = {}
Hit     == \A t \in killed : pc[t] \in Listened

\* The inductive invariant.  A takeover finds its targets by the port, so they
\* have listened, and what has listened never migrates again; the holder of the
\* file is known by its place, so one that is over has let it go.
LifecycleInv == Shapes /\ Holders /\ Listens /\ Found /\ Cleared /\ Alone /\ Hit

USE DEF Places, Gone, WriterRuns, Holding, Listening, Listened, Over, Early

-----------------------------------------------------------------------------
\* A step of one process that leaves file, targets and killed alone, may close
\* the port, and neither enters nor leaves the places where they matter.
LEMMA LocalStep ==
  ASSUME LifecycleInv, NEW p \in Proc, NEW from \in Places, NEW to \in Places,
         Step(p, from, to), UNCHANGED <<targets, file, killed>>,
         port' \in {port, None},
         from \in Holding <=> to \in Holding,
         from \in Listening => to \in Listening \/ port' = None,
         from \in Listened => to \in Listened,
         to \in Early => from \in Early,
         to = "open" => \A t \in targets[p] : pc[t] \in Over,
         from \notin Over
  PROVE  LifecycleInv'
<1>1. /\ pc[p] = from /\ pc' = [pc EXCEPT ![p] = to]
      /\ pc' \in [Proc -> Places] /\ pc'[p] = to
      /\ \A q \in Proc : q # p => pc'[q] = pc[q]
  BY DEF LifecycleInv, Shapes, Step
<1>2. Shapes'
  BY <1>1 DEF LifecycleInv, Shapes
<1>3. Holders'
  BY <1>1 DEF LifecycleInv, Holders
<1>4. Listens'
  BY <1>1 DEF LifecycleInv, Listens, Shapes
<1>5. Found'
  BY <1>1 DEF LifecycleInv, Found, Shapes
<1>6. Cleared'
  BY <1>1 DEF LifecycleInv, Cleared, Shapes
<1>7. Hit'
  BY <1>1 DEF LifecycleInv, Hit, Shapes
<1>8. Alone'
  BY <1>1 DEF LifecycleInv, Alone, Shapes
<1>. QED
  BY <1>2, <1>3, <1>4, <1>5, <1>6, <1>7, <1>8 DEF LifecycleInv

\* One process goes to another place.
LEMMA Moved ==
  ASSUME NEW f \in [Proc -> Places], NEW p \in Proc, NEW to \in Places
  PROVE  [f EXCEPT ![p] = to] \in [Proc -> Places]
OBVIOUS

\* A process that dies gives back what it holds.
LEMMA DeathStep ==
  ASSUME LifecycleInv, NEW t \in Proc, Alive(t),
         NEW q \in Proc, NEW to \in {"waitTerm", "dead"},
         q # t => pc[q] = "terminate" /\ to = "waitTerm",
         q = t => to = "dead",
         pc' = [pc EXCEPT ![q] = to, ![t] = "dead"], Release(t),
         UNCHANGED <<targets, killed>>
  PROVE  LifecycleInv'
<1>1. /\ pc' \in [Proc -> Places] /\ pc'[t] = "dead" /\ pc'[q] = to
      /\ \A r \in Proc : r # t /\ r # q => pc'[r] = pc[r]
      /\ pc[t] \notin {"exited", "dead", "idle"}
  <2>1. pc \in [Proc -> Places] /\ pc[t] \notin {"exited", "dead", "idle"}
    BY DEF LifecycleInv, Shapes, Alive, Gone
  <2>2. [pc EXCEPT ![q] = to] \in [Proc -> Places]
    BY <2>1, Moved
  <2>3. pc' = [[pc EXCEPT ![q] = to] EXCEPT ![t] = "dead"]
    BY <2>1
  <2>4. pc' \in [Proc -> Places] /\ pc'[t] = "dead"
    BY <2>2, <2>3
  <2>5. pc'[q] = to /\ \A r \in Proc : r # t /\ r # q => pc'[r] = pc[r]
    BY <2>1, <2>3
  <2>. QED
    BY <2>1, <2>4, <2>5
<1>2. Shapes'
  BY <1>1 DEF LifecycleInv, Shapes, Release
<1>3. Holders'
  <2>1. file' # t /\ \A r \in Proc : r # t => (file' = r <=> file = r)
    BY LifecycleAssumption DEF Release
  <2>2. \A r \in Proc : r # t => (pc'[r] \in Holding <=> pc[r] \in Holding)
    BY <1>1
  <2>. QED
    BY <1>1, <2>1, <2>2 DEF LifecycleInv, Holders
<1>4. Listens'
  <2>1. port' # None => port # t /\ port' = port /\ port \in Proc
    BY DEF LifecycleInv, Shapes, Release
  <2>2. port' # None => file = port /\ pc[port] \in Listening /\ port # q
    BY <1>1, <2>1 DEF LifecycleInv, Listens
  <2>3. port' # None => file' = file
    BY <2>1, <2>2 DEF Release
  <2>. QED
    BY <1>1, <2>1, <2>2, <2>3 DEF Listens
<1>5. Found'
  BY <1>1 DEF LifecycleInv, Found, Shapes
<1>6. Cleared'
  BY <1>1 DEF LifecycleInv, Cleared, Shapes
<1>7. Hit'
  BY <1>1 DEF LifecycleInv, Hit, Shapes
<1>8. Alone'
  BY <1>1 DEF LifecycleInv, Alone, Shapes
<1>. QED
  BY <1>2, <1>3, <1>4, <1>5, <1>6, <1>7, <1>8 DEF LifecycleInv

-----------------------------------------------------------------------------
\* Nobody has anything at first.
LEMMA LifecycleInvInit == Init => LifecycleInv
<1>. SUFFICES ASSUME Init PROVE LifecycleInv
  OBVIOUS
<1>1. Shapes
  BY DEF Init, Shapes
<1>2. Holders
  BY LifecycleAssumption DEF Init, Holders
<1>3. Listens /\ Found /\ Cleared /\ Alone /\ Hit
  BY DEF Init, Listens, Found, Cleared, Alone, Hit
<1>. QED
  BY <1>1, <1>2, <1>3 DEF LifecycleInv

\* The steps of a takeover.
LEMMA TakeoverStep ==
  ASSUME LifecycleInv, NEW p \in Proc, Takeover(p)
  PROVE  LifecycleInv'
<1>0. /\ pc \in [Proc -> Places] /\ targets \in [Proc -> SUBSET Proc]
      /\ port \in Proc \cup {None} /\ killed \subseteq Proc
  BY DEF LifecycleInv, Shapes
<1>1. CASE Probe(p)
  <2>1. UNCHANGED <<targets, port, file, killed>>
    BY <1>1 DEF Probe
  <2>2. CASE Step(p, "probe", "open")
    <3>1. targets[p] = {}
      BY <2>2 DEF Step, LifecycleInv, Alone
    <3>. QED
      BY <2>1, <2>2, <3>1, LocalStep
  <2>3. CASE Step(p, "probe", "exited")
    BY <2>1, <2>3, LocalStep
  <2>4. CASE Step(p, "probe", "locate")
    BY <2>1, <2>4, LocalStep
  <2>. QED
    BY <1>1, <2>2, <2>3, <2>4 DEF Probe
<1>2. CASE Locate(p)
  <2>1. UNCHANGED <<port, file, killed>>
    BY <1>2 DEF Locate
  <2>2. CASE Step(p, "locate", "exited") /\ UNCHANGED targets
    BY <2>1, <2>2, LocalStep
  <2>3. CASE /\ port # None /\ Step(p, "locate", "terminate")
             /\ targets' = [targets EXCEPT ![p] = {port}]
    <3>1. port \in Proc /\ pc[port] \in Listening /\ file = port
      BY <2>3, <1>0 DEF LifecycleInv, Listens
    <3>2. /\ pc[p] = "locate" /\ pc' \in [Proc -> Places] /\ pc'[p] = "terminate"
          /\ \A q \in Proc : q # p => pc'[q] = pc[q]
      BY <1>0, <2>3 DEF Step
    <3>3. /\ targets' \in [Proc -> SUBSET Proc] /\ targets'[p] = {port}
          /\ \A q \in Proc : q # p => targets'[q] = targets[q]
      BY <1>0, <2>3, <3>1
    <3>4. Shapes'
      BY <2>1, <3>2, <3>3 DEF LifecycleInv, Shapes
    <3>5. Holders' /\ Listens' /\ Hit'
      BY <1>0, <2>1, <3>1, <3>2 DEF LifecycleInv, Holders, Listens, Hit
    <3>6. Found'
      BY <1>0, <3>1, <3>2, <3>3 DEF LifecycleInv, Found
    <3>7. Cleared' /\ Alone'
      BY <1>0, <3>2, <3>3 DEF LifecycleInv, Cleared, Alone
    <3>. QED
      BY <3>4, <3>5, <3>6, <3>7 DEF LifecycleInv
  <2>. QED
    BY <1>2, <2>2, <2>3 DEF Locate
<1>3. CASE SendTerm(p)
  <2>1. pc[p] = "terminate" /\ p \notin killed /\ UNCHANGED <<targets, killed>>
    BY <1>3 DEF SendTerm
  <2>2. PICK t \in targets[p] : SignalTerm(p, t)
    BY <1>3 DEF SendTerm
  <2>3. t \in Proc
    BY <1>0
  <2>4. CASE pc[t] \in Unarmed
    <3>1. /\ pc' = [pc EXCEPT ![p] = "waitTerm", ![t] = "dead"] /\ Release(t)
          /\ Alive(t) /\ p # t
      BY <2>1, <2>2, <2>4 DEF SignalTerm, Unarmed, Alive
    <3>. QED
      BY <2>1, <2>3, <3>1, DeathStep
  <2>5. CASE pc[t] \notin Unarmed
    <3>1. Step(p, "terminate", "waitTerm") /\ UNCHANGED <<port, file>>
      BY <2>1, <2>2, <2>5 DEF SignalTerm, Step
    <3>. QED
      BY <2>1, <3>1, LocalStep
  <2>. QED
    BY <2>4, <2>5
<1>4. CASE WaitOver(p)
  <2>1. UNCHANGED <<targets, port, file, killed>> /\ AllExited(p)
    BY <1>4 DEF WaitOver
  <2>2. \A t \in targets[p] : pc[t] \in Over
    BY <1>0, <2>1 DEF AllExited, Alive, LifecycleInv, Found
  <2>3. CASE Step(p, "waitTerm", "open")
    BY <2>1, <2>2, <2>3, LocalStep
  <2>4. CASE Step(p, "waitKill", "open")
    BY <2>1, <2>2, <2>4, LocalStep
  <2>. QED
    BY <1>4, <2>3, <2>4 DEF WaitOver
<1>5. CASE Escalate(p)
  <2>1. /\ Step(p, "waitTerm", "waitKill") /\ UNCHANGED <<targets, port, file>>
        /\ killed' = killed \cup {t \in targets[p] : Alive(t)}
    BY <1>5 DEF Escalate
  <2>2. /\ pc[p] = "waitTerm" /\ pc' \in [Proc -> Places] /\ pc'[p] = "waitKill"
        /\ \A q \in Proc : q # p => pc'[q] = pc[q]
    BY <1>0, <2>1 DEF Step
  <2>3. killed' \subseteq killed \cup targets[p] /\ targets[p] \subseteq Proc
    BY <1>0, <2>1
  <2>4. Shapes'
    BY <2>1, <2>2, <2>3 DEF LifecycleInv, Shapes
  <2>5. Holders' /\ Listens'
    BY <1>0, <2>1, <2>2 DEF LifecycleInv, Holders, Listens
  <2>6. Found' /\ Cleared' /\ Alone'
    BY <1>0, <2>1, <2>2 DEF LifecycleInv, Found, Cleared, Alone
  <2>7. Hit'
    <3>1. \A t \in killed' : t \in Proc /\ pc[t] \in Listened
      BY <1>0, <2>3 DEF LifecycleInv, Hit, Found
    <3>. QED
      BY <2>2, <3>1 DEF Hit
  <2>. QED
    BY <2>4, <2>5, <2>6, <2>7 DEF LifecycleInv
<1>. QED
  BY <1>1, <1>2, <1>3, <1>4, <1>5 DEF Takeover

\* The steps from the file to the select.
LEMMA StartupStep ==
  ASSUME LifecycleInv, NEW p \in Proc, Startup(p)
  PROVE  LifecycleInv'
<1>0. /\ pc \in [Proc -> Places] /\ targets \in [Proc -> SUBSET Proc]
      /\ port \in Proc \cup {None} /\ None \notin Proc
  BY LifecycleAssumption DEF LifecycleInv, Shapes
<1>1. CASE Open(p)
  <2>1. UNCHANGED <<targets, port, killed>>
    BY <1>1 DEF Open
  <2>2. CASE UNCHANGED file /\ (Step(p, "open", "stopPricing") \/ Step(p, "open", "exited"))
    BY <2>1, <2>2, LocalStep
  <2>3. CASE file = None /\ Step(p, "open", "migrate") /\ file' = p
    <3>1. /\ pc[p] = "open" /\ pc' \in [Proc -> Places] /\ pc'[p] = "migrate"
          /\ \A q \in Proc : q # p => pc'[q] = pc[q]
      BY <1>0, <2>3 DEF Step
    <3>2. Shapes'
      BY <2>1, <2>3, <3>1 DEF LifecycleInv, Shapes
    <3>3. Holders' /\ Listens'
      BY <1>0, <2>1, <2>3, <3>1 DEF LifecycleInv, Holders, Listens
    <3>4. Found' /\ Cleared' /\ Alone' /\ Hit'
      BY <1>0, <2>1, <3>1 DEF LifecycleInv, Shapes, Found, Cleared, Alone, Hit
    <3>. QED
      BY <3>2, <3>3, <3>4 DEF LifecycleInv
  <2>. QED
    BY <1>1, <2>2, <2>3 DEF Open
<1>2. CASE Migrate(p)
  <2>1. UNCHANGED <<targets, port, file, killed>>
    BY <1>2 DEF Migrate
  <2>2. \/ Step(p, "migrate", "migrate") \/ Step(p, "migrate", "closeDb")
        \/ Step(p, "migrate", "startWriter")
    BY <1>2 DEF Migrate
  <2>. QED
    BY <2>1, <2>2, LocalStep
<1>3. CASE StartWriter(p)
  <2>1. UNCHANGED <<targets, port, file, killed>>
    BY <1>3 DEF StartWriter
  <2>2. \/ Step(p, "startWriter", "listen") \/ Step(p, "startWriter", "closeDb")
        \/ Step(p, "startWriter", "stopWriter")
    BY <1>3 DEF StartWriter
  <2>. QED
    BY <2>1, <2>2, LocalStep
<1>4. CASE Listen(p)
  <2>1. UNCHANGED <<targets, file, killed>>
    BY <1>4 DEF Listen
  <2>2. CASE Step(p, "listen", "stopWriter") /\ UNCHANGED port
    BY <2>1, <2>2, LocalStep
  <2>3. CASE Step(p, "listen", "bound") /\ port' = p
    <3>1. /\ pc[p] = "listen" /\ pc' \in [Proc -> Places] /\ pc'[p] = "bound"
          /\ \A q \in Proc : q # p => pc'[q] = pc[q]
      BY <1>0, <2>3 DEF Step
    <3>2. Shapes'
      BY <2>1, <2>3, <3>1 DEF LifecycleInv, Shapes
    <3>3. Holders' /\ Listens'
      BY <1>0, <2>1, <2>3, <3>1 DEF LifecycleInv, Holders, Listens
    <3>4. Found' /\ Cleared' /\ Alone' /\ Hit'
      BY <1>0, <2>1, <3>1 DEF LifecycleInv, Shapes, Found, Cleared, Alone, Hit
    <3>. QED
      BY <3>2, <3>3, <3>4 DEF LifecycleInv
  <2>. QED
    BY <1>4, <2>2, <2>3 DEF Listen
<1>5. CASE Arm(p)
  BY <1>5, LocalStep DEF Arm
<1>. QED
  BY <1>1, <1>2, <1>3, <1>4, <1>5 DEF Startup

\* The file is given back by its holder.
LEMMA CloseStep ==
  ASSUME LifecycleInv, NEW p \in Proc, CloseDb(p)
  PROVE  LifecycleInv'
<1>1. /\ pc \in [Proc -> Places] /\ targets \in [Proc -> SUBSET Proc]
      /\ port \in Proc \cup {None} /\ None \notin Proc
  BY LifecycleAssumption DEF LifecycleInv, Shapes
<1>2. /\ pc[p] = "closeDb" /\ pc' \in [Proc -> Places] /\ pc'[p] = "stopPricing"
      /\ \A q \in Proc : q # p => pc'[q] = pc[q]
  BY <1>1 DEF CloseDb, Step
<1>3. file = p /\ file' = None /\ port = None /\ UNCHANGED <<targets, port, killed>>
  BY <1>1, <1>2 DEF CloseDb, LifecycleInv, Holders, Listens
<1>4. Shapes'
  BY <1>2, <1>3 DEF LifecycleInv, Shapes
<1>5. Holders' /\ Listens'
  BY <1>1, <1>2, <1>3 DEF LifecycleInv, Holders, Listens
<1>6. Found' /\ Cleared' /\ Alone' /\ Hit'
  BY <1>1, <1>2, <1>3 DEF LifecycleInv, Shapes, Found, Cleared, Alone, Hit
<1>. QED
  BY <1>4, <1>5, <1>6 DEF LifecycleInv

\* The steps of a shutdown.
LEMMA ShutdownStep ==
  ASSUME LifecycleInv, NEW p \in Proc, Shutdown(p)
  PROVE  LifecycleInv'
<1>1. CASE Drain(p)
  BY <1>1, LocalStep DEF Drain
<1>2. CASE GrpcStopped(p)
  BY <1>2, LocalStep DEF GrpcStopped
<1>3. CASE StopArchiver(p)
  BY <1>3, LocalStep DEF StopArchiver
<1>4. CASE StopWriter(p)
  BY <1>4, LocalStep DEF StopWriter
<1>5. CASE CloseDb(p)
  BY <1>5, CloseStep
<1>6. CASE StopPricing(p)
  BY <1>6, LocalStep DEF StopPricing
<1>. QED
  BY <1>1, <1>2, <1>3, <1>4, <1>5, <1>6 DEF Shutdown

\* A step that changes none of the six.
LEMMA QuietStep ==
  ASSUME LifecycleInv, UNCHANGED <<pc, targets, port, file, killed>>
  PROVE  LifecycleInv'
BY DEF LifecycleInv, Shapes, Holders, Listens, Found, Cleared, Alone, Hit

\* A process that dies of a signal or of itself.
LEMMA LostStep ==
  ASSUME LifecycleInv, NEW p \in Proc, Alive(p), pc' = [pc EXCEPT ![p] = "dead"],
         Release(p), UNCHANGED <<targets, killed>>
  PROVE  LifecycleInv'
<1>1. pc' = [pc EXCEPT ![p] = "dead", ![p] = "dead"]
  BY DEF LifecycleInv, Shapes
<1>. QED
  BY <1>1, DeathStep

LEMMA LifecycleInvNext == LifecycleInv /\ [Next]_vars => LifecycleInv'
<1>. SUFFICES ASSUME LifecycleInv, [Next]_vars PROVE LifecycleInv'
  OBVIOUS
<1>1. CASE UNCHANGED vars
  BY <1>1, QuietStep DEF vars
<1>2. ASSUME NEW p \in Proc,
             \/ Start(p) \/ Takeover(p) \/ Startup(p) \/ Shutdown(p)
             \/ Dies(p) \/ GiveUp(p) \/ ServeFails(p)
             \/ Accept(p) \/ Flush(p) \/ Crash(p) \/ Stop(p)
      PROVE  LifecycleInv'
  <2>1. CASE Start(p)
    BY <2>1, LocalStep DEF Start
  <2>2. CASE Takeover(p)
    BY <2>2, TakeoverStep
  <2>3. CASE Startup(p)
    BY <2>3, StartupStep
  <2>4. CASE Shutdown(p)
    BY <2>4, ShutdownStep
  <2>5. CASE Dies(p)
    BY <2>5, LostStep DEF Dies
  <2>6. CASE GiveUp(p)
    BY <2>6, LocalStep DEF GiveUp
  <2>7. CASE ServeFails(p)
    BY <2>7, LocalStep DEF ServeFails
  <2>8. CASE Accept(p)
    BY <2>8, QuietStep DEF Accept
  <2>9. CASE Flush(p)
    BY <2>9, QuietStep DEF Flush
  <2>10. CASE Crash(p)
    BY <2>10, LostStep DEF Crash
  <2>11. CASE Stop(p)
    BY <2>11, QuietStep DEF Stop
  <2>. QED
    BY <1>2, <2>1, <2>2, <2>3, <2>4, <2>5, <2>6, <2>7, <2>8, <2>9, <2>10, <2>11
<1>. QED
  BY <1>1, <1>2 DEF Next

\* The invariant of every run of the program.
THEOREM LifecycleInvariant == Spec => []LifecycleInv
BY LifecycleInvInit, LifecycleInvNext, PTL DEF Spec

-----------------------------------------------------------------------------
\* Whoever listens on the OTLP port holds the file, for any number of processes
\* and of crashes: runServer binds the port after store.Open and closes it first.
THEOREM ListenerOwnsFileHolds == Spec => []ListenerOwnsFile
<1>1. LifecycleInv => ListenerOwnsFile
  BY DEF LifecycleInv, Listens, ListenerOwnsFile
<1>. QED
  BY <1>1, LifecycleInvariant, PTL

\* A takeover that goes on to open the file finds none of the instances it
\* signalled holding it, whether they ended by SIGTERM or by SIGKILL.
THEOREM TakeoverHolds == Spec => []TakeoverFindsFileFree
<1>1. LifecycleInv => TakeoverFindsFileFree
  <2>. SUFFICES ASSUME LifecycleInv, NEW p \in Proc, pc[p] = "open", file \in targets[p]
               PROVE  FALSE
    BY DEF TakeoverFindsFileFree
  <2>1. file \in Proc /\ pc[file] \in Over
    BY DEF LifecycleInv, Shapes, Cleared
  <2>. QED
    BY <2>1 DEF LifecycleInv, Holders
<1>. QED
  BY <1>1, LifecycleInvariant, PTL

\* No takeover interrupts a migration: its victims were found at the port.
THEOREM MigrationUndisturbedHolds == Spec => MigrationUndisturbed
<1>. DEFINE Disturbed == \A p \in Proc :
       pc[p] = "migrate" /\ (pc'[p] = "dead" \/ p \in killed')
         => crashes' = crashes + 1
<1>1. LifecycleInv /\ [Next]_vars => [Disturbed]_vars
  <2>. SUFFICES ASSUME LifecycleInv, NEW p \in Proc, pc[p] = "migrate", Next,
                      pc'[p] = "dead" \/ p \in killed', crashes' # crashes + 1
               PROVE  FALSE
    BY DEF Disturbed
  <2>1. pc \in [Proc -> Places] /\ p \notin killed
        /\ \A q \in Proc : targets[q] \subseteq Proc /\ p \notin targets[q]
    BY DEF LifecycleInv, Shapes, Found, Hit
  <2>2. PICK q \in Proc :
             \/ Start(q) \/ Takeover(q) \/ Startup(q) \/ Shutdown(q)
             \/ Dies(q) \/ GiveUp(q) \/ ServeFails(q)
             \/ Accept(q) \/ Flush(q) \/ Crash(q) \/ Stop(q)
    BY DEF Next
  <2>3. ~Crash(q) /\ ~Stop(q)
    BY DEF Crash, Stop
  <2>4. p \notin killed'
    BY <2>1, <2>2, <2>3 DEF Start, Takeover, Probe, Locate, SendTerm, WaitOver, Escalate,
       Startup, Open, Migrate, StartWriter, Listen, Arm, Shutdown, Drain, GrpcStopped,
       StopArchiver, StopWriter, CloseDb, StopPricing, Dies, GiveUp, ServeFails, Accept,
       Flush
  <2>5. \A from, to \in Places : Step(q, from, to) /\ to # "dead" => pc'[p] # "dead"
    BY <2>1 DEF Step
  <2>6. CASE Dies(q)
    BY <2>1, <2>4, <2>6 DEF Dies
  <2>7. CASE SendTerm(q)
    <3>1. PICK t \in targets[q] : SignalTerm(q, t)
      BY <2>7 DEF SendTerm
    <3>2. t # p
      BY <2>1
    <3>. QED
      BY <2>1, <2>4, <3>1, <3>2 DEF SignalTerm
  <2>8. CASE ~Dies(q) /\ ~SendTerm(q)
    <3>1. pc' = pc \/ \E from, to \in Places : Step(q, from, to) /\ to # "dead"
      BY <2>2, <2>3, <2>8 DEF Start, Takeover, Probe, Locate, WaitOver, Escalate,
         Startup, Open, Migrate, StartWriter, Listen, Arm, Shutdown, Drain, GrpcStopped,
         StopArchiver, StopWriter, CloseDb, StopPricing, GiveUp, ServeFails, Accept, Flush
    <3>. QED
      BY <2>4, <2>5, <3>1
  <2>. QED
    BY <2>6, <2>7, <2>8
<1>. QED
  BY <1>1, LifecycleInvariant, PTL DEF Spec, MigrationUndisturbed

-----------------------------------------------------------------------------
(* The scripts, as sequences of statements. *)

Ops == {"create", "ensure", "fill", "clean", "mark"}

\* Alike statements.
LEMMA SameStatements ==
  ASSUME NEW n \in Nat, NEW op \in Ops
  PROVE  LET s == [i \in 1 .. n |-> op]
         IN  s \in Seq(Ops) /\ Len(s) = n /\ \A i \in 1 .. n : s[i] = op
<1>. DEFINE s == [i \in 1 .. n |-> op]
<1>1. s \in Seq(Ops)
  OBVIOUS
<1>2. DOMAIN s = 1 .. n /\ Len(s) \in Nat /\ DOMAIN s = 1 .. Len(s)
  BY <1>1, LenProperties
<1>3. Len(s) = n
  BY <1>1
<1>. QED
  BY <1>1, <1>3

\* 008: fill, clean and mark are its 6th, 7th and 10th statements; all others can
\* be repeated.
LEMMA TelemetryScript ==
  /\ Telemetry \in Seq(Ops) /\ Len(Telemetry) = 30
  /\ Telemetry[6] = "fill" /\ Telemetry[7] = "clean" /\ Telemetry[10] = "mark"
  /\ \A i \in 1 .. 30 : i \notin {6, 7, 10} => Telemetry[i] = "ensure"
<1>. DEFINE a == Ensure(5)
            m == <<"fill", "clean", "ensure", "ensure", "mark">>
            z == Ensure(20)
<1>1. a \in Seq(Ops) /\ Len(a) = 5 /\ \A i \in 1 .. 5 : a[i] = "ensure"
  BY SameStatements DEF Ensure, Ops
<1>2. z \in Seq(Ops) /\ Len(z) = 20 /\ \A i \in 1 .. 20 : z[i] = "ensure"
  BY SameStatements DEF Ensure, Ops
<1>3. m \in Seq(Ops) /\ Len(m) = 5
  BY DEF Ops
<1>4. m[1] = "fill" /\ m[2] = "clean" /\ m[3] = "ensure" /\ m[4] = "ensure" /\ m[5] = "mark"
  OBVIOUS
<1>. HIDE DEF a, m, z
<1>5. /\ a \o m \in Seq(Ops) /\ Len(a \o m) = 10
      /\ \A i \in 1 .. 10 : (a \o m)[i] = IF i <= 5 THEN a[i] ELSE m[i - 5]
  <2>1. /\ a \o m \in Seq(Ops) /\ Len(a \o m) = Len(a) + Len(m)
        /\ \A i \in 1 .. Len(a) + Len(m) : (a \o m)[i] = IF i <= Len(a) THEN a[i] ELSE m[i - Len(a)]
    BY <1>1, <1>3, ConcatProperties
  <2>2. Len(a) + Len(m) = 10
    BY <1>1, <1>3
  <2>. QED
    BY <1>1, <1>3, <2>1, <2>2
<1>. DEFINE b == a \o m
<1>15. b \in Seq(Ops) /\ Len(b) = 10
  BY <1>5
<1>8. \A i \in 1 .. 10 : b[i] = IF i <= 5 THEN a[i] ELSE m[i - 5]
  BY <1>5
<1>. HIDE DEF b
<1>6. /\ b \o z \in Seq(Ops) /\ Len(b \o z) = 30
      /\ \A i \in 1 .. 30 : (b \o z)[i] = IF i <= 10 THEN b[i] ELSE z[i - 10]
  <2>1. /\ b \o z \in Seq(Ops) /\ Len(b \o z) = Len(b) + Len(z)
        /\ \A i \in 1 .. Len(b) + Len(z) : (b \o z)[i] = IF i <= Len(b) THEN b[i] ELSE z[i - Len(b)]
    BY <1>2, <1>15, ConcatProperties
  <2>2. Len(b) = 10 /\ Len(b) + Len(z) = 30
    BY <1>2, <1>15
  <2>. QED
    BY <2>1, <2>2
<1>7. Telemetry = b \o z
  BY DEF Telemetry, a, b, m, z
<1>9. \A i \in 1 .. 30 : i > 10 => i - 10 \in 1 .. 20
  OBVIOUS
<1>16. \A i \in 1 .. 30 : Telemetry[i] = IF i <= 10 THEN b[i] ELSE z[i - 10]
  BY <1>6, <1>7, Zenon
<1>10. \A i \in 1 .. 30 : i > 10 => Telemetry[i] = "ensure"
  <2>. SUFFICES ASSUME NEW i \in 1 .. 30, i > 10 PROVE Telemetry[i] = "ensure"
    OBVIOUS
  <2>1. Telemetry[i] = z[i - 10]
    BY <1>16
  <2>. QED
    BY <1>2, <1>9, <2>1
<1>11. \A i \in 1 .. 10 : Telemetry[i] = IF i <= 5 THEN a[i] ELSE m[i - 5]
  <2>. SUFFICES ASSUME NEW i \in 1 .. 10 PROVE Telemetry[i] = IF i <= 5 THEN a[i] ELSE m[i - 5]
    OBVIOUS
  <2>1. Telemetry[i] = b[i]
    <3>1. i \in 1 .. 30 /\ i <= 10
      OBVIOUS
    <3>. QED
      BY <1>16, <3>1
  <2>. QED
    BY <1>8, <2>1
<1>12. \A i \in 1 .. 5 : Telemetry[i] = "ensure"
  BY <1>1, <1>11
<1>13. /\ Telemetry[6] = m[1] /\ Telemetry[7] = m[2] /\ Telemetry[8] = m[3]
       /\ Telemetry[9] = m[4] /\ Telemetry[10] = m[5]
  BY <1>11
<1>14. \A i \in 1 .. 30 : i \in 1 .. 5 \/ i \in {6, 7, 8, 9, 10} \/ i > 10
  OBVIOUS
<1>. QED
  BY <1>4, <1>6, <1>7, <1>10, <1>12, <1>13, <1>14

\* Every script is a sequence of statements; only 008 touches the old rows, and
\* from 007 on every statement can be repeated.
LEMMA ScriptFacts ==
  /\ \A v \in Versions : Len(Scripts[v]) \in Nat
  /\ Scripts[8] = Telemetry /\ 8 \in Versions
  /\ \A v \in Versions : \A i \in 1 .. Len(Scripts[v]) :
       v # 8 => Scripts[v][i] \in {"create", "ensure"}
  /\ \A i \in 1 .. Len(Scripts[7]) : Scripts[7][i] = "ensure"
<1>. DEFINE C(n) == [i \in 1 .. n |-> "create"]
            E(n) == [i \in 1 .. n |-> "ensure"]
<1>1. \A n \in Nat : Len(C(n)) = n /\ \A i \in 1 .. n : C(n)[i] = "create"
  BY SameStatements DEF Ops
<1>2. \A n \in Nat : Len(E(n)) = n /\ \A i \in 1 .. n : E(n)[i] = "ensure"
  BY SameStatements DEF Ops
<1>3. /\ Scripts[1] = C(8) /\ Scripts[2] = C(11) /\ Scripts[3] = C(6) /\ Scripts[4] = C(1)
      /\ Scripts[5] = C(1) /\ Scripts[6] = C(1) /\ Scripts[7] = E(10) /\ Scripts[8] = Telemetry
  BY DEF Scripts, MetricTables, EventTables, CodexEventTables, TokenUsageCost, SkillMetrics,
     ResponseTbt, ArchiveTables, Create, Ensure
<1>. HIDE DEF C, E
<1>4. \A v \in Versions : v \in {1, 2, 3, 4, 5, 6} \/ v = 7 \/ v = 8
  BY DEF Versions
<1>5. ASSUME NEW v \in {1, 2, 3, 4, 5, 6}
      PROVE  Len(Scripts[v]) \in Nat /\ \A i \in 1 .. Len(Scripts[v]) : Scripts[v][i] = "create"
  <2>1. PICK n \in {1, 6, 8, 11} : Scripts[v] = C(n)
    BY <1>3
  <2>. QED
    BY <1>1, <2>1
<1>6. Len(Scripts[7]) \in Nat /\ \A i \in 1 .. Len(Scripts[7]) : Scripts[7][i] = "ensure"
  BY <1>2, <1>3
<1>7. Len(Scripts[8]) \in Nat
  BY <1>3, TelemetryScript
<1>8. 8 \in Versions
  BY DEF Versions
<1>. QED
  BY <1>3, <1>4, <1>5, <1>6, <1>7, <1>8

-----------------------------------------------------------------------------
(* The file: what is recorded, and how far the script in progress has got. *)

\* The statements of script v that are done stay within it, those of a recorded
\* one are all done, and the scripts are recorded in order; the old rows are
\* decided only after their negative values are out.
DbInv ==
  /\ db \in Databases
  /\ \E k \in 0 .. 8 : db.recorded = 1 .. k
  /\ \A v \in Versions : db.done[v] <= Len(Scripts[v])
  /\ \A v \in db.recorded : db.done[v] = Len(Scripts[v])
  /\ db.marked => db.usage = "clean"
  /\ 8 \in db.recorded => db.marked

\* A process has run the statements before its next one, in this run or before.
Progress(p) ==
  LET v == Script(db) IN
  /\ at[p] \in 1 .. Len(Scripts[v]) + 1
  /\ at[p] <= db.done[v] + 1
  /\ v = 8 => /\ at[p] > 6 => db.usage # "old"
              /\ at[p] > 7 => db.usage = "clean"
              /\ at[p] > 10 => db.marked

Before == {"idle", "probe", "locate", "terminate", "waitTerm", "waitKill", "open"}

AtInv ==
  /\ at \in [Proc -> Nat]
  /\ \A p \in Proc : pc[p] \in Before => at[p] = 1
  /\ \A p \in Proc : pc[p] = "migrate" /\ Pending(db) # {} => Progress(p)

MigrateInv == DbInv /\ AtInv

\* The versions recorded are the first k; the next one is k + 1.
LEMMA NextScript ==
  ASSUME NEW d, NEW k \in 0 .. 8, d.recorded = 1 .. k, Pending(d) # {}
  PROVE  /\ k < 8 /\ Script(d) = k + 1 /\ Script(d) \in Versions
         /\ Record(d, Script(d)) = [d EXCEPT !.recorded = 1 .. k + 1]
<1>1. Pending(d) = (k + 1) .. 8
  BY DEF Pending, Versions
<1>2. k < 8
  BY <1>1
<1>3. k + 1 \in Pending(d) /\ \A y \in Pending(d) : k + 1 <= y /\ y \in Nat
  BY <1>1, <1>2
<1>4. Script(d) = k + 1
  <2>1. Script(d) \in Pending(d) /\ \A y \in Pending(d) : Script(d) <= y
    BY <1>3 DEF Script, Min
  <2>. QED
    BY <1>3, <2>1
<1>5. 1 .. k + 1 = (1 .. k) \cup {k + 1}
  OBVIOUS
<1>6. k + 1 \in Versions
  BY <1>2 DEF Versions
<1>7. Record(d, Script(d)) = [d EXCEPT !.recorded = 1 .. k + 1]
  BY <1>4, <1>5 DEF Record
<1>. QED
  BY <1>2, <1>4, <1>6, <1>7

LEMMA MigrateInvInit == Init => MigrateInv
<1>. SUFFICES ASSUME Init PROVE MigrateInv
  OBVIOUS
<1>1. PICK k \in 0 .. 8 : db = DatabaseAt(k)
  BY LifecycleAssumption DEF Init
<1>2. \A v \in Versions : v \in 1 .. 8 /\ Len(Scripts[v]) \in Nat
  BY ScriptFacts DEF Versions
<1>3. /\ db.done = [w \in Versions |-> IF w <= k THEN Len(Scripts[w]) ELSE 0]
      /\ db.recorded = 1 .. k
      /\ db.usage = IF k = 8 THEN "clean" ELSE "old"
      /\ db.marked = (k = 8)
      /\ db = [done |-> db.done, recorded |-> db.recorded, usage |-> db.usage, marked |-> db.marked]
  BY <1>1 DEF DatabaseAt
<1>4. db.recorded \subseteq Versions
  <2>1. 1 .. k \subseteq Versions
    BY DEF Versions
  <2>. QED
    BY <1>3, <2>1
<1>5. db.done \in [Versions -> Nat] /\ db.usage \in {"old", "filled", "clean"} /\ db.marked \in BOOLEAN
  BY <1>2, <1>3
<1>6. db \in Databases
  BY <1>3, <1>4, <1>5 DEF Databases
<1>7. \A v \in Versions : /\ db.done[v] <= Len(Scripts[v])
                          /\ v \in db.recorded => db.done[v] = Len(Scripts[v])
  BY <1>2, <1>3
<1>8. (8 \in db.recorded => db.marked) /\ (db.marked => db.usage = "clean")
  <2>1. 8 \in 1 .. k => k = 8
    OBVIOUS
  <2>2. db.marked <=> k = 8
    BY <1>3
  <2>. QED
    BY <1>3, <2>1, <2>2
<1>9. DbInv
  BY <1>3, <1>4, <1>6, <1>7, <1>8 DEF DbInv
<1>10. AtInv
  BY DEF Init, AtInv
<1>. QED
  BY <1>9, <1>10 DEF MigrateInv

\* One statement.
LEMMA ExecEffect ==
  ASSUME NEW d \in Databases, NEW v \in Versions, NEW i \in Nat,
         NEW op, op = Scripts[v][i], NEW e, e = Exec(d, v, i)
  PROVE  /\ e \in Databases /\ e.recorded = d.recorded
         /\ e.done[v] >= d.done[v] /\ e.done[v] >= i
         /\ e.done[v] = d.done[v] \/ e.done[v] = i
         /\ \A w \in Versions : w # v => e.done[w] = d.done[w]
         /\ e.usage = IF op = "fill" /\ ~d.marked THEN "filled"
                      ELSE IF op = "clean" /\ d.usage = "filled" THEN "clean" ELSE d.usage
         /\ e.marked <=> (d.marked \/ op = "mark")
<1>. DEFINE m == Max({d.done[v], i})
            u == IF op = "fill" /\ ~d.marked THEN "filled"
                 ELSE IF op = "clean" /\ d.usage = "filled" THEN "clean" ELSE d.usage
            k == d.marked \/ op = "mark"
<1>1. /\ d.done \in [Versions -> Nat] /\ d.recorded \in SUBSET Versions
      /\ d.usage \in {"old", "filled", "clean"} /\ d.marked \in BOOLEAN
  BY DEF Databases
<1>2. m \in Nat /\ m >= d.done[v] /\ m >= i /\ (m = d.done[v] \/ m = i)
  <2>1. \A x, y \in Nat : \E z \in {x, y} : \A w \in {x, y} : z >= w
    OBVIOUS
  <2>2. d.done[v] \in Nat
    BY <1>1
  <2>3. m \in {d.done[v], i} /\ \A w \in {d.done[v], i} : m >= w
    BY <2>1, <2>2 DEF Max
  <2>. QED
    BY <2>2, <2>3
<1>. HIDE DEF m
<1>3. e = [[[d EXCEPT !.done = [d.done EXCEPT ![v] = m]] EXCEPT !.usage = u] EXCEPT !.marked = k]
  BY <1>1 DEF Exec, m, Databases
<1>4. [d.done EXCEPT ![v] = m] \in [Versions -> Nat]
  BY <1>1, <1>2
<1>5. u \in {"old", "filled", "clean"} /\ k \in BOOLEAN
  BY <1>1
<1>. HIDE DEF u, k
<1>6. e \in Databases
  BY <1>3, <1>4, <1>5 DEF Databases
<1>7. /\ e.done = [d.done EXCEPT ![v] = m] /\ e.recorded = d.recorded
      /\ e.usage = u /\ e.marked = k
  BY <1>3 DEF Databases
<1>8. e.done[v] = m /\ \A w \in Versions : w # v => e.done[w] = d.done[w]
  BY <1>1, <1>7
<1>. QED
  BY <1>2, <1>6, <1>7, <1>8 DEF u, k

\* A statement of the migrating process moves its script on.
LEMMA ExecStep ==
  ASSUME MigrateInv, LifecycleInv, NEW p \in Proc, pc[p] = "migrate",
         Pending(db) # {}, at[p] <= Len(Scripts[Script(db)]),
         db' = Exec(db, Script(db), at[p]),
         at' = [at EXCEPT ![p] = at[p] + 1],
         \A q \in Proc : pc'[q] = pc[q]
  PROVE  MigrateInv'
<1>. DEFINE v == Script(db)
            i == at[p]
            op == Scripts[v][i]
<1>1. PICK k \in 0 .. 8 : db.recorded = 1 .. k
  BY DEF MigrateInv, DbInv
<1>2. k < 8 /\ v = k + 1 /\ v \in Versions
  BY <1>1, NextScript
<1>3. /\ db \in Databases /\ db.done \in [Versions -> Nat] /\ at \in [Proc -> Nat]
      /\ Len(Scripts[v]) \in Nat /\ i \in Nat /\ db.done[v] \in Nat
      /\ db.done[v] <= Len(Scripts[v]) /\ i <= Len(Scripts[v])
  BY <1>2, ScriptFacts DEF MigrateInv, DbInv, AtInv, Databases
<1>4. i >= 1 /\ i <= db.done[v] + 1
  BY <1>3 DEF MigrateInv, AtInv, Progress
<1>5. /\ db' \in Databases /\ db'.recorded = 1 .. k
      /\ db'.done[v] >= i
      /\ db'.done[v] = db.done[v] \/ db'.done[v] = i
      /\ \A w \in Versions : w # v => db'.done[w] = db.done[w]
      /\ db'.usage = IF op = "fill" /\ ~db.marked THEN "filled"
                     ELSE IF op = "clean" /\ db.usage = "filled" THEN "clean" ELSE db.usage
      /\ db'.marked <=> (db.marked \/ op = "mark")
  BY <1>1, <1>2, <1>3, ExecEffect
<1>6. Pending(db') = Pending(db) /\ Script(db') = v
  BY <1>1, <1>5 DEF Pending, Script
<1>7. db.marked => db.usage = "clean"
  BY DEF MigrateInv, DbInv
<1>8. db.usage \in {"old", "filled", "clean"}
  BY <1>3 DEF Databases
<1>9. v # 8 => db'.usage = db.usage /\ (db'.marked <=> db.marked)
  <2>1. v # 8 => op \in {"create", "ensure"}
    BY <1>2, <1>3, <1>4, ScriptFacts
  <2>. QED
    BY <1>5, <2>1
<1>10. v = 8 => /\ i = 6 => op = "fill"
                /\ i = 7 => op = "clean"
                /\ i = 10 => op = "mark"
                /\ i \notin {6, 7, 10} => op = "ensure"
  <2>1. v = 8 => Scripts[v] = Telemetry /\ Len(Scripts[v]) = 30
    BY ScriptFacts, TelemetryScript, Zenon
  <2>2. \A l \in Nat : i <= l /\ l = 30 => i \in 1 .. 30
    <3>1. \A j, l \in Nat : j >= 1 /\ j <= l /\ l = 30 => j \in 1 .. 30
      OBVIOUS
    <3>. QED
      BY <1>3, <1>4, <3>1, Zenon
  <2>3. v = 8 => i \in 1 .. 30 /\ op = Telemetry[i]
    BY <1>3, <2>1, <2>2, Zenon
  <2>4. /\ Telemetry[6] = "fill" /\ Telemetry[7] = "clean" /\ Telemetry[10] = "mark"
        /\ \A j \in 1 .. 30 : j \notin {6, 7, 10} => Telemetry[j] = "ensure"
    BY TelemetryScript, Zenon
  <2>. QED
    BY <2>3, <2>4, Zenon
<1>11. v = 8 => /\ i > 6 => db.usage # "old"
                /\ i > 7 => db.usage = "clean"
                /\ i > 10 => db.marked
  BY DEF MigrateInv, AtInv, Progress
<1>12. v = 8 => /\ i + 1 > 6 => db'.usage # "old"
                /\ i + 1 > 7 => db'.usage = "clean"
                /\ i + 1 > 10 => db'.marked
                /\ db'.marked => db'.usage = "clean"
  BY <1>3, <1>5, <1>7, <1>8, <1>10, <1>11
<1>13. DbInv'
  <2>1. \A w \in Versions : db'.done[w] <= Len(Scripts[w])
    BY <1>3, <1>5 DEF MigrateInv, DbInv
  <2>2. v \notin 1 .. k
    BY <1>2
  <2>3. \A w \in db'.recorded : db'.done[w] = Len(Scripts[w])
    <3>1. \A w \in 1 .. k : w \in Versions
      BY DEF Versions
    <3>2. \A w \in 1 .. k : db.done[w] = Len(Scripts[w])
      BY <1>1, Zenon DEF MigrateInv, DbInv
    <3>. QED
      BY <1>5, <2>2, <3>1, <3>2, Zenon
  <2>4. db'.marked => db'.usage = "clean"
    BY <1>7, <1>9, <1>12
  <2>5. 8 \notin 1 .. k
    BY <1>2
  <2>. QED
    BY <1>5, <2>1, <2>3, <2>4, <2>5 DEF DbInv
<1>14. Progress(p)'
  <2>1. at'[p] = i + 1
    BY <1>3
  <2>2. i + 1 \in 1 .. Len(Scripts[v]) + 1 /\ i + 1 <= db'.done[v] + 1
    BY <1>3, <1>4, <1>5
  <2>. QED
    BY <1>6, <1>12, <2>1, <2>2 DEF Progress
<1>15. AtInv'
  <2>1. \A q \in Proc : q # p => at'[q] = at[q] /\ pc[q] # "migrate"
    <3>1. \A q \in Proc : pc[q] = "migrate" => file = q
      BY DEF LifecycleInv, Holders, Holding
    <3>. QED
      BY <1>3, <3>1
  <2>2. at' \in [Proc -> Nat]
    BY <1>3
  <2>3. \A q \in Proc : pc'[q] \in Before => at'[q] = 1
    BY <2>1 DEF Before, MigrateInv, AtInv
  <2>. QED
    BY <1>14, <2>1, <2>2, <2>3 DEF AtInv
<1>. QED
  BY <1>13, <1>15 DEF MigrateInv

\* The end of a script records its version.
LEMMA RecordStep ==
  ASSUME MigrateInv, LifecycleInv, NEW p \in Proc, pc[p] = "migrate",
         Pending(db) # {}, at[p] > Len(Scripts[Script(db)]),
         db' = Record(db, Script(db)),
         at' = [at EXCEPT ![p] = 1],
         \A q \in Proc : pc'[q] = pc[q]
  PROVE  MigrateInv'
<1>. DEFINE v == Script(db)
<1>1. PICK k \in 0 .. 8 : db.recorded = 1 .. k
  BY DEF MigrateInv, DbInv
<1>2. k < 8 /\ v = k + 1 /\ v \in Versions /\ db' = [db EXCEPT !.recorded = 1 .. k + 1]
  BY <1>1, NextScript
<1>3. /\ db \in Databases /\ at \in [Proc -> Nat]
      /\ Len(Scripts[v]) \in Nat /\ at[p] \in Nat /\ db.done[v] \in Nat
      /\ db.done[v] <= Len(Scripts[v])
  BY <1>2, ScriptFacts DEF MigrateInv, DbInv, AtInv, Databases
<1>4. Progress(p)
  BY DEF MigrateInv, AtInv
<1>5. db.done[v] = Len(Scripts[v])
  BY <1>3, <1>4 DEF Progress
<1>6. 1 .. k + 1 \subseteq Versions /\ k + 1 \in 0 .. 8 /\ 1 .. k + 1 = (1 .. k) \cup {v}
  BY <1>2 DEF Versions
<1>7. /\ db' \in Databases /\ db'.recorded = 1 .. k + 1
      /\ db'.done = db.done /\ db'.usage = db.usage /\ db'.marked = db.marked
  BY <1>2, <1>3, <1>6 DEF Databases
<1>8. v = 8 => db.marked
  <2>1. v = 8 => Len(Scripts[v]) = 30
    BY ScriptFacts, TelemetryScript
  <2>2. at[p] <= Len(Scripts[v]) + 1 /\ at[p] > Len(Scripts[v])
    BY <1>3, <1>4 DEF Progress
  <2>3. \A l \in Nat : at[p] > l /\ l = 30 => at[p] > 10
    BY <1>3
  <2>4. v = 8 => at[p] > 10
    BY <1>3, <2>1, <2>2, <2>3, Zenon
  <2>5. v = 8 /\ at[p] > 10 => db.marked
    BY <1>4 DEF Progress
  <2>. QED
    BY <2>4, <2>5
<1>9. DbInv'
  <2>1. \A w \in db'.recorded : db'.done[w] = Len(Scripts[w])
    BY <1>1, <1>5, <1>6, <1>7 DEF MigrateInv, DbInv
  <2>2. 8 \in db'.recorded => db'.marked
    BY <1>1, <1>6, <1>7, <1>8 DEF MigrateInv, DbInv
  <2>. QED
    BY <1>6, <1>7, <2>1, <2>2 DEF MigrateInv, DbInv
<1>10. AtInv'
  <2>1. \A q \in Proc : q # p => at'[q] = at[q] /\ pc[q] # "migrate"
    <3>1. \A q \in Proc : pc[q] = "migrate" => file = q
      BY DEF LifecycleInv, Holders, Holding
    <3>. QED
      BY <1>3, <3>1
  <2>2. at' \in [Proc -> Nat] /\ at'[p] = 1
    BY <1>3
  <2>3. \A q \in Proc : pc'[q] \in Before => at'[q] = 1
    BY <2>1, <2>2 DEF MigrateInv, AtInv
  <2>4. Pending(db') # {} => Progress(p)'
    <3>. SUFFICES ASSUME Pending(db') # {} PROVE Progress(p)'
      OBVIOUS
    <3>1. Script(db') \in Versions
      BY <1>6, <1>7, NextScript
    <3>2. Len(Scripts[Script(db')]) \in Nat /\ db'.done[Script(db')] \in Nat
      BY <1>7, <3>1, ScriptFacts DEF Databases
    <3>. QED
      BY <2>2, <3>2 DEF Progress
  <2>. QED
    BY <2>1, <2>2, <2>3, <2>4 DEF AtInv
<1>. QED
  BY <1>9, <1>10 DEF MigrateInv

\* A step that leaves the file and the scripts alone.
LEMMA FileKept ==
  ASSUME MigrateInv, UNCHANGED <<db, at>>,
         \A q \in Proc : /\ pc'[q] \in Before => pc[q] \in Before
                         /\ pc'[q] = "migrate" => pc[q] = "migrate" \/ pc[q] = "open"
  PROVE  MigrateInv'
<1>1. DbInv'
  BY DEF MigrateInv, DbInv
<1>2. ASSUME NEW q \in Proc, pc'[q] = "migrate", Pending(db) # {} PROVE Progress(q)
  <2>1. CASE pc[q] = "migrate"
    BY <1>2, <2>1 DEF MigrateInv, AtInv
  <2>2. CASE pc[q] = "open"
    <3>1. at[q] = 1
      BY <2>2 DEF MigrateInv, AtInv, Before
    <3>2. Script(db) \in Versions
      <4>1. PICK k \in 0 .. 8 : db.recorded = 1 .. k
        BY DEF MigrateInv, DbInv
      <4>. QED
        BY <1>2, <4>1, NextScript
    <3>3. Len(Scripts[Script(db)]) \in Nat /\ db.done[Script(db)] \in Nat
      BY <3>2, ScriptFacts DEF MigrateInv, DbInv, Databases
    <3>. QED
      BY <3>1, <3>3 DEF Progress
  <2>. QED
    BY <1>2, <2>1, <2>2
<1>3. AtInv'
  BY <1>2 DEF MigrateInv, AtInv, Progress
<1>. QED
  BY <1>1, <1>3 DEF MigrateInv

-----------------------------------------------------------------------------
Ended == {"closeDb", "stopPricing", "exited"}

\* A step of runServer: no way back to before the migrations, what has listened
\* has listened, and what has listened ends by way of writer.Stop.
Way(a, b) ==
  /\ b \in Before => a \in Before
  /\ b = "migrate" => a = "migrate" \/ a = "open"
  /\ a \in Listened => b \in Listened
  /\ b \in Ended => a \in Ended \/ a \notin Listened \/ a = "stopWriter"

LEMMA StepsWay ==
  ASSUME pc \in [Proc -> Places], NEW p \in Proc, NEW from \in Places, NEW to \in Places,
         Step(p, from, to), Way(from, to)
  PROVE  \A q \in Proc : Way(pc[q], pc'[q])
BY DEF Step, Way

LEMMA DiesWay ==
  ASSUME pc \in [Proc -> Places], NEW p \in Proc, pc' = [pc EXCEPT ![p] = "dead"]
  PROVE  \A q \in Proc : Way(pc[q], pc'[q])
<1>1. \A q \in Proc : pc'[q] = pc[q] \/ pc'[q] = "dead"
  OBVIOUS
<1>. QED
  BY <1>1 DEF Way, Before, Ended

LEMMA TakeoverWay ==
  ASSUME LifecycleInv, NEW p \in Proc, Takeover(p)
  PROVE  \A q \in Proc : Way(pc[q], pc'[q])
<1>0. pc \in [Proc -> Places] /\ targets \in [Proc -> SUBSET Proc]
  BY DEF LifecycleInv, Shapes
<1>1. CASE SendTerm(p)
  <2>1. PICK t \in targets[p] : SignalTerm(p, t)
    BY <1>1 DEF SendTerm
  <2>2. pc[p] = "terminate" /\ t \in Proc
    BY <1>0, <1>1 DEF SendTerm
  <2>3. CASE pc' = [pc EXCEPT ![p] = "waitTerm"]
    BY <1>0, <2>2, <2>3 DEF Way, Before, Ended
  <2>4. CASE pc' = [pc EXCEPT ![p] = "waitTerm", ![t] = "dead"]
    <3>1. \A q \in Proc : \/ pc'[q] = pc[q] \/ pc'[q] = "dead"
                          \/ pc[q] = "terminate" /\ pc'[q] = "waitTerm"
      BY <1>0, <2>2, <2>4
    <3>. QED
      BY <3>1 DEF Way, Before, Ended
  <2>. QED
    BY <2>1, <2>3, <2>4 DEF SignalTerm
<1>2. CASE ~SendTerm(p)
  <2>1. \/ Step(p, "probe", "open") \/ Step(p, "probe", "exited") \/ Step(p, "probe", "locate")
        \/ Step(p, "locate", "exited") \/ Step(p, "locate", "terminate")
        \/ Step(p, "waitTerm", "open") \/ Step(p, "waitKill", "open")
        \/ Step(p, "waitTerm", "waitKill")
    BY <1>2 DEF Takeover, Probe, Locate, WaitOver, Escalate
  <2>. QED
    BY <1>0, <2>1, StepsWay DEF Way, Before, Ended
<1>. QED
  BY <1>1, <1>2

LEMMA StartupWay ==
  ASSUME LifecycleInv, NEW p \in Proc, Startup(p)
  PROVE  \A q \in Proc : Way(pc[q], pc'[q])
<1>0. pc \in [Proc -> Places]
  BY DEF LifecycleInv, Shapes
<1>1. \/ Step(p, "open", "migrate") \/ Step(p, "open", "stopPricing") \/ Step(p, "open", "exited")
      \/ Step(p, "migrate", "migrate") \/ Step(p, "migrate", "closeDb")
      \/ Step(p, "migrate", "startWriter") \/ Step(p, "startWriter", "listen")
      \/ Step(p, "startWriter", "closeDb") \/ Step(p, "startWriter", "stopWriter")
      \/ Step(p, "listen", "bound") \/ Step(p, "listen", "stopWriter")
      \/ Step(p, "bound", "serving")
  BY DEF Startup, Open, Migrate, StartWriter, Listen, Arm
<1>. QED
  BY <1>0, <1>1, StepsWay DEF Way, Before, Ended

LEMMA ShutdownWay ==
  ASSUME LifecycleInv, NEW p \in Proc, Shutdown(p)
  PROVE  \A q \in Proc : Way(pc[q], pc'[q])
<1>0. pc \in [Proc -> Places]
  BY DEF LifecycleInv, Shapes
<1>1. \/ Step(p, "serving", "draining") \/ Step(p, "draining", "stopArchiver")
      \/ Step(p, "stopArchiver", "stopWriter") \/ Step(p, "stopWriter", "closeDb")
      \/ Step(p, "closeDb", "stopPricing") \/ Step(p, "stopPricing", "exited")
  BY DEF Shutdown, Drain, GrpcStopped, StopArchiver, StopWriter, CloseDb, StopPricing
<1>. QED
  BY <1>0, <1>1, StepsWay DEF Way, Before, Ended

LEMMA NextWay ==
  ASSUME LifecycleInv, [Next]_vars
  PROVE  \A q \in Proc : Way(pc[q], pc'[q])
<1>0. pc \in [Proc -> Places]
  BY DEF LifecycleInv, Shapes
<1>1. CASE pc' = pc
  BY <1>1 DEF Way
<1>2. ASSUME NEW p \in Proc,
             \/ Start(p) \/ Takeover(p) \/ Startup(p) \/ Shutdown(p)
             \/ Dies(p) \/ GiveUp(p) \/ ServeFails(p)
             \/ Accept(p) \/ Flush(p) \/ Crash(p) \/ Stop(p)
      PROVE  \A q \in Proc : Way(pc[q], pc'[q])
  <2>1. CASE Start(p) \/ GiveUp(p) \/ ServeFails(p)
    <3>1. \/ Step(p, "idle", "probe") \/ Step(p, "waitKill", "exited")
          \/ Step(p, "serving", "stopArchiver")
      BY <2>1 DEF Start, GiveUp, ServeFails
    <3>. QED
      BY <1>0, <3>1, StepsWay DEF Way, Before, Ended
  <2>2. CASE Takeover(p)
    BY <2>2, TakeoverWay
  <2>3. CASE Startup(p)
    BY <2>3, StartupWay
  <2>4. CASE Shutdown(p)
    BY <2>4, ShutdownWay
  <2>5. CASE Dies(p) \/ Crash(p)
    BY <1>0, <2>5, DiesWay DEF Dies, Crash
  <2>6. CASE Accept(p) \/ Flush(p) \/ Stop(p)
    BY <1>1, <2>6 DEF Accept, Flush, Stop
  <2>. QED
    BY <1>2, <2>1, <2>2, <2>3, <2>4, <2>5, <2>6
<1>. QED
  BY <1>1, <1>2 DEF Next, vars

\* Only Migrate touches the scripts.
LEMMA NextFile ==
  ASSUME [Next]_vars, \A p \in Proc : ~Migrate(p)
  PROVE  UNCHANGED <<db, at>>
BY DEF Next, vars, Start, Takeover, Probe, Locate, SendTerm, WaitOver, Escalate,
   Startup, Open, StartWriter, Listen, Arm, Shutdown, Drain, GrpcStopped,
   StopArchiver, StopWriter, CloseDb, StopPricing, Dies, GiveUp, ServeFails, Accept,
   Flush, Crash, Stop

LEMMA MigrateInvNext == MigrateInv /\ LifecycleInv /\ [Next]_vars => MigrateInv'
<1>. SUFFICES ASSUME MigrateInv, LifecycleInv, [Next]_vars PROVE MigrateInv'
  OBVIOUS
<1>1. CASE UNCHANGED <<db, at>>
  <2>1. \A q \in Proc : Way(pc[q], pc'[q])
    BY NextWay
  <2>. QED
    BY <1>1, <2>1, FileKept DEF Way
<1>2. ASSUME NEW p \in Proc, Migrate(p) PROVE MigrateInv'
  <2>0. pc \in [Proc -> Places] /\ at[p] \in Nat
    BY DEF LifecycleInv, Shapes, MigrateInv, AtInv
  <2>1. CASE UNCHANGED <<db, at>>
    BY <1>1, <2>1
  <2>2. CASE ~UNCHANGED <<db, at>>
    <3>1. Step(p, "migrate", "migrate")
      BY <1>2, <2>2 DEF Migrate
    <3>2. pc[p] = "migrate" /\ \A q \in Proc : pc'[q] = pc[q]
      BY <2>0, <3>1 DEF Step
    <3>3. CASE /\ Pending(db) # {} /\ at[p] <= Len(Scripts[Script(db)])
               /\ db' = Exec(db, Script(db), at[p])
               /\ at' = [at EXCEPT ![p] = at[p] + 1]
      BY <3>2, <3>3, ExecStep
    <3>4. CASE /\ Pending(db) # {} /\ ~(at[p] <= Len(Scripts[Script(db)]))
               /\ db' = Record(db, Script(db)) /\ at' = [at EXCEPT ![p] = 1]
      <4>1. Len(Scripts[Script(db)]) \in Nat
        <5>1. PICK k \in 0 .. 8 : db.recorded = 1 .. k
          BY DEF MigrateInv, DbInv
        <5>. QED
          BY <3>4, <5>1, NextScript, ScriptFacts
      <4>2. at[p] > Len(Scripts[Script(db)])
        BY <2>0, <3>4, <4>1
      <4>. QED
        BY <3>2, <3>4, <4>2, RecordStep
    <3>. QED
      BY <1>2, <2>2, <3>3, <3>4 DEF Migrate
  <2>. QED
    BY <2>1, <2>2
<1>. QED
  BY <1>1, <1>2, NextFile

\* What RunMigrations relies on in every state of the program.
LEMMA MigrateInvariant == Spec => []MigrateInv
<1>1. Init => LifecycleInv /\ MigrateInv
  BY LifecycleInvInit, MigrateInvInit
<1>2. (LifecycleInv /\ MigrateInv) /\ [Next]_vars => (LifecycleInv /\ MigrateInv)'
  BY LifecycleInvNext, MigrateInvNext
<1>. QED
  BY <1>1, <1>2, PTL DEF Spec

\* A version in schema_migrations has all its statements and decided old rows
\* behind it, and all the versions before it, wherever migrations were
\* interrupted and however often (RunMigrations).
THEOREM RecordedCompleteHolds == Spec => []RecordedComplete
<1>1. MigrateInv => RecordedComplete
  <2>. SUFFICES ASSUME MigrateInv PROVE RecordedComplete
    OBVIOUS
  <2>1. PICK k \in 0 .. 8 : db.recorded = 1 .. k
    BY DEF MigrateInv, DbInv
  <2>2. \A v \in db.recorded : db.done[v] = Len(Scripts[v])
    BY DEF MigrateInv, DbInv
  <2>3. 8 \in db.recorded => db.usage = "clean" /\ db.marked
    BY DEF MigrateInv, DbInv
  <2>4. \A v \in db.recorded : 1 .. v \subseteq db.recorded
    BY <2>1
  <2>. QED
    BY <2>2, <2>3, <2>4 DEF RecordedComplete
<1>. QED
  BY <1>1, MigrateInvariant, PTL

\* From version 6 on no statement of a migration fails because an interrupted
\* start has already run it: 007 and 008 hold no plain CREATE or ADD COLUMN.
THEOREM UpgradeRepeatableHolds == Spec => []UpgradeRepeatable
<1>1. MigrateInv => UpgradeRepeatable
  <2>. SUFFICES ASSUME MigrateInv, NEW p \in Proc, pc[p] = "migrate",
                      1 .. 6 \subseteq db.recorded, Pending(db) # {},
                      at[p] <= Len(Scripts[Script(db)])
               PROVE  ~Fails(db, Script(db), at[p])
    BY DEF UpgradeRepeatable
  <2>1. PICK k \in 0 .. 8 : db.recorded = 1 .. k
    BY DEF MigrateInv, DbInv
  <2>2. k < 8 /\ Script(db) = k + 1 /\ Script(db) \in Versions
    BY <2>1, NextScript
  <2>3. k >= 6
    <3>1. 6 \in 1 .. k
      BY <2>1
    <3>. QED
      BY <3>1
  <2>4. Script(db) = 7 \/ Script(db) = 8
    BY <2>2, <2>3
  <2>5. at[p] \in 1 .. Len(Scripts[Script(db)])
    <3>1. at[p] \in Nat /\ Len(Scripts[Script(db)]) \in Nat
      BY <2>2, ScriptFacts DEF MigrateInv, AtInv
    <3>2. Progress(p)
      BY DEF MigrateInv, AtInv
    <3>3. at[p] \in 1 .. Len(Scripts[Script(db)]) + 1
      BY <3>2, Zenon DEF Progress
    <3>4. \A l, i \in Nat : i <= l /\ i \in 1 .. l + 1 => i \in 1 .. l
      OBVIOUS
    <3>. QED
      BY <3>1, <3>3, <3>4, Zenon
  <2>6. CASE Script(db) = 7
    <3>1. Scripts[Script(db)][at[p]] = "ensure"
      BY <2>5, <2>6, ScriptFacts
    <3>. QED
      BY <3>1 DEF Fails
  <2>7. CASE Script(db) = 8
    <3>1. at[p] \in 1 .. 30 /\ Scripts[Script(db)] = Telemetry
      BY <2>5, <2>7, ScriptFacts, TelemetryScript
    <3>2. Telemetry[at[p]] # "create"
      BY <3>1, TelemetryScript
    <3>. QED
      BY <3>1, <3>2 DEF Fails
  <2>. QED
    BY <2>4, <2>6, <2>7
<1>. QED
  BY <1>1, MigrateInvariant, PTL

-----------------------------------------------------------------------------
(* Accepted rows, signals and counters. *)

RowShapes == /\ term \subseteq Proc /\ killed \subseteq Proc
             /\ buffered \subseteq Proc /\ outlived \subseteq Proc /\ flushErr \subseteq Proc
             /\ crashes \in Nat /\ faults \in Nat

\* Only what has listened has accepted rows, and what is past writer.Stop and
\* has some left was given them late, or could not write them.
RowsInv == /\ RowShapes
           /\ \A p \in outlived : pc[p] \in Listened
           /\ \A p \in buffered : /\ pc[p] \in Listened
                                  /\ pc[p] \in Ended => p \in outlived \cup flushErr

LEMMA RowsInvInit == Init => RowsInv
BY DEF Init, RowsInv, RowShapes

LEMMA RowShapesNext ==
  ASSUME LifecycleInv, RowShapes, [Next]_vars
  PROVE  RowShapes'
<1>0. targets \in [Proc -> SUBSET Proc]
  BY DEF LifecycleInv, Shapes
<1>1. CASE UNCHANGED <<term, killed, buffered, outlived, flushErr, crashes, faults>>
  BY <1>1 DEF RowShapes
<1>2. ASSUME NEW p \in Proc,
             \/ Start(p) \/ Takeover(p) \/ Startup(p) \/ Shutdown(p)
             \/ Dies(p) \/ GiveUp(p) \/ ServeFails(p)
             \/ Accept(p) \/ Flush(p) \/ Crash(p) \/ Stop(p)
      PROVE  RowShapes'
  <2>1. CASE Takeover(p)
    <3>1. CASE SendTerm(p)
      BY <1>0, <3>1 DEF SendTerm, SignalTerm, RowShapes, rows
    <3>2. CASE Probe(p) \/ Locate(p) \/ WaitOver(p) \/ Escalate(p)
      BY <1>0, <3>2 DEF Probe, Locate, WaitOver, Escalate, Fault, RowShapes, rows
    <3>. QED
      BY <2>1, <3>1, <3>2 DEF Takeover
  <2>2. CASE Startup(p)
    BY <2>2 DEF Startup, Open, Migrate, StartWriter, Listen, Arm, Fault, RowShapes, rows
  <2>3. CASE Shutdown(p)
    BY <2>3 DEF Shutdown, Drain, GrpcStopped, StopArchiver, StopWriter, CloseDb, StopPricing,
       Fault, RowShapes, rows
  <2>4. CASE Start(p) \/ Dies(p) \/ GiveUp(p) \/ ServeFails(p)
    BY <2>4 DEF Start, Dies, GiveUp, ServeFails, Fault, RowShapes, rows
  <2>5. CASE Accept(p) \/ Flush(p) \/ Crash(p) \/ Stop(p)
    BY <2>5 DEF Accept, Flush, Crash, Stop, RowShapes, rows
  <2>. QED
    BY <1>2, <2>1, <2>2, <2>3, <2>4, <2>5
<1>. QED
  BY <1>1, <1>2 DEF Next, vars

LEMMA RowsInvNext == RowsInv /\ LifecycleInv /\ [Next]_vars => RowsInv'
<1>. SUFFICES ASSUME RowsInv, LifecycleInv, [Next]_vars PROVE RowsInv'
  OBVIOUS
<1>1. \A q \in Proc : Way(pc[q], pc'[q])
  BY NextWay
<1>2. RowShapes /\ RowShapes'
  BY RowShapesNext DEF RowsInv
<1>0. pc \in [Proc -> Places]
  BY DEF LifecycleInv, Shapes
<1>3. \A q \in Proc : pc[q] \in Listened => pc'[q] \in Listened
  BY <1>1 DEF Way
<1>4. CASE UNCHANGED rows /\ \A q \in Proc : pc'[q] \in Ended => pc[q] # "stopWriter"
  <2>1. \A q \in buffered : pc'[q] \in Ended => pc[q] \in Ended
    BY <1>1, <1>2, <1>4 DEF RowsInv, RowShapes, Way
  <2>. QED
    BY <1>2, <1>3, <1>4, <2>1 DEF RowsInv, RowShapes, rows
<1>5. ASSUME NEW p \in Proc, StopWriter(p) PROVE RowsInv'
  <2>1. pc[p] = "stopWriter" /\ \A q \in Proc : q # p => pc'[q] = pc[q]
    BY <1>0, <1>5 DEF StopWriter, Step
  <2>2. /\ outlived' = outlived /\ flushErr \subseteq flushErr' /\ buffered' \subseteq buffered
        /\ p \notin buffered' \/ p \in flushErr'
    BY <1>5 DEF StopWriter
  <2>. QED
    BY <1>2, <1>3, <2>1, <2>2 DEF RowsInv, RowShapes
<1>6. ASSUME NEW p \in Proc, GrpcStopped(p) \/ ServeFails(p) PROVE RowsInv'
  <2>1. /\ pc[p] \in Listened /\ pc'[p] = "stopArchiver"
        /\ \A q \in Proc : q # p => pc'[q] = pc[q]
    BY <1>0, <1>6 DEF GrpcStopped, ServeFails, Step
  <2>2. /\ outlived \subseteq outlived' /\ outlived' \subseteq outlived \cup {p}
        /\ flushErr' = flushErr /\ buffered' = buffered
    BY <1>6 DEF GrpcStopped, ServeFails
  <2>3. pc'[p] \notin Ended
    BY <2>1 DEF Ended
  <2>. QED
    BY <1>2, <1>3, <2>1, <2>2, <2>3 DEF RowsInv, RowShapes
<1>7. ASSUME NEW p \in Proc, Accept(p) \/ Flush(p) PROVE RowsInv'
  <2>1. pc' = pc /\ outlived' = outlived /\ flushErr' = flushErr
    BY <1>7 DEF Accept, Flush
  <2>2. \/ buffered' \subseteq buffered
        \/ /\ buffered' = buffered \cup {p}
           /\ pc[p] \in {"bound", "serving", "draining"} \/ p \in outlived
    BY <1>7 DEF Accept, Flush
  <2>3. \A q \in buffered' : q \in buffered \/ /\ pc[q] \in Listened
                                               /\ pc[q] \in Ended => q \in outlived
    BY <2>2 DEF RowsInv, Ended
  <2>. QED
    BY <1>2, <2>1, <2>3 DEF RowsInv
<1>8. ASSUME NEW p \in Proc,
             \/ Start(p) \/ Takeover(p) \/ Startup(p) \/ Dies(p) \/ GiveUp(p)
             \/ Crash(p) \/ Stop(p) \/ Drain(p) \/ StopArchiver(p) \/ CloseDb(p)
             \/ StopPricing(p)
      PROVE  UNCHANGED rows /\ \A q \in Proc : pc'[q] \in Ended => pc[q] # "stopWriter"
  <2>1. UNCHANGED rows
    BY <1>8 DEF Start, Takeover, Probe, Locate, SendTerm, WaitOver, Escalate,
       Startup, Open, Migrate, StartWriter, Listen, Arm, Drain, StopArchiver, CloseDb,
       StopPricing, Dies, GiveUp, Crash, Stop
  <2>2. \/ \E from, to \in Places : Step(p, from, to) /\ from # "stopWriter"
        \/ pc' = pc \/ pc' = [pc EXCEPT ![p] = "dead"]
        \/ SendTerm(p)
    BY <1>8 DEF Start, Takeover, Probe, Locate, WaitOver, Escalate,
       Startup, Open, Migrate, StartWriter, Listen, Arm, Drain, StopArchiver, CloseDb,
       StopPricing, Dies, GiveUp, Crash, Stop
  <2>3. ASSUME NEW q \in Proc, pc[q] = "stopWriter" PROVE pc'[q] = "stopWriter" \/ pc'[q] = "dead"
    <3>1. CASE SendTerm(p)
      <4>1. PICK t \in targets[p] : SignalTerm(p, t)
        BY <3>1 DEF SendTerm
      <4>2. pc[p] = "terminate"
        BY <3>1 DEF SendTerm
      <4>. QED
        BY <1>0, <2>3, <4>1, <4>2 DEF SignalTerm
    <3>. QED
      BY <1>0, <2>2, <2>3, <3>1 DEF Step
  <2>. QED
    BY <2>1, <2>3 DEF Ended
<1>9. CASE UNCHANGED vars
  BY <1>9 DEF vars, rows, RowsInv, RowShapes
<1>. QED
  BY <1>4, <1>5, <1>6, <1>7, <1>8, <1>9 DEF Next, Shutdown

LEMMA RowsInvariant == Spec => []RowsInv
<1>1. Init => LifecycleInv /\ RowsInv
  BY LifecycleInvInit, RowsInvInit
<1>2. (LifecycleInv /\ RowsInv) /\ [Next]_vars => (LifecycleInv /\ RowsInv)'
  BY LifecycleInvNext, RowsInvNext
<1>. QED
  BY <1>1, <1>2, PTL DEF Spec

\* A process that ended by itself has written every row it acknowledged, unless
\* its handlers outlived the gRPC server or its last flush failed: the writer is
\* stopped after the server and before the file is closed.
THEOREM ExitDrainedHolds == Spec => []ExitDrained
<1>1. RowsInv => ExitDrained
  BY DEF RowsInv, ExitDrained, Ended
<1>. QED
  BY <1>1, RowsInvariant, PTL

\* Every variable of the lifecycle has its type.
THEOREM LifecycleTypes == Spec => []TypeOK
<1>1. LifecycleInv /\ MigrateInv /\ RowsInv => TypeOK
  BY DEF LifecycleInv, Shapes, MigrateInv, DbInv, AtInv, RowsInv, RowShapes, TypeOK
<1>. QED
  BY <1>1, LifecycleInvariant, MigrateInvariant, RowsInvariant, PTL
=============================================================================
