-------------------------- MODULE ClientLifecycle --------------------------
(***************************************************************************)
(* Clients come and go (internal/wsmethods/clients_manager.go) and their   *)
(* crafting workers with them (internal/services/crafter/                  *)
(* worker_factory.go, worker.go).  A login registers the client of its     *)
(* connection; the factory stops the worker of the client's role, if there *)
(* is one, and starts another.  When a connection ends, the factory stops  *)
(* and deletes the worker that the role has by then.  To stop a worker is  *)
(* to wait until its process() has ended, which calls the storage client   *)
(* and for that reads the table of clients.                                *)
(*                                                                         *)
(* The clients manager's lock is held by removals while they wait for a    *)
(* worker; everybody else holds it for one step.  As Go has it, a writer   *)
(* that waits keeps new readers out.  A connection logs in at most once.   *)
(* Assumed: RegisterClient is given the properties that the client of a    *)
(* role needs.  The login of this commit gives it none, and clients with   *)
(* crafting workers are refused before anything here happens.              *)
(***************************************************************************)
EXTENDS FiniteSets

CONSTANTS
  Conns,   \* connections, numbered once and for all by the websocket server
  Roles,   \* client.Role: the id of a worker
  RoleOf,  \* connection -> its client's role
  Nobody,
  AfterRace \* whether behaviours are followed past the first named race

ASSUME LifecycleAssumption ==
  RoleOf \in [Conns -> Roles] /\ Nobody \notin Conns /\ AfterRace \in BOOLEAN

VARIABLES
  clients,  \* clients of the clients manager, by connection
  workers,  \* workers of the factory: role -> the connection it was made for
  fmu,      \* which registration has the factory's lock
  run,      \* where the goroutine of a connection's worker is
  stopped,  \* CraftWorker.stopped
  reg,      \* where the registration of a connection is
  rem,      \* where its removal is
  victim,   \* the worker that a removal stops
  down,     \* the server has panicked
  latest,   \* history: role -> the last connection that got a worker
  crossed   \* history: one of the four named races has happened

factory == <<workers, fmu, latest>>
goroutines == <<run, stopped>>
lifeVars == <<clients, factory, goroutines, reg, rem, victim, down, crossed>>

LifeInit ==
  /\ clients = {} /\ workers = [r \in Roles |-> Nobody] /\ fmu = Nobody
  /\ run = [c \in Conns |-> "none"] /\ stopped = [c \in Conns |-> FALSE]
  /\ reg = [c \in Conns |-> "none"] /\ rem = [c \in Conns |-> "none"]
  /\ victim = [c \in Conns |-> Nobody]
  /\ down = FALSE /\ crossed = FALSE /\ latest = [r \in Roles |-> Nobody]

Running(w) == run[w] \in {"top", "process", "call", "wait", "done"}

\* Who has the clients manager's lock for reading, and who waits to write.
Readers == {c \in Conns : rem[c] \in {"look", "stop", "send", "delete"}}
Writers == {c \in Conns : reg[c] = "lock" \/ rem[c] = "lock"}

Register(c, label) == reg' = [reg EXCEPT ![c] = label]
Remove(c, label) == rem' = [rem EXCEPT ![c] = label]

\* done <- true is received by the goroutine between two runs of process().
Receives(w) ==
  /\ run[w] \in {"wait", "done"}
  /\ run' = [run EXCEPT ![w] = "gone"]

-----------------------------------------------------------------------------
\* RegisterClient, by a goroutine that runs a login.

LogIn(c) ==
  /\ reg[c] = "none" /\ rem[c] = "none"
  /\ Register(c, "lock")
  /\ UNCHANGED <<clients, factory, goroutines, rem, victim, down, crossed>>

\* The connection may have been removed by now (first race).
Insert(c) ==
  /\ reg[c] = "lock" /\ Readers = {}
  /\ clients' = clients \union {c}
  /\ crossed' = (crossed \/ rem[c] # "none")
  /\ Register(c, "announce")
  /\ UNCHANGED <<factory, goroutines, rem, victim, down>>

\* Mutant: the new worker is not stored.
NotStored(c) ==
  /\ UNCHANGED workers
  /\ latest' = [latest EXCEPT ![RoleOf[c]] = c]

HasWorker(c) ==
  /\ workers' = [workers EXCEPT ![RoleOf[c]] = c]
  /\ latest' = [latest EXCEPT ![RoleOf[c]] = c]

\* Mutant: the previous worker is not stopped.
InstallOver(c) ==
  /\ reg[c] = "announce" /\ fmu = Nobody
  /\ HasWorker(c)
  /\ run' = [run EXCEPT ![c] = "top"]
  /\ Register(c, "done")
  /\ UNCHANGED <<clients, fmu, stopped, rem, victim, down, crossed>>

\* NewWorker, when the previous worker need not be stopped: there is none or
\* somebody else is stopping it.
Install(c) ==
  /\ reg[c] = "announce" /\ fmu = Nobody
  /\ workers[RoleOf[c]] # Nobody => stopped[workers[RoleOf[c]]]
  /\ HasWorker(c)
  /\ run' = [run EXCEPT ![c] = "top"]
  /\ Register(c, "done")
  /\ UNCHANGED <<clients, fmu, stopped, rem, victim, down, crossed>>

\* Otherwise the lock is kept until the previous worker has ended.
Replace(c) ==
  LET previous == workers[RoleOf[c]] IN
  /\ reg[c] = "announce" /\ fmu = Nobody
  /\ previous # Nobody /\ ~stopped[previous]
  /\ fmu' = c
  /\ Register(c, "stop")
  /\ UNCHANGED <<clients, workers, latest, goroutines, rem, victim, down, crossed>>

\* Somebody may have marked the worker since it was looked at: both send, and
\* one is never received (second race).
Mark(w) ==
  /\ stopped' = [stopped EXCEPT ![w] = TRUE]
  /\ crossed' = (crossed \/ stopped[w])

ReplaceMarks(c) ==
  /\ reg[c] = "stop"
  /\ Mark(workers[RoleOf[c]])
  /\ Register(c, "send")
  /\ UNCHANGED <<clients, factory, run, rem, victim, down>>

\* Mutant: the lock is not released.
ReplacedLocked(c) ==
  LET previous == workers[RoleOf[c]] IN
  /\ reg[c] = "send"
  /\ run[previous] \in {"wait", "done"}
  /\ run' = [run EXCEPT ![previous] = "gone", ![c] = "top"]
  /\ HasWorker(c)
  /\ Register(c, "done")
  /\ UNCHANGED <<clients, fmu, stopped, rem, victim, down, crossed>>

Replaced(c) ==
  LET previous == workers[RoleOf[c]] IN
  /\ reg[c] = "send"
  /\ run[previous] \in {"wait", "done"}
  /\ run' = [run EXCEPT ![previous] = "gone", ![c] = "top"]
  /\ HasWorker(c)
  /\ fmu' = Nobody
  /\ Register(c, "done")
  /\ UNCHANGED <<clients, stopped, rem, victim, down, crossed>>

-----------------------------------------------------------------------------
\* RemoveClient, by the goroutine that saw the connection end.

Disconnect(c) ==
  /\ rem[c] = "none" /\ reg[c] # "none"
  /\ Remove(c, "begin")
  /\ UNCHANGED <<clients, factory, goroutines, reg, victim, down, crossed>>

Enter(c) ==
  /\ rem[c] = "begin" /\ Writers = {}
  /\ Remove(c, "look")
  /\ UNCHANGED <<clients, factory, goroutines, reg, victim, down, crossed>>

\* A client that is not registered has no worker.
NotRegistered(c) ==
  /\ rem[c] = "look" /\ c \notin clients
  /\ Remove(c, "lock")
  /\ UNCHANGED <<clients, factory, goroutines, reg, victim, down, crossed>>

\* HandleClientDisconnected looks at the role's worker without the factory's
\* lock: it may be another connection's (third race), or there may be none,
\* because it was deleted or the registration has not got that far (first).
Look(c) ==
  LET w == workers[RoleOf[c]] IN
  /\ rem[c] = "look" /\ c \in clients
  /\ IF w = Nobody
     THEN down' = TRUE /\ UNCHANGED <<rem, victim>>
     ELSE /\ Remove(c, IF stopped[w] THEN "delete" ELSE "stop")
          /\ victim' = [victim EXCEPT ![c] = w]
          /\ UNCHANGED down
  /\ crossed' = (crossed \/ reg[c] # "done" \/ w \notin {c, Nobody})
  /\ UNCHANGED <<clients, factory, goroutines, reg>>

Marks(c) ==
  /\ rem[c] = "stop"
  /\ Mark(victim[c])
  /\ Remove(c, "send")
  /\ UNCHANGED <<clients, factory, run, reg, victim, down>>

Sent(c) ==
  /\ rem[c] = "send"
  /\ Receives(victim[c])
  /\ Remove(c, "delete")
  /\ UNCHANGED <<clients, factory, stopped, reg, victim, down, crossed>>

\* Mutant: the lock of the clients manager is kept.
DeleteLocked(c) ==
  /\ rem[c] = "delete" /\ fmu = Nobody
  /\ workers' = [workers EXCEPT ![RoleOf[c]] = Nobody]
  /\ UNCHANGED <<clients, fmu, latest, goroutines, reg, rem, victim, down, crossed>>

\* The role's worker is deleted, whichever it is by now (fourth race).
Delete(c) ==
  /\ rem[c] = "delete" /\ fmu = Nobody
  /\ workers' = [workers EXCEPT ![RoleOf[c]] = Nobody]
  /\ crossed' = (crossed \/ workers[RoleOf[c]] # victim[c])
  /\ Remove(c, "lock")
  /\ UNCHANGED <<clients, fmu, latest, goroutines, reg, victim, down>>

Removed(c) ==
  /\ rem[c] = "lock" /\ Readers = {}
  /\ clients' = clients \ {c}
  /\ Remove(c, "gone")
  /\ UNCHANGED <<factory, goroutines, reg, victim, down, crossed>>

-----------------------------------------------------------------------------
\* The goroutine of a worker.

To(w, label) == run' = [run EXCEPT ![w] = label]

\* cycle: every 30 s, or after a ping.
Cycle(w) ==
  /\ run[w] \in {"top", "wait"}
  /\ To(w, IF stopped[w] THEN "done" ELSE "process")

\* process() calls the storage, for which the storage client is looked up.
Process(w) ==
  \/ run[w] = "process" /\ (To(w, "call") \/ To(w, "wait"))
  \/ run[w] = "call" /\ Writers = {} /\ To(w, "process")

Goroutine(w) ==
  /\ Cycle(w) \/ Process(w)
  /\ UNCHANGED <<clients, factory, stopped, reg, rem, victim, down, crossed>>

\* process() ends: it calls the storage finitely often.
ProcessEnds(w) ==
  /\ run[w] = "process" /\ To(w, "wait")
  /\ UNCHANGED <<clients, factory, stopped, reg, rem, victim, down, crossed>>

-----------------------------------------------------------------------------
Registration(c) ==
  Insert(c) \/ Install(c) \/ Replace(c) \/ ReplaceMarks(c) \/ Replaced(c)
Removal(c) ==
  Enter(c) \/ NotRegistered(c) \/ Look(c) \/ Marks(c) \/ Sent(c) \/ Delete(c) \/ Removed(c)

\* Nothing is claimed of what follows a race: a bound may end behaviours there.
Going == ~down /\ (crossed => AfterRace)

LifeNext ==
  /\ Going
  /\ \E c \in Conns :
       LogIn(c) \/ Disconnect(c) \/ Registration(c) \/ Removal(c) \/ Goroutine(c)

LifeSpec == LifeInit /\ [][LifeNext]_lifeVars

\* Goroutines run; calls of process() have timeouts; Go serves those that wait
\* for a lock in their order.
LifeFairness ==
  \A c \in Conns :
    /\ WF_lifeVars(Going /\ Registration(c)) /\ SF_lifeVars(Going /\ Removal(c))
    /\ WF_lifeVars(Going /\ Goroutine(c)) /\ SF_lifeVars(Going /\ ProcessEnds(c))

LifeFairSpec == LifeSpec /\ LifeFairness

-----------------------------------------------------------------------------
\* Properties.

\* All parts have their types; the factory's lock is held exactly while a
\* registration stops a worker, and a removal that stops one knows which.
LifeTypeOK ==
  /\ clients \subseteq Conns
  /\ workers \in [Roles -> Conns \union {Nobody}]
  /\ latest \in [Roles -> Conns \union {Nobody}]
  /\ \A c \in Conns : fmu = c <=> reg[c] \in {"stop", "send"}
  /\ run \in [Conns -> {"none", "top", "process", "call", "wait", "done", "gone"}]
  /\ stopped \in [Conns -> BOOLEAN]
  /\ reg \in [Conns -> {"none", "lock", "announce", "stop", "send", "done"}]
  /\ rem \in [Conns -> {"none", "begin", "look", "stop", "send", "delete", "lock", "gone"}]
  /\ \A c \in Conns : rem[c] \in {"stop", "send", "delete"} => victim[c] \in Conns

\* When nobody comes or goes, the client that logged in last for a role has the
\* role's worker as long as it is connected, the role has none afterwards (even
\* if others of its clients still are connected), and no other goroutine runs
\* for the role.  Apart from four
\* races: a registration that overlaps the removal of its connection, two
\* stops of one worker, a removal that stops another connection's worker, and
\* one that deletes a worker that came after the one it stopped.
Quiet == \A c \in Conns : reg[c] \in {"none", "done"} /\ rem[c] \in {"none", "gone"}
WorkersMatch ==
  (Quiet /\ ~crossed /\ ~down) =>
    \A r \in Roles :
      LET online == {c \in clients : RoleOf[c] = r} IN
      /\ \A c \in online : rem[c] = "none"
      /\ workers[r] = IF latest[r] \in online THEN latest[r] ELSE Nobody
      /\ \A w \in Conns : RoleOf[w] = r =>
           (Running(w) <=> w = workers[r]) /\ (Running(w) => ~stopped[w])

\* The server panics where a removal finds no worker for its role.  Without one
\* of the four races that happens only to a client that was not the last of its
\* role to log in, after the last one was removed: to nobody whose role was his
\* alone.
PanicsExplained ==
  down => crossed \/ \E c \in Conns : rem[c] = "look" /\ latest[RoleOf[c]] # c

\* Every removal ends: Stop returns although process() may take long and needs
\* the lock that is held meanwhile.  Apart from a panic, from two stops of one
\* worker, and from a deadlock: somebody waits to change the table of clients
\* while a removal that reads it waits for a worker that wants to read it.
Deadlock ==
  /\ Readers # {} /\ Writers # {}
  /\ \E w \in Conns : run[w] = "call" /\ stopped[w]
RemovalsEnd ==
  \A c \in Conns : rem[c] = "begin" ~> rem[c] = "gone" \/ down \/ crossed \/ Deadlock
=============================================================================
