-------------------------- MODULE WorkerRegistry --------------------------
(***************************************************************************)
(* WorkerRegistry: workers registered by name in the memory of a process,  *)
(* recorded on the ledger, listed in worker_projection; and                *)
(* dispatch_by_name, which finds a worker there.  The memory is gone after *)
(* a restart, the ledger and the table are not.                            *)
(***************************************************************************)
EXTENDS RecordLedger

VARIABLES
  workers,      \* _workers: the names this process has registered
  boot,         \* how long the ledger was when this process started
  workerTable   \* worker_projection: the registering event of each name, or NoId

registryVars == <<workers, boot, workerTable>>

RegistrationEvent(t, n) == [EventAbout(t, NoIntent) EXCEPT !.name = n]

(* INSERT OR IGNORE.                                                       *)
ReplaceWorkerRow(n) == workerTable' = [workerTable EXCEPT ![n] = Here]      \* mutant: an upsert

InsertWorkerRow(n) ==
  workerTable' = [workerTable EXCEPT ![n] = IF @ = NoId THEN Here ELSE @]

(* A worker that has no usable name.                                       *)
RegisterNameless ==      \* mutant: the name is not looked at
  /\ CanCall("registry")
  /\ Append1(RegistrationEvent("worker_registered", NoName))
  /\ workers' = workers \union {NoName}
  /\ UNCHANGED <<stale, faults, boot, workerTable>>

RegisterInvalid ==
  /\ CanCall("registry")
  /\ Record(RegistrationEvent("worker_registration_rejected", NoName))
  /\ UNCHANGED registryVars

RegisterWorkerUnconfirmed(n) ==      \* mutant: stores the worker though the append failed
  /\ CanCall("registry")
  /\ IF n \in workers
     THEN Record(RegistrationEvent("worker_registration_rejected", n)) /\ UNCHANGED registryVars
     ELSE /\ \/ Append1(RegistrationEvent("worker_registered", n))
                /\ TableWrite("workers", InsertWorkerRow(n), UNCHANGED workerTable)
             \/ AppendFails /\ UNCHANGED workerTable
          /\ workers' = workers \union {n}
          /\ UNCHANGED boot

(* register_worker: first the ledger, then the memory, then the table.     *)
RegisterWorker(n) ==
  /\ CanCall("registry")
  /\ \/ /\ n \in workers
        /\ Record(RegistrationEvent("worker_registration_rejected", n))
        /\ UNCHANGED registryVars
     \/ /\ n \notin workers
        /\ Append1(RegistrationEvent("worker_registered", n))
        /\ workers' = workers \union {n}
        /\ TableWrite("workers", InsertWorkerRow(n), UNCHANGED workerTable)
        /\ UNCHANGED boot
     \/ /\ n \notin workers
        /\ AppendFails
        /\ UNCHANGED registryVars

Restart ==
  /\ "registry" \in scope.parts
  /\ boot < Len(ledger)
  /\ workers' = {}
  /\ boot' = Len(ledger)
  /\ UNCHANGED <<ledgerVars, workerTable>>

(* rebuild_worker_projection: the first registration of a name is the one  *)
(* that stays.                                                             *)
Registrations(L, n) == {k \in OfType(L, {"worker_registered"}) : L[k].name = n}

RebuiltWorkerTable(L) ==
  [n \in Names |-> IF Registrations(L, n) = {} THEN NoId ELSE FirstOf(Registrations(L, n))]

RebuildWorkerProjection ==
  /\ "registry" \in scope.parts
  /\ Rebuild("workers")
  /\ workerTable' = RebuiltWorkerTable(ledger)
  /\ UNCHANGED <<workers, boot>>

RegistryInit ==
  /\ workers = {}
  /\ boot = 0
  /\ workerTable = [n \in Names |-> NoId]

RegistryStep ==
  \/ RegisterInvalid
  \/ \E n \in Names : RegisterWorker(n)
  \/ Restart
  \/ RebuildWorkerProjection

RegistryTypeOK ==
  /\ workers \subseteq Names
  /\ boot \in Nat
  /\ workerTable \in [Names -> Nat]

===========================================================================
