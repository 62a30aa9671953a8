------------------------------ MODULE Migrator ------------------------------
(***************************************************************************)
(* Schema migrations (internal/postgres/migrate.go): several processes run *)
(* serverflow-admin migrate up at once, each with the migrations embedded  *)
(* in its own binary, taking turns through a session advisory lock; each   *)
(* migration is one transaction. The usage consumer (cmd/usage-consumer)   *)
(* reads the state without the lock and starts only on a complete schema.  *)
(* A process can die at any step, which ends its session.                  *)
(***************************************************************************)
EXTENDS Naturals, Sequences, FiniteSets

CONSTANTS MigProcs, MigFiles,  \* the migrators, and the files each binary embeds, by version and checksum
          MigReader,           \* the files a consumer's binary embeds
          MigMaxFaults

MigAll == UNION {{MigFiles[p][i] : i \in DOMAIN MigFiles[p]} : p \in MigProcs}

\* load refuses files that are not numbered without gaps or duplicates: no file comes twice.
ASSUME MigAssumption ==
  /\ MigMaxFaults \in Nat /\ DOMAIN MigFiles = MigProcs /\ "none" \notin MigProcs
  /\ \A p \in MigProcs :
       /\ MigFiles[p] \in Seq(MigAll)
       /\ \A i, j \in 1..Len(MigFiles[p]) : MigFiles[p][i] = MigFiles[p][j] => i = j
  /\ MigReader \in Seq({MigReader[i] : i \in DOMAIN MigReader})

VARIABLES
  migApplied,                 \* schema_migrations
  migRuns,                    \* history: how often each file's SQL took effect
  migLock,                    \* the session that holds the advisory lock, "none" when free
  migAt, migSeen, migWhy,     \* each migrator: where it is, the rows it read, why it failed
  migReader,                  \* the consumer: "starting", "running" or "refused"
  migFaults

migVars == <<migApplied, migRuns, migLock, migAt, migSeen, migWhy, migReader, migFaults>>

MigInit ==
  /\ migApplied = <<>> /\ migRuns = [f \in MigAll |-> 0] /\ migLock = "none"
  /\ migAt = [p \in MigProcs |-> "lock"] /\ migSeen = [p \in MigProcs |-> <<>>] /\ migWhy = [p \in MigProcs |-> "none"]
  /\ migReader = "starting" /\ migFaults = 0

MigFault == migFaults < MigMaxFaults /\ migFaults' = migFaults + 1

\* The end of migrateUp: the deferred unlock.
MigEnd(p, how, why) ==
  /\ migAt' = [migAt EXCEPT ![p] = how] /\ migWhy' = [migWhy EXCEPT ![p] = why]
  /\ migLock' = IF migLock = p THEN "none" ELSE migLock

\* takeMigrateLock: the lock is polled; while another session holds it, until the wait is over.
MigTakeLock(p) ==
  /\ migAt[p] = "lock"
  /\ \/ migLock = "none" /\ migLock' = p /\ migAt' = [migAt EXCEPT ![p] = "read"] /\ UNCHANGED migWhy
     \/ migLock # "none" /\ MigEnd(p, "failed", "waited")
  /\ UNCHANGED <<migApplied, migRuns, migSeen, migReader, migFaults>>

\* checkApplied: what the database recorded is a prefix of what the binary embeds, unchanged.
MigKnown(applied, all) == Len(applied) <= Len(all) /\ applied = SubSeq(all, 1, Len(applied))

MigReadApplied(p) ==
  /\ migAt[p] = "read"
  /\ IF MigKnown(migApplied, MigFiles[p])
     THEN migSeen' = [migSeen EXCEPT ![p] = migApplied] /\ migAt' = [migAt EXCEPT ![p] = "apply"] /\ UNCHANGED <<migLock, migWhy>>
     ELSE MigEnd(p, "failed", "unknown") /\ UNCHANGED migSeen
  /\ UNCHANGED <<migApplied, migRuns, migReader, migFaults>>

(* Mutant: the row is written outside the transaction of the SQL. *)
MigTxRecordOnly(p) ==
  LET f == MigFiles[p][Len(migSeen[p]) + 1] IN
  IF Len(migApplied) = Len(migSeen[p])
  THEN migApplied' \in {migApplied, Append(migApplied, f)} /\ migRuns' = [migRuns EXCEPT ![f] = @ + 1]
  ELSE UNCHANGED <<migApplied, migRuns>>

\* The transaction of one migration: the SQL and its row. The version is the table's primary key.
MigTx(p) ==
  LET f == MigFiles[p][Len(migSeen[p]) + 1] IN
  IF Len(migApplied) = Len(migSeen[p])
  THEN migApplied' = Append(migApplied, f) /\ migRuns' = [migRuns EXCEPT ![f] = @ + 1]
  ELSE UNCHANGED <<migApplied, migRuns>>

\* applyOne for the next pending file. The call may fail, the transaction done or not.
MigApplyOne(p) ==
  /\ migAt[p] = "apply" /\ Len(migSeen[p]) < Len(MigFiles[p])
  /\ \/ /\ MigTx(p) /\ UNCHANGED migFaults
        /\ IF Len(migApplied) = Len(migSeen[p])
           THEN migSeen' = [migSeen EXCEPT ![p] = migApplied'] /\ UNCHANGED <<migAt, migWhy, migLock>>
           ELSE MigEnd(p, "failed", "conflict") /\ UNCHANGED migSeen
     \/ /\ MigFault /\ (MigTx(p) \/ UNCHANGED <<migApplied, migRuns>>)
        /\ MigEnd(p, "failed", "fault") /\ UNCHANGED migSeen
  /\ UNCHANGED migReader

MigDone(p) ==
  /\ migAt[p] = "apply" /\ Len(migSeen[p]) = Len(MigFiles[p]) /\ MigEnd(p, "done", "none")
  /\ UNCHANGED <<migApplied, migRuns, migSeen, migReader, migFaults>>

\* A statement fails or the process dies: its session ends, and the lock with it.
MigCrash(p) ==
  /\ migAt[p] \in {"lock", "read", "apply"} /\ MigFault /\ MigEnd(p, "failed", "fault")
  /\ UNCHANGED <<migApplied, migRuns, migSeen, migReader>>

\* The operator runs it again.
MigAgain(p) ==
  /\ migAt[p] = "failed" /\ migWhy[p] \in {"fault", "waited"}
  /\ migAt' = [migAt EXCEPT ![p] = "lock"] /\ migSeen' = [migSeen EXCEPT ![p] = <<>>] /\ migWhy' = [migWhy EXCEPT ![p] = "none"]
  /\ UNCHANGED <<migApplied, migRuns, migLock, migReader, migFaults>>

\* openStore: MigrationStatuses, and every one of them applied.
MigOpenStore ==
  /\ migReader \in {"starting", "refused"}
  /\ migReader' = IF MigKnown(migApplied, MigReader) /\ Len(migApplied) = Len(MigReader) THEN "running" ELSE "refused"
  /\ UNCHANGED <<migApplied, migRuns, migLock, migAt, migSeen, migWhy, migFaults>>

MigNext ==
  \/ \E p \in MigProcs : MigTakeLock(p) \/ MigReadApplied(p) \/ MigApplyOne(p) \/ MigDone(p) \/ MigCrash(p) \/ MigAgain(p)
  \/ MigOpenStore

MigSpec == MigInit /\ [][MigNext]_migVars

-----------------------------------------------------------------------------
(* Properties. *)

\* One migrator at a time is past the lock.
MigTurns == \A p \in MigProcs : migAt[p] \in {"read", "apply"} => migLock = p

\* Whatever dies or fails in between, a migration takes effect once and is recorded exactly when it has, and what was
\* read under the lock stays what the database holds.
MigOnce ==
  /\ \A f \in MigAll : migRuns[f] = Cardinality({i \in DOMAIN migApplied : migApplied[i] = f}) /\ migRuns[f] <= 1
  /\ \A p \in MigProcs : migAt[p] = "apply" => migSeen[p] = migApplied

\* "Safe to run from several processes at once": nobody fails for having met another migrator, except by waiting too long.
MigNobodyCollides == \A p \in MigProcs : migWhy[p] # "conflict"

\* A migrator that reports success leaves the schema it knows, and a consumer that runs found the one it needs.
MigSchemaKnown ==
  /\ \A p \in MigProcs : migAt[p] = "done" => SubSeq(migApplied, 1, Len(MigFiles[p])) = MigFiles[p]
  /\ migReader = "running" => SubSeq(migApplied, 1, Len(MigReader)) = MigReader

\* Migrators take turns, apply each file once, never trip over one another, and success means the schema is there
\* (migrateUp, takeMigrateLock, applyOne, openStore).
MigSafe == MigTurns /\ MigOnce /\ MigNobodyCollides /\ MigSchemaKnown
=============================================================================
