---------------------------- MODULE UsageConsumer ----------------------------
(***************************************************************************)
(* Usage records: members of the consumer group (internal/usage.Consumer   *)
(* over internal/kafka.Consumer) read one partition of the lifecycle topic *)
(* and record its terminal events in PostgreSQL (internal/postgres/usage). *)
(* Rows first, offsets afterwards. A member can crash at any step, the     *)
(* database can fail any call (with or without having done it), a commit   *)
(* can fail, the broker can give the partition to another member: between  *)
(* two batches, and in the middle of one, when the member has held the     *)
(* rebalance back for longer than the broker waits.                        *)
(***************************************************************************)
EXTENDS Integers, FiniteSets, Sequences

CONSTANTS UseMembers,
          UseLog,          \* the partition: what each record is, and of which request
          UseBatchSize, UseCommitTries,
          UseMaxFaults     \* crashes, failed calls and rebalances together

\* A record: a terminal event that the database takes ("row") or refuses ("bad"), another event ("skip"), or one
\* that cannot be used ("poison": too large, another version, malformed, invalid).
ASSUME UseAssumption ==
  /\ UseLog \in Seq([kind : {"row", "bad", "skip", "poison"}, req : Nat])
  /\ UseBatchSize \in Nat \ {0} /\ UseCommitTries \in Nat \ {0} /\ UseMaxFaults \in Nat

VARIABLES
  useMember,                 \* each member: where it is, its fetch position, its batch, the rows left to write singly
  useOwner,                  \* the member the partition is assigned to, "none" between assignments
  useCommitted,              \* the group's committed offset
  useRows, useRejects,       \* the tables: how often each request's row is stored, the rejected offsets
  useFaults

useVars == <<useMember, useOwner, useCommitted, useRows, useRejects, useFaults>>

useDB == <<useRows, useRejects>>

UseOffsets == 1..Len(UseLog)

UseRequests == {UseLog[o].req : o \in UseOffsets}

\* held: rebalances are held back (a poll returned records and neither Commit nor another Poll followed).
UseFresh(pos) == [at |-> "poll", pos |-> pos, batch |-> {}, held |-> FALSE, single |-> {}, bad |-> {}, tries |-> 0]

UseInit ==
  /\ useMember = [m \in UseMembers |-> UseFresh(0)] /\ useOwner = "none" /\ useCommitted = 0
  /\ useRows = [r \in UseRequests |-> 0] /\ useRejects = {} /\ useFaults = 0

UseGo(m, rec) == useMember' = [useMember EXCEPT ![m] = rec]

UseFault == useFaults < UseMaxFaults /\ useFaults' = useFaults + 1

UseMe(m) == useMember[m]

UseOf(batch, kind) == {o \in batch : UseLog[o].kind = kind}

-----------------------------------------------------------------------------
(* The group. *)

\* The partition is given to a member, who starts at the committed offset, and taken from one: who lets the rebalance
\* happen, or who held it back (a batch whose database calls are being tried again) for as long as the broker waits.
\* What that member fetched and did not return from a poll is dropped; its batch is not.
UseAssign(m) ==
  /\ useOwner = "none" /\ UseMe(m).at # "dead" /\ useOwner' = m
  /\ UseGo(m, [UseMe(m) EXCEPT !.pos = useCommitted])
  /\ UNCHANGED <<useCommitted, useDB, useFaults>>

UseRevoke ==
  /\ useOwner # "none" /\ UseFault /\ useOwner' = "none"
  /\ UNCHANGED <<useMember, useCommitted, useDB>>

-----------------------------------------------------------------------------
(* collectBatch. *)

\* Poll: rebalances are allowed again, then records of the partition this member owns. The offsets are those up to pos.
UsePoll(m) ==
  /\ UseMe(m).at = "poll" /\ useOwner = m /\ Cardinality(UseMe(m).batch) < UseBatchSize
  /\ UseMe(m).pos < Len(UseLog)
  /\ LET got == UseMe(m).batch \cup {UseMe(m).pos + 1}
     IN UseGo(m, [UseMe(m) EXCEPT !.pos = @ + 1, !.batch = got, !.held = TRUE,
                                  !.at = IF Cardinality(got) = UseBatchSize THEN "rejects" ELSE "poll"])
  /\ UNCHANGED <<useOwner, useCommitted, useDB, useFaults>>

\* Another Poll of the same batch begins, which lets a rebalance go first,
UsePollAgain(m) ==
  /\ UseMe(m).at = "poll" /\ UseMe(m).held /\ UseGo(m, [UseMe(m) EXCEPT !.held = FALSE])
  /\ UNCHANGED <<useOwner, useCommitted, useDB, useFaults>>

\* and returns nothing before the batch timer ends or the process is told to stop.
UseBatchTimer(m) ==
  /\ UseMe(m).at = "poll" /\ UseMe(m).batch # {} /\ ~UseMe(m).held /\ UseGo(m, [UseMe(m) EXCEPT !.at = "rejects"])
  /\ UNCHANGED <<useOwner, useCommitted, useDB, useFaults>>

-----------------------------------------------------------------------------
(* process: rejects, rows, then the commit. *)

UseRecordRejects(offsets) == useRejects' = useRejects \cup offsets

\* InsertUsage: one transaction; a row whose request has one already is skipped (ON CONFLICT DO NOTHING).
UseInsert(offsets) ==
  useRows' = [r \in UseRequests |-> IF \E o \in offsets : UseLog[o].req = r THEN 1 ELSE useRows[r]]

\* A database call: it is done; or it fails, having been done or not, and is tried again after the backoff.
UseCall(m, done, next) ==
  \/ done /\ UseGo(m, next) /\ UNCHANGED useFaults
  \/ UseFault /\ UNCHANGED useMember /\ (done \/ UNCHANGED useDB)

\* classify: what cannot be used is recorded by its coordinates.
UseRejects(m) ==
  /\ UseMe(m).at = "rejects"
  /\ LET poison == UseOf(UseMe(m).batch, "poison")
         next == [UseMe(m) EXCEPT !.at = "insert"]
     IN IF poison = {} THEN UseGo(m, next) /\ UNCHANGED <<useDB, useFaults>>
        ELSE UseCall(m, UseRecordRejects(poison) /\ UNCHANGED useRows, next)
  /\ UNCHANGED <<useOwner, useCommitted>>

(* Mutant: a batch the database refuses is committed past. *)
UseInsertAllSkips(m) ==
  /\ UseMe(m).at = "insert"
  /\ LET rows == UseOf(UseMe(m).batch, "row")
         bad == UseOf(UseMe(m).batch, "bad")
     IN IF rows \cup bad = {} THEN UseGo(m, [UseMe(m) EXCEPT !.at = "commit"]) /\ UNCHANGED <<useDB, useFaults>>
        ELSE IF bad # {}
        THEN UseCall(m, UNCHANGED useDB, [UseMe(m) EXCEPT !.at = "commit"])
        ELSE UseCall(m, UseInsert(rows) /\ UNCHANGED useRejects, [UseMe(m) EXCEPT !.at = "commit"])
  /\ UNCHANGED <<useOwner, useCommitted>>

\* insert: all rows at once; if the database refuses the content of one, none is written and they go one by one.
UseInsertAll(m) ==
  /\ UseMe(m).at = "insert"
  /\ LET rows == UseOf(UseMe(m).batch, "row")
         bad == UseOf(UseMe(m).batch, "bad")
     IN IF rows \cup bad = {} THEN UseGo(m, [UseMe(m) EXCEPT !.at = "commit"]) /\ UNCHANGED <<useDB, useFaults>>
        ELSE IF bad # {}
        THEN UseCall(m, UNCHANGED useDB, [UseMe(m) EXCEPT !.at = "single", !.single = rows \cup bad])
        ELSE UseCall(m, UseInsert(rows) /\ UNCHANGED useRejects, [UseMe(m) EXCEPT !.at = "commit"])
  /\ UNCHANGED <<useOwner, useCommitted>>

UseInsertOne(m) ==
  /\ UseMe(m).at = "single" /\ UseMe(m).single # {}
  /\ LET o == CHOOSE o \in UseMe(m).single : \A x \in UseMe(m).single : o <= x
         next == [UseMe(m) EXCEPT !.single = @ \ {o}, !.bad = IF UseLog[o].kind = "bad" THEN @ \cup {o} ELSE @]
     IN UseCall(m, (IF UseLog[o].kind = "bad" THEN UNCHANGED useDB ELSE UseInsert({o}) /\ UNCHANGED useRejects), next)
  /\ UNCHANGED <<useOwner, useCommitted>>

UseRejectBad(m) ==
  /\ UseMe(m).at = "single" /\ UseMe(m).single = {}
  /\ UseCall(m, UseRecordRejects(UseMe(m).bad) /\ UNCHANGED useRows, [UseMe(m) EXCEPT !.at = "commit", !.bad = {}])
  /\ UNCHANGED <<useOwner, useCommitted>>

\* The offset after the last of the batch. The broker takes or refuses the commit of a member that lost the partition.
UseNextOffset(batch) == CHOOSE o \in batch : \A x \in batch : x <= o

\* commit: three tries; a failure is not fatal. Commit allows rebalances, whatever came of it.
UseCommit(m) ==
  /\ UseMe(m).at = "commit"
  /\ LET next == [UseFresh(UseMe(m).pos) EXCEPT !.at = "poll"]
     IN \/ useCommitted' = UseNextOffset(UseMe(m).batch) /\ UseGo(m, next) /\ UNCHANGED useFaults
        \/ /\ UseFault /\ useCommitted' \in {useCommitted, UseNextOffset(UseMe(m).batch)}
           /\ UseGo(m, IF UseMe(m).tries + 1 < UseCommitTries THEN [UseMe(m) EXCEPT !.held = FALSE, !.tries = @ + 1] ELSE next)
  /\ UNCHANGED <<useOwner, useDB>>

\* The process dies, or its context ends while the database fails: nothing more is committed.
UseCrash(m) ==
  /\ UseMe(m).at # "dead" /\ UseFault /\ UseGo(m, [UseFresh(0) EXCEPT !.at = "dead"])
  /\ useOwner' = IF useOwner = m THEN "none" ELSE useOwner
  /\ UNCHANGED <<useCommitted, useDB>>

UseRestart(m) ==
  /\ UseMe(m).at = "dead" /\ UseGo(m, UseFresh(0))
  /\ UNCHANGED <<useOwner, useCommitted, useDB, useFaults>>

-----------------------------------------------------------------------------
UseStep(m) ==
  \/ UsePoll(m) \/ UsePollAgain(m) \/ UseBatchTimer(m)
  \/ UseRejects(m) \/ UseInsertAll(m) \/ UseInsertOne(m) \/ UseRejectBad(m) \/ UseCommit(m)
  \/ UseAssign(m) \/ UseRestart(m)

UseNext == (\E m \in UseMembers : UseStep(m) \/ UseCrash(m)) \/ UseRevoke

\* A member runs, is restarted, and the group coordinator gives the partition to somebody.
UseSpec == UseInit /\ [][UseNext]_useVars /\ \A m \in UseMembers : WF_useVars(UseStep(m))

-----------------------------------------------------------------------------
(* Properties. *)

\* What became of a record: its row is stored, it is recorded as rejected, or it is none of the consumer's business.
UseSettled(o) ==
  CASE UseLog[o].kind = "row" -> useRows[UseLog[o].req] > 0
    [] UseLog[o].kind = "skip" -> TRUE
    [] OTHER -> o \in useRejects

UseTypeOK ==
  /\ useOwner \in UseMembers \cup {"none"} /\ useCommitted \in 0..Len(UseLog)
  /\ \A m \in UseMembers : Cardinality(UseMe(m).batch) <= UseBatchSize /\ UseMe(m).tries < UseCommitTries

\* "Rows are written and committed in the database FIRST, and offsets are committed only afterwards": whatever crashes,
\* fails or moves between members, every record below the committed offset is settled.
UseNothingLost == \A o \in 1..useCommitted : UseSettled(o)

\* A request is never billed twice: one row for each, however often its event is delivered and its batch read again.
UseOnce == \A r \in UseRequests : useRows[r] <= 1

\* Only what the database or the decoder refused is recorded as rejected.
UseRejectsRight == \A o \in useRejects : UseLog[o].kind \in {"poison", "bad"}

\* A poison message never blocks the partition, and neither do crashes, rebalances, an outage of the database or commits
\* that fail: every record is eventually settled. (The committed offset may stay behind: commit gives up after its tries.)
UseDrains == useOwner # "none" ~> (\A o \in UseOffsets : UseSettled(o))

\* Usage is stored exactly once whatever crashes, moves or is repeated, and only what is refused is rejected (Run,
\* insertAll, insertOne, commit).
UseSafe == UseTypeOK /\ UseNothingLost /\ UseOnce /\ UseRejectsRight
=============================================================================
