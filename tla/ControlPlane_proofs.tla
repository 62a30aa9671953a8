------------------------ MODULE ControlPlane_proofs ------------------------
(***************************************************************************)
(* Proofs about what runs beside the gateways.  The usage consumers record *)
(* every event exactly once.  The registry's safety properties hold for    *)
(* any set of worker IDs, any thresholds and any limits that               *)
(* Config.Validate accepts; and agents over a network that loses, delays   *)
(* and repeats calls use the registry as its own specification allows, so  *)
(* that what is proved of the registry holds with any number of agents,    *)
(* faults and late calls.                                                  *)
(***************************************************************************)
EXTENDS UsageConsumer, WorkerAgents, FiniteSetTheorems, WellFoundedInduction, TLAPS

-----------------------------------------------------------------------------
(* Sets of offsets *)

(* A non-empty set of naturals below a bound has a least and a greatest    *)
(* element: what CHOOSE picks in UseInsertOne and UseNextOffset exists.    *)
LEMMA LeastOffset ==
    ASSUME NEW S, S \subseteq Nat, S # {}
    PROVE  \E o \in S : \A x \in S : o <= x
<1>1. PICK o \in S : \A x \in S : ~(<<x, o>> \in OpToRel(<, Nat))
  BY NatLessThanWellFounded, WFMin, Zenon
<1>2. \A x \in S : ~(x < o)
  BY <1>1, Zenon DEF OpToRel
<1> QED
  BY <1>2

LEMMA GreatestOffset ==
    ASSUME NEW n \in Nat, NEW S, S \subseteq 0 .. n, S # {}
    PROVE  \E o \in S : \A x \in S : x <= o
<1> DEFINE T == {n - x : x \in S}
<1>1. T \subseteq Nat /\ T # {}
  <2>1. \A x \in S : n - x \in Nat
    OBVIOUS
  <2>2. PICK x \in S : TRUE
    BY Zenon
  <2>3. n - x \in T
    OBVIOUS
  <2> QED
    BY <2>1, <2>3
<1>2. PICK t \in T : \A y \in T : t <= y
  <2> HIDE DEF T
  <2> QED
    BY <1>1, LeastOffset, Zenon
<1>3. PICK o \in S : t = n - o
  BY <1>2
<1>4. \A x \in S : n - x \in T
  OBVIOUS
<1>5. \A x \in S : n - o <= n - x
  BY <1>2, <1>3, <1>4
<1>6. \A x \in S : x <= o
  BY <1>5
<1> QED
  BY <1>6

-----------------------------------------------------------------------------
(* The usage consumers *)

(* The offsets whose record needs nothing more. *)
UseDone == {o \in UseOffsets : UseSettled(o)}

UsePlaces == {"poll", "rejects", "insert", "single", "commit", "dead"}

UseRecord ==
  [at : UsePlaces, pos : 0 .. Len(UseLog), batch : SUBSET UseOffsets, held : BOOLEAN,
   single : SUBSET UseOffsets, bad : SUBSET UseOffsets, tries : Nat]

(* A member u when the offsets in d are settled.  Below what it has read,  *)
(* every record is settled or in its batch; and as it goes through the     *)
(* steps of process, more of the batch is settled.                         *)
UseMemberOK(u, d) ==
  /\ u \in UseRecord
  /\ IsFiniteSet(u.batch) /\ Cardinality(u.batch) <= UseBatchSize /\ u.tries < UseCommitTries
  /\ u.single \subseteq u.batch /\ u.bad \subseteq UseOf(u.batch, "bad")
  /\ \A b \in u.batch \cup {u.pos}, o \in UseOffsets : o <= b => o \in d \cup u.batch
  /\ u.at \notin {"poll", "dead"} => u.batch # {}
  /\ u.at \in {"insert", "single", "commit"} => UseOf(u.batch, "poison") \subseteq d
  /\ u.at = "single" => \A o \in u.batch : UseLog[o].kind \in {"row", "bad"} => o \in d \cup u.single \cup u.bad
  /\ u.at = "commit" => u.batch \subseteq d

UseInv ==
  /\ useMember = [m \in UseMembers |-> useMember[m]]
  /\ \A m \in UseMembers : UseMemberOK(useMember[m], UseDone)
  /\ useOwner \in UseMembers \cup {"none"}
  /\ useCommitted \in 0 .. Len(UseLog)
  /\ \A o \in UseOffsets : o <= useCommitted => o \in UseDone
  /\ useRows \in [UseRequests -> 0 .. 1]
  /\ useRejects \subseteq UseOffsets /\ UseRejectsRight

(* What is settled stays settled: rows are never deleted, rejects are      *)
(* never taken back.                                                       *)
UseGrows ==
  /\ useRows' \in [UseRequests -> 0 .. 1]
  /\ useRejects' \subseteq UseOffsets /\ UseRejectsRight'
  /\ UseDone \subseteq UseDone'

LEMMA MemberKeeps ==
    ASSUME NEW u, NEW d, NEW e, d \subseteq e, UseMemberOK(u, d)
    PROVE  UseMemberOK(u, e)
BY DEF UseMemberOK

LEMMA LogRequests == \A o \in UseOffsets : UseLog[o].req \in UseRequests
BY DEF UseRequests

LEMMA LogKinds == \A o \in UseOffsets : UseLog[o].kind \in {"row", "bad", "skip", "poison"}
<1> DEFINE R == [kind : {"row", "bad", "skip", "poison"}, req : Nat]
<1>1. UseLog \in Seq(R)
  BY UseAssumption
<1>2. \A o \in UseOffsets : UseLog[o] \in R
  <2> HIDE DEF R
  <2> QED
    BY <1>1 DEF UseOffsets
<1> QED
  BY <1>2

LEMMA DBIdle ==
    ASSUME UseInv, UNCHANGED useDB
    PROVE  UseGrows /\ UseDone' = UseDone
<1>1. UseDone' = UseDone /\ UseRejectsRight'
  BY DEF UseInv, useDB, UseDone, UseSettled, UseRejectsRight
<1> QED
  BY <1>1 DEF UseInv, UseGrows, useDB

LEMMA InsertSettles ==
    ASSUME UseInv, NEW S \in SUBSET UseOffsets, UseInsert(S), UNCHANGED useRejects
    PROVE  UseGrows /\ UseOf(S, "row") \subseteq UseDone'
<1>1. useRows \in [UseRequests -> 0 .. 1]
  BY DEF UseInv
<1>2. /\ useRows' \in [UseRequests -> 0 .. 1]
      /\ \A r \in UseRequests : useRows[r] > 0 => useRows'[r] > 0
      /\ \A o \in S : UseLog[o].req \in UseRequests => useRows'[UseLog[o].req] > 0
  BY <1>1 DEF UseInsert
<1>3. UseDone \subseteq UseDone'
  BY <1>2, LogRequests DEF UseDone, UseSettled
<1>4. UseOf(S, "row") \subseteq UseDone'
  BY <1>2, LogRequests DEF UseDone, UseSettled, UseOf
<1> QED
  BY <1>2, <1>3, <1>4 DEF UseGrows, UseInv, UseRejectsRight

LEMMA RejectSettles ==
    ASSUME UseInv, NEW S \in SUBSET UseOffsets, \A o \in S : UseLog[o].kind \in {"poison", "bad"},
           UseRecordRejects(S), UNCHANGED useRows
    PROVE  UseGrows /\ S \subseteq UseDone'
<1>1. useRejects' = useRejects \cup S
  BY DEF UseRecordRejects
<1>2. UseDone \subseteq UseDone' /\ S \subseteq UseDone'
  BY <1>1 DEF UseDone, UseSettled
<1> QED
  BY <1>1, <1>2 DEF UseGrows, UseInv, UseRejectsRight

(* A step of one member. *)
LEMMA MemberMoves ==
    ASSUME UseInv, UseGrows, NEW m \in UseMembers, NEW u, UseMemberOK(u, UseDone'), UseGo(m, u),
           useOwner' \in UseMembers \cup {"none"}, useCommitted' \in 0 .. Len(UseLog),
           \A o \in UseOffsets : o <= useCommitted' => o \in UseDone'
    PROVE  UseInv'
<1>1. useMember' = [useMember EXCEPT ![m] = u] /\ useMember = [q \in UseMembers |-> useMember[q]]
  BY DEF UseGo, UseInv
<1>2. useMember' = [q \in UseMembers |-> useMember'[q]] /\ useMember'[m] = u
      /\ \A q \in UseMembers : q # m => useMember'[q] = useMember[q]
  BY <1>1
<1>3. \A q \in UseMembers : UseMemberOK(useMember'[q], UseDone')
  <2> SUFFICES ASSUME NEW q \in UseMembers PROVE UseMemberOK(useMember'[q], UseDone')
    OBVIOUS
  <2>1. CASE q = m
    BY <1>2, <2>1
  <2>2. CASE q # m
    <3>1. UseMemberOK(useMember[q], UseDone) /\ UseDone \subseteq UseDone'
      BY DEF UseInv, UseGrows
    <3> QED
      BY <1>2, <2>2, <3>1, MemberKeeps
  <2> QED
    BY <2>1, <2>2
<1> QED
  BY <1>2, <1>3 DEF UseInv, UseGrows

(* A call that failed, done or not: its member has not moved. *)
LEMMA MembersStay ==
    ASSUME UseInv, UseGrows, UNCHANGED <<useMember, useCommitted>>,
           useOwner' \in UseMembers \cup {"none"}
    PROVE  UseInv'
<1>1. \A q \in UseMembers : UseMemberOK(useMember[q], UseDone')
  BY MemberKeeps DEF UseInv, UseGrows
<1> QED
  BY <1>1 DEF UseInv, UseGrows

(* The facts about the member that moves. *)
LEMMA MemberFacts ==
    ASSUME UseInv, NEW m \in UseMembers
    PROVE  /\ UseMe(m) \in UseRecord /\ UseMemberOK(UseMe(m), UseDone)
           /\ useOwner \in UseMembers \cup {"none"} /\ useCommitted \in 0 .. Len(UseLog)
           /\ \A o \in UseOffsets : o <= useCommitted => o \in UseDone
           /\ Len(UseLog) \in Nat /\ UseBatchSize \in Nat \ {0} /\ UseCommitTries \in Nat \ {0}
BY UseAssumption DEF UseInv, UseMe, UseMemberOK

LEMMA FreshOK ==
    ASSUME NEW d, NEW pos \in 0 .. Len(UseLog), NEW at \in {"poll", "dead"},
           \A o \in UseOffsets : o <= pos => o \in d
    PROVE  UseMemberOK([UseFresh(pos) EXCEPT !.at = at], d)
<1> DEFINE u == [UseFresh(pos) EXCEPT !.at = at]
<1>1. /\ u \in UseRecord /\ u.at = at /\ u.pos = pos /\ u.batch = {} /\ u.single = {} /\ u.bad = {}
      /\ u.tries = 0
  BY Zenon DEF UseFresh, UseRecord, UsePlaces
<1>2. IsFiniteSet({}) /\ Cardinality({}) = 0 /\ UseBatchSize \in Nat /\ UseCommitTries \in Nat \ {0}
  BY FS_EmptySet, UseAssumption
<1>3. UseMemberOK(u, d)
  <2> HIDE DEF u
  <2> QED
    BY <1>1, <1>2 DEF UseMemberOK, UseOf
<1> QED
  BY <1>3

LEMMA GroupKeeps ==
    ASSUME UseInv, NEW m \in UseMembers,
           UseAssign(m) \/ UsePollAgain(m) \/ UseBatchTimer(m) \/ UseRestart(m) \/ UseCrash(m)
    PROVE  UseInv'
<1> DEFINE u == UseMe(m)
<1>1. /\ u \in UseRecord /\ UseMemberOK(u, UseDone)
      /\ useOwner \in UseMembers \cup {"none"} /\ useCommitted \in 0 .. Len(UseLog)
      /\ \A o \in UseOffsets : o <= useCommitted => o \in UseDone
      /\ Len(UseLog) \in Nat
  BY MemberFacts
<1>2. UNCHANGED <<useCommitted, useDB>> /\ useOwner' \in UseMembers \cup {"none"}
  BY <1>1 DEF UseAssign, UsePollAgain, UseBatchTimer, UseRestart, UseCrash
<1>3. UseGrows /\ UseDone' = UseDone
  BY <1>2, DBIdle
<1>4. CASE UseAssign(m)
  <2> DEFINE v == [u EXCEPT !.pos = useCommitted]
  <2>1. /\ v \in UseRecord /\ v.pos = useCommitted /\ v.at = u.at /\ v.batch = u.batch
        /\ v.single = u.single /\ v.bad = u.bad /\ v.tries = u.tries
    BY <1>1 DEF UseRecord
  <2>2. UseGo(m, v)
    BY <1>4 DEF UseAssign
  <2> HIDE DEF u, v
  <2>3. UseMemberOK(v, UseDone)
    BY <1>1, <2>1 DEF UseMemberOK
  <2> QED
    BY <1>1, <1>2, <1>3, <2>2, <2>3, MemberMoves
<1>5. CASE UsePollAgain(m)
  <2> DEFINE v == [u EXCEPT !.held = FALSE]
  <2>1. /\ v \in UseRecord /\ v.pos = u.pos /\ v.at = u.at /\ v.batch = u.batch
        /\ v.single = u.single /\ v.bad = u.bad /\ v.tries = u.tries
    BY <1>1, Zenon DEF UseRecord
  <2>2. UseGo(m, v)
    BY <1>5 DEF UsePollAgain
  <2> HIDE DEF u, v
  <2>3. UseMemberOK(v, UseDone)
    BY <1>1, <2>1 DEF UseMemberOK
  <2> QED
    BY <1>1, <1>2, <1>3, <2>2, <2>3, MemberMoves
<1>6. CASE UseBatchTimer(m)
  <2> DEFINE v == [u EXCEPT !.at = "rejects"]
  <2>1. /\ v \in UseRecord /\ v.pos = u.pos /\ v.at = "rejects" /\ v.batch = u.batch
        /\ v.single = u.single /\ v.bad = u.bad /\ v.tries = u.tries
    BY <1>1 DEF UseRecord, UsePlaces
  <2>2. UseGo(m, v) /\ u.batch # {}
    BY <1>6, Zenon DEF UseBatchTimer
  <2> HIDE DEF u, v
  <2>3. UseMemberOK(v, UseDone)
    BY <1>1, <2>1, <2>2 DEF UseMemberOK
  <2> QED
    BY <1>1, <1>2, <1>3, <2>2, <2>3, MemberMoves, Zenon
<1>7. CASE UseRestart(m) \/ UseCrash(m)
  <2>1. PICK at \in {"poll", "dead"} : UseGo(m, [UseFresh(0) EXCEPT !.at = at])
    <3>1. UseFresh(0) = [UseFresh(0) EXCEPT !.at = "poll"]
      BY DEF UseFresh
    <3> QED
      BY <1>7, <3>1 DEF UseRestart, UseCrash
  <2>2. UseMemberOK([UseFresh(0) EXCEPT !.at = at], UseDone)
    <3>1. 0 \in 0 .. Len(UseLog) /\ \A o \in UseOffsets : o <= 0 => o \in UseDone
      BY <1>1 DEF UseOffsets
    <3> QED
      BY <3>1, FreshOK, Zenon
  <2> QED
    BY <1>1, <1>2, <1>3, <2>1, <2>2, MemberMoves
<1> QED
  BY <1>4, <1>5, <1>6, <1>7

LEMMA PollKeeps ==
    ASSUME UseInv, NEW m \in UseMembers, UsePoll(m)
    PROVE  UseInv'
<1> DEFINE u == UseMe(m)
           got == u.batch \cup {u.pos + 1}
           at == IF Cardinality(got) = UseBatchSize THEN "rejects" ELSE "poll"
           v == [u EXCEPT !.pos = @ + 1, !.batch = got, !.held = TRUE, !.at = at]
<1>1. /\ u \in UseRecord /\ UseMemberOK(u, UseDone)
      /\ useOwner \in UseMembers \cup {"none"} /\ useCommitted \in 0 .. Len(UseLog)
      /\ \A o \in UseOffsets : o <= useCommitted => o \in UseDone
      /\ Len(UseLog) \in Nat /\ UseBatchSize \in Nat \ {0}
  BY MemberFacts
<1>2. /\ u.at = "poll" /\ Cardinality(u.batch) < UseBatchSize /\ u.pos < Len(UseLog)
      /\ UseGo(m, v) /\ UNCHANGED <<useOwner, useCommitted, useDB>>
  BY DEF UsePoll
<1>3. UseGrows /\ UseDone' = UseDone
  BY <1>2, DBIdle
<1>4. u.pos \in 0 .. Len(UseLog) /\ u.pos + 1 \in UseOffsets /\ got \in SUBSET UseOffsets
  BY <1>1, <1>2 DEF UseRecord, UseOffsets
<1>5. IsFiniteSet(got) /\ Cardinality(got) <= UseBatchSize
  <2>1. IsFiniteSet(u.batch) /\ Cardinality(u.batch) \in Nat
    BY <1>1, FS_CardinalityType, Zenon DEF UseMemberOK
  <2>2. /\ IsFiniteSet(got)
        /\ Cardinality(got) = IF u.pos + 1 \in u.batch THEN Cardinality(u.batch) ELSE Cardinality(u.batch) + 1
    BY <2>1, FS_AddElement, Zenon
  <2> QED
    BY <1>1, <1>2, <2>1, <2>2
<1>6. at \in {"poll", "rejects"}
  OBVIOUS
<1> HIDE DEF at, got
<1>7. /\ v \in UseRecord /\ v.pos = u.pos + 1 /\ v.at = at /\ v.batch = got
      /\ v.single = u.single /\ v.bad = u.bad /\ v.tries = u.tries
  <2>1. u.pos + 1 \in 0 .. Len(UseLog) /\ at \in UsePlaces
    BY <1>1, <1>2, <1>4, <1>6 DEF UsePlaces
  <2> HIDE DEF u
  <2> QED
    BY <1>1, <1>4, <2>1, Zenon DEF UseRecord
<1> USE DEF got
<1> HIDE DEF u, v
<1>8. \A b \in got \cup {u.pos + 1}, o \in UseOffsets : o <= b => o \in UseDone \cup got
  <2> SUFFICES ASSUME NEW b \in got, NEW o \in UseOffsets, o <= b PROVE o \in UseDone \cup got
    OBVIOUS
  <2>1. CASE b \in u.batch
    BY <1>1, <2>1 DEF UseMemberOK
  <2>2. CASE b = u.pos + 1
    <3>1. o = u.pos + 1 \/ o <= u.pos
      BY <1>4, <2>2 DEF UseOffsets
    <3> QED
      BY <1>1, <3>1, Zenon DEF UseMemberOK
  <2> QED
    BY <2>1, <2>2
<1>9. UseMemberOK(v, UseDone)
  <2>1. u.single \subseteq got /\ u.bad \subseteq UseOf(got, "bad") /\ u.tries < UseCommitTries
    BY <1>1 DEF UseMemberOK, UseOf
  <2> HIDE DEF got
  <2>2. got # {}
    BY DEF got
  <2> QED
    BY <1>5, <1>6, <1>7, <1>8, <2>1, <2>2 DEF UseMemberOK
<1> QED
  BY <1>1, <1>2, <1>3, <1>9, MemberMoves

LEMMA RejectsKeeps ==
    ASSUME UseInv, NEW m \in UseMembers, UseRejects(m)
    PROVE  UseInv'
<1> DEFINE u == UseMe(m)
           poison == UseOf(u.batch, "poison")
           v == [u EXCEPT !.at = "insert"]
<1>1. /\ u \in UseRecord /\ UseMemberOK(u, UseDone)
      /\ useOwner \in UseMembers \cup {"none"} /\ useCommitted \in 0 .. Len(UseLog)
      /\ \A o \in UseOffsets : o <= useCommitted => o \in UseDone
  BY MemberFacts
<1>2. /\ u.at = "rejects" /\ UNCHANGED <<useOwner, useCommitted>>
      /\ \/ poison = {} /\ UseGo(m, v) /\ UNCHANGED useDB
         \/ UseRecordRejects(poison) /\ UNCHANGED useRows /\ (UseGo(m, v) \/ UNCHANGED useMember)
         \/ UNCHANGED useMember /\ UNCHANGED useDB
  BY DEF UseRejects, UseCall
<1>3. /\ v \in UseRecord /\ v.pos = u.pos /\ v.at = "insert" /\ v.batch = u.batch
      /\ v.single = u.single /\ v.bad = u.bad /\ v.tries = u.tries
  BY <1>1 DEF UseRecord, UsePlaces
<1>4. poison \in SUBSET UseOffsets /\ \A o \in poison : UseLog[o].kind \in {"poison", "bad"}
  BY <1>1 DEF UseRecord, UseOf
<1> HIDE DEF u, v
<1>5. UseGrows /\ ((UseGo(m, v) /\ poison \subseteq UseDone') \/ UNCHANGED useMember)
  <2> HIDE DEF poison
  <2> QED
    BY <1>2, <1>4, DBIdle, RejectSettles
<1>6. CASE UseGrows /\ UNCHANGED useMember
  BY <1>1, <1>2, <1>6, MembersStay
<1>7. CASE UseGrows /\ UseGo(m, v) /\ poison \subseteq UseDone'
  <2>1. UseMemberOK(u, UseDone') /\ \A o \in UseOffsets : o <= useCommitted' => o \in UseDone'
    BY <1>1, <1>2, <1>7, MemberKeeps, Zenon DEF UseGrows
  <2>2. UseMemberOK(v, UseDone')
    BY <1>2, <1>3, <1>7, <2>1 DEF UseMemberOK
  <2> QED
    BY <1>1, <1>2, <1>7, <2>1, <2>2, MemberMoves
<1> QED
  BY <1>2, <1>5, <1>6, <1>7, Zenon

LEMMA InsertAllKeeps ==
    ASSUME UseInv, NEW m \in UseMembers, UseInsertAll(m)
    PROVE  UseInv'
<1> DEFINE u == UseMe(m)
           rows == UseOf(u.batch, "row")
           bad == UseOf(u.batch, "bad")
           v == [u EXCEPT !.at = "commit"]
           w == [u EXCEPT !.at = "single", !.single = rows \cup bad]
<1>1. /\ u \in UseRecord /\ UseMemberOK(u, UseDone)
      /\ useOwner \in UseMembers \cup {"none"} /\ useCommitted \in 0 .. Len(UseLog)
      /\ \A o \in UseOffsets : o <= useCommitted => o \in UseDone
  BY MemberFacts
<1>2. /\ u.at = "insert" /\ UNCHANGED <<useOwner, useCommitted>>
      /\ \/ rows \cup bad = {} /\ UseGo(m, v) /\ UNCHANGED useDB
         \/ UNCHANGED useDB /\ (UseGo(m, w) \/ UNCHANGED useMember)
         \/ bad = {} /\ UseInsert(rows) /\ UNCHANGED useRejects /\ (UseGo(m, v) \/ UNCHANGED useMember)
  BY DEF UseInsertAll, UseCall
<1>3. rows \in SUBSET UseOffsets /\ bad \in SUBSET UseOffsets /\ UseOf(rows, "row") = rows
      /\ rows \cup bad \subseteq u.batch
  BY <1>1 DEF UseRecord, UseOf
<1>4. /\ v \in UseRecord /\ v.pos = u.pos /\ v.at = "commit" /\ v.batch = u.batch
      /\ v.single = u.single /\ v.bad = u.bad /\ v.tries = u.tries
  BY <1>1 DEF UseRecord, UsePlaces
<1>5. /\ w \in UseRecord /\ w.pos = u.pos /\ w.at = "single" /\ w.batch = u.batch
      /\ w.single = rows \cup bad /\ w.bad = u.bad /\ w.tries = u.tries
  <2>1. rows \cup bad \in SUBSET UseOffsets
    BY <1>3
  <2> HIDE DEF rows, bad, u
  <2> QED
    BY <1>1, <2>1, Zenon DEF UseRecord, UsePlaces
<1>6. \A o \in u.batch : \/ o \in rows \cup bad \/ UseLog[o].kind = "skip"
                         \/ o \in UseOf(u.batch, "poison")
  BY <1>1, LogKinds DEF UseRecord, UseOf
<1>7. \A o \in u.batch : UseLog[o].kind = "skip" => o \in UseDone
  BY <1>1 DEF UseRecord, UseDone, UseSettled
<1> HIDE DEF u, v, w
<1>8. CASE UseGrows /\ UNCHANGED useMember
  BY <1>1, <1>2, <1>8, MembersStay, Zenon
<1>9. CASE UseGrows /\ UseGo(m, v) /\ bad = {} /\ rows \subseteq UseDone'
  <2>1. /\ UseMemberOK(u, UseDone') /\ UseDone \subseteq UseDone'
        /\ \A o \in UseOffsets : o <= useCommitted' => o \in UseDone'
    BY <1>1, <1>2, <1>9, MemberKeeps DEF UseGrows
  <2>2. u.batch \subseteq UseDone'
    <3>1. UseOf(u.batch, "poison") \subseteq UseDone'
      BY <1>2, <2>1, Zenon DEF UseMemberOK
    <3> HIDE DEF rows, bad
    <3> QED
      BY <1>6, <1>7, <1>9, <2>1, <3>1, Zenon
  <2>3. UseMemberOK(v, UseDone')
    BY <1>2, <1>4, <2>1, <2>2 DEF UseMemberOK
  <2> QED
    BY <1>1, <1>2, <1>9, <2>1, <2>3, MemberMoves
<1>10. CASE UseGrows /\ UseGo(m, w)
  <2>1. /\ UseMemberOK(u, UseDone')
        /\ \A o \in UseOffsets : o <= useCommitted' => o \in UseDone'
    BY <1>1, <1>2, <1>10, MemberKeeps DEF UseGrows
  <2>2. \A o \in u.batch : UseLog[o].kind \in {"row", "bad"} => o \in rows \cup bad
    BY DEF UseOf
  <2> HIDE DEF rows, bad
  <2>3. UseMemberOK(w, UseDone')
    BY <1>2, <1>3, <1>5, <2>1, <2>2, Zenon DEF UseMemberOK
  <2> QED
    BY <1>1, <1>2, <1>10, <2>1, <2>3, MemberMoves
<1>11. UseGrows /\ (bad = {} /\ UseInsert(rows) /\ UNCHANGED useRejects => rows \subseteq UseDone')
  <2> HIDE DEF rows, bad
  <2> QED
    BY <1>2, <1>3, DBIdle, InsertSettles
<1> QED
  BY <1>2, <1>8, <1>9, <1>10, <1>11, Zenon

LEMMA InsertOneKeeps ==
    ASSUME UseInv, NEW m \in UseMembers, UseInsertOne(m)
    PROVE  UseInv'
<1> DEFINE u == UseMe(m)
           first == CHOOSE o \in u.single : \A x \in u.single : o <= x
           v == [u EXCEPT !.single = @ \ {first},
                          !.bad = IF UseLog[first].kind = "bad" THEN @ \cup {first} ELSE @]
<1>1. /\ u \in UseRecord /\ UseMemberOK(u, UseDone)
      /\ useOwner \in UseMembers \cup {"none"} /\ useCommitted \in 0 .. Len(UseLog)
      /\ \A o \in UseOffsets : o <= useCommitted => o \in UseDone
  BY MemberFacts
<1>2. /\ u.at = "single" /\ u.single # {} /\ UNCHANGED <<useOwner, useCommitted>>
      /\ \/ UseLog[first].kind = "bad" /\ UNCHANGED useDB /\ UseGo(m, v)
         \/ /\ UseLog[first].kind # "bad" /\ UseInsert({first}) /\ UNCHANGED useRejects
            /\ UseGo(m, v) \/ UNCHANGED useMember
         \/ UNCHANGED useDB /\ UNCHANGED useMember
  BY DEF UseInsertOne, UseCall
<1>3. first \in u.single /\ first \in UseOffsets
  <2>1. u.single \subseteq Nat /\ u.single \subseteq UseOffsets
    BY <1>1 DEF UseRecord, UseOffsets
  <2>2. \E o \in u.single : \A x \in u.single : o <= x
    BY <1>2, <2>1, LeastOffset
  <2> QED
    BY <2>1, <2>2
<1> HIDE DEF first
<1> DEFINE rest == u.single \ {first}
           bads == IF UseLog[first].kind = "bad" THEN u.bad \cup {first} ELSE u.bad
<1>4. rest \in SUBSET UseOffsets /\ bads \in SUBSET UseOffsets
  BY <1>1, <1>3 DEF UseRecord
<1>5. /\ v \in UseRecord /\ v.pos = u.pos /\ v.at = u.at /\ v.batch = u.batch
      /\ v.single = rest /\ v.bad = bads /\ v.tries = u.tries
  <2>1. v = [[u EXCEPT !.single = rest] EXCEPT !.bad = bads]
    BY <1>1, Zenon DEF UseRecord
  <2> HIDE DEF rest, bads, v, u
  <2> QED
    BY <1>1, <1>4, <2>1, Zenon DEF UseRecord
<1>6. bads \subseteq UseOf(u.batch, "bad") /\ rest \subseteq u.batch
  BY <1>1, <1>3, Zenon DEF UseMemberOK, UseOf
<1>7. UseGrows /\ (UseLog[first].kind = "row" /\ UseGo(m, v) /\ ~UNCHANGED useMember => first \in UseDone')
  <2>1. UseLog[first].kind = "row" => UseOf({first}, "row") = {first}
    BY DEF UseOf
  <2> HIDE DEF u, v
  <2> QED
    BY <1>2, <1>3, <2>1, DBIdle, InsertSettles
<1> HIDE DEF u, v
<1>8. CASE UNCHANGED useMember
  BY <1>1, <1>2, <1>7, <1>8, MembersStay
<1>9. CASE UseGo(m, v) /\ ~UNCHANGED useMember
  <2>1. /\ UseMemberOK(u, UseDone')
        /\ \A o \in UseOffsets : o <= useCommitted' => o \in UseDone'
    BY <1>1, <1>2, <1>7, MemberKeeps, Zenon DEF UseGrows
  <2>2. \A o \in u.batch : UseLog[o].kind \in {"row", "bad"} => o \in UseDone' \cup rest \cup bads
    BY <1>2, <1>3, <1>7, <1>9, <2>1, Zenon DEF UseMemberOK
  <2> HIDE DEF rest, bads
  <2>3. UseMemberOK(v, UseDone')
    BY <1>2, <1>5, <1>6, <2>1, <2>2 DEF UseMemberOK
  <2> QED
    BY <1>1, <1>2, <1>7, <1>9, <2>1, <2>3, MemberMoves, Zenon
<1> QED
  BY <1>2, <1>8, <1>9, Zenon

LEMMA RejectBadKeeps ==
    ASSUME UseInv, NEW m \in UseMembers, UseRejectBad(m)
    PROVE  UseInv'
<1> DEFINE u == UseMe(m)
           v == [u EXCEPT !.at = "commit", !.bad = {}]
<1>1. /\ u \in UseRecord /\ UseMemberOK(u, UseDone)
      /\ useOwner \in UseMembers \cup {"none"} /\ useCommitted \in 0 .. Len(UseLog)
      /\ \A o \in UseOffsets : o <= useCommitted => o \in UseDone
  BY MemberFacts
<1>2. /\ u.at = "single" /\ u.single = {} /\ UNCHANGED <<useOwner, useCommitted>>
      /\ \/ UseRecordRejects(u.bad) /\ UNCHANGED useRows /\ (UseGo(m, v) \/ UNCHANGED useMember)
         \/ UNCHANGED useDB /\ UNCHANGED useMember
  BY DEF UseRejectBad, UseCall
<1>3. /\ v \in UseRecord /\ v.pos = u.pos /\ v.at = "commit" /\ v.batch = u.batch
      /\ v.single = u.single /\ v.bad = {} /\ v.tries = u.tries
  BY <1>1, Zenon DEF UseRecord, UsePlaces
<1>4. u.bad \in SUBSET UseOffsets /\ \A o \in u.bad : UseLog[o].kind \in {"poison", "bad"}
  BY <1>1, Zenon DEF UseRecord, UseMemberOK, UseOf
<1>5. \A o \in u.batch : \/ UseLog[o].kind \in {"row", "bad"} \/ UseLog[o].kind = "skip"
                         \/ o \in UseOf(u.batch, "poison")
  BY <1>1, LogKinds DEF UseRecord, UseOf
<1>6. \A o \in u.batch : UseLog[o].kind = "skip" => o \in UseDone
  BY <1>1 DEF UseRecord, UseDone, UseSettled
<1> HIDE DEF u, v
<1>7. UseGrows /\ (u.bad \subseteq UseDone' \/ UNCHANGED useMember)
  BY <1>2, <1>4, DBIdle, RejectSettles
<1>8. CASE UNCHANGED useMember
  BY <1>1, <1>2, <1>7, <1>8, MembersStay, Zenon
<1>9. CASE UseGo(m, v) /\ u.bad \subseteq UseDone'
  <2>1. /\ UseMemberOK(u, UseDone') /\ UseDone \subseteq UseDone'
        /\ \A o \in UseOffsets : o <= useCommitted' => o \in UseDone'
    BY <1>1, <1>2, <1>7, MemberKeeps, Zenon DEF UseGrows
  <2>2. u.batch \subseteq UseDone'
    BY <1>2, <1>5, <1>6, <1>9, <2>1 DEF UseMemberOK
  <2>3. UseMemberOK(v, UseDone')
    BY <1>2, <1>3, <2>1, <2>2 DEF UseMemberOK
  <2> QED
    BY <1>1, <1>2, <1>7, <1>9, <2>1, <2>3, MemberMoves, Zenon
<1> QED
  BY <1>2, <1>7, <1>8, <1>9

LEMMA CommitKeeps ==
    ASSUME UseInv, NEW m \in UseMembers, UseCommit(m)
    PROVE  UseInv'
<1> DEFINE u == UseMe(m)
           last == UseNextOffset(u.batch)
           next == [UseFresh(u.pos) EXCEPT !.at = "poll"]
           again == [u EXCEPT !.held = FALSE, !.tries = @ + 1]
<1>1. /\ u \in UseRecord /\ UseMemberOK(u, UseDone)
      /\ useOwner \in UseMembers \cup {"none"} /\ useCommitted \in 0 .. Len(UseLog)
      /\ \A o \in UseOffsets : o <= useCommitted => o \in UseDone
      /\ Len(UseLog) \in Nat
  BY MemberFacts
<1>2. /\ u.at = "commit" /\ UNCHANGED <<useOwner, useDB>> /\ useCommitted' \in {useCommitted, last}
      /\ UseGo(m, next) \/ (u.tries + 1 < UseCommitTries /\ UseGo(m, again))
  BY DEF UseCommit
<1>3. UseGrows /\ UseDone' = UseDone
  BY <1>2, DBIdle
<1>4. u.batch # {} /\ u.batch \subseteq UseDone /\ u.batch \subseteq UseOffsets /\ u.pos \in 0 .. Len(UseLog)
  BY <1>1, <1>2 DEF UseMemberOK, UseRecord
<1>5. last \in u.batch
  <2>1. u.batch \subseteq 0 .. Len(UseLog)
    BY <1>1, <1>4 DEF UseOffsets
  <2>2. \E o \in u.batch : \A x \in u.batch : x <= o
    BY <1>1, <1>4, <2>1, GreatestOffset, Zenon
  <2> QED
    BY <2>2 DEF UseNextOffset
<1> HIDE DEF last
<1>6. \A b \in u.batch \cup {u.pos}, o \in UseOffsets : o <= b => o \in UseDone
  BY <1>1, <1>4, Zenon DEF UseMemberOK
<1>7. /\ useCommitted' \in 0 .. Len(UseLog)
      /\ \A o \in UseOffsets : o <= useCommitted' => o \in UseDone
  BY <1>1, <1>2, <1>4, <1>5, <1>6 DEF UseOffsets
<1>8. UseMemberOK(next, UseDone)
  BY <1>4, <1>6, FreshOK, Zenon
<1>9. u.tries + 1 < UseCommitTries => UseMemberOK(again, UseDone)
  <2>1. /\ again \in UseRecord /\ again.pos = u.pos /\ again.at = u.at /\ again.batch = u.batch
        /\ again.single = u.single /\ again.bad = u.bad /\ again.tries = u.tries + 1
    <3> DEFINE n == u.tries + 1
    <3>1. n \in Nat
      BY <1>1 DEF UseRecord
    <3> HIDE DEF n, u
    <3>2. /\ [u EXCEPT !.held = FALSE, !.tries = n] \in UseRecord
          /\ again = [u EXCEPT !.held = FALSE, !.tries = n]
      BY <1>1, <3>1, Zenon DEF UseRecord, n
    <3> QED
      BY <1>1, <3>2 DEF UseRecord, n
  <2> HIDE DEF u, again
  <2> QED
    BY <1>1, <2>1 DEF UseMemberOK
<1> HIDE DEF next, again
<1> QED
  BY <1>1, <1>2, <1>3, <1>7, <1>8, <1>9, MemberMoves

LEMMA UseInitInv == UseInit => UseInv
<1> SUFFICES ASSUME UseInit PROVE UseInv
  OBVIOUS
<1>1. Len(UseLog) \in Nat /\ 0 \in 0 .. Len(UseLog) /\ \A o \in UseOffsets : ~(o <= 0)
  BY UseAssumption DEF UseOffsets
<1>2. UseFresh(0) = [UseFresh(0) EXCEPT !.at = "poll"]
  BY DEF UseFresh
<1>3. UseMemberOK(UseFresh(0), UseDone)
  BY <1>1, <1>2, FreshOK, Zenon
<1>4. /\ useMember = [m \in UseMembers |-> UseFresh(0)] /\ useOwner = "none" /\ useCommitted = 0
      /\ useRows = [r \in UseRequests |-> 0] /\ useRejects = {}
  BY DEF UseInit
<1>5. \A m \in UseMembers : useMember[m] = UseFresh(0)
  BY <1>4
<1>6. useRows \in [UseRequests -> 0 .. 1] /\ UseRejectsRight
  BY <1>4 DEF UseRejectsRight
<1> QED
  BY <1>1, <1>3, <1>4, <1>5, <1>6, Zenon DEF UseInv

LEMMA UseNextInv == UseInv /\ [UseNext]_useVars => UseInv'
<1> SUFFICES ASSUME UseInv, [UseNext]_useVars PROVE UseInv'
  OBVIOUS
<1>1. ASSUME NEW m \in UseMembers, UseStep(m) \/ UseCrash(m) PROVE UseInv'
  BY <1>1, GroupKeeps, PollKeeps, RejectsKeeps, InsertAllKeeps, InsertOneKeeps, RejectBadKeeps, CommitKeeps
     DEF UseStep
<1>2. CASE UseRevoke \/ UNCHANGED useVars
  <2>1. UNCHANGED <<useMember, useCommitted>> /\ UNCHANGED useDB /\ useOwner' \in UseMembers \cup {"none"}
    BY <1>2 DEF UseRevoke, useVars, useDB, UseInv
  <2> QED
    BY <2>1, DBIdle, MembersStay
<1> QED
  BY <1>1, <1>2 DEF UseNext

LEMMA UseInvSafe == UseInv => UseSafe
<1> SUFFICES ASSUME UseInv PROVE UseSafe
  OBVIOUS
<1>1. UseTypeOK
  BY DEF UseInv, UseTypeOK, UseMemberOK, UseMe
<1>2. UseNothingLost
  <2>1. \A o \in 1 .. useCommitted : o \in UseOffsets /\ o <= useCommitted
    BY UseAssumption DEF UseInv, UseOffsets
  <2> QED
    BY <2>1 DEF UseInv, UseNothingLost, UseDone
<1>3. UseOnce
  BY DEF UseInv, UseOnce
<1> QED
  BY <1>1, <1>2, <1>3 DEF UseInv, UseSafe

-----------------------------------------------------------------------------
(* Theorems about the usage consumers *)

(* Below what a member has read, every record is settled or in its batch,  *)
(* and a batch that is about to be committed is settled (collectBatch,     *)
(* process, commit).                                                       *)
THEOREM UsageInvariant == UseSpec => []UseInv
BY UseInitInv, UseNextInv, PTL DEF UseSpec

(* For any log, batch size and number of members, whatever crashes, fails, *)
(* or moves between members: every record below the committed offset has   *)
(* its row or is recorded as rejected, no request has two rows, and only   *)
(* what is refused is rejected (Run, insertAll, insertOne, commit).        *)
THEOREM UsageStoredOnce == UseSpec => []UseSafe
BY UsageInvariant, UseInvSafe, PTL

-----------------------------------------------------------------------------
(* The inductive invariant *)

(* Registration IDs are unique (newRegistrationID in register): no two     *)
(* entries hold the same one, so what is remembered about a registration   *)
(* is about one entry.                                                     *)
UniqueRegs ==
    \A i, j \in IDs :
        workers[i].reg # 0 /\ workers[i].reg = workers[j].reg => i = j

(* entry.drained is exactly the history of the entry's registration, and a *)
(* drained entry has reported nothing but DRAINING and FAILED since.       *)
DrainRemembered ==
    \A id \in IDs :
        workers[id].reg # 0 =>
            /\ workers[id].drained <=> workers[id].reg \in drains
            /\ workers[id].drained => workers[id].state \in {"DRAINING", "FAILED"}

RegistryInv == RegistryTypeOK /\ UniqueRegs /\ DrainRemembered

(* Every operation keeps an entry, drops it, or replaces it.  What the     *)
(* operations without a new registration do to the entries, put once.      *)
OnlyAges(ws, ws2) ==
    \A id \in IDs :
        \/ ws2[id] = NoEntry
        \/ /\ ws2[id].reg = ws[id].reg
           /\ ws2[id].state = ws[id].state
           /\ ws2[id].drained = ws[id].drained

-----------------------------------------------------------------------------
(* Lemmas about the operators *)

(* NoEntry is an entry. *)
LEMMA NoEntryType == NoEntry \in Entries
BY ConfigValid DEF NoEntry, NewEntry, Entries, States, MaxAge

(* evictLocked returns a registry, and only drops entries. *)
LEMMA EvictedKeeps ==
    ASSUME NEW ws \in [IDs -> Entries]
    PROVE  Evicted(ws) \in [IDs -> Entries] /\ OnlyAges(ws, Evicted(ws))
BY NoEntryType DEF Evicted, OnlyAges

(* So does making room for a registration. *)
LEMMA RoomMadeKeeps ==
    ASSUME RegistryTypeOK, NEW id \in IDs
    PROVE  RoomMade(id) \in [IDs -> Entries] /\ OnlyAges(workers, RoomMade(id))
<1>1. OnlyAges(workers, workers)
  BY DEF OnlyAges
<1>2. QED
  BY <1>1, EvictedKeeps DEF RoomMade, RegistryTypeOK

(* An operation that only ages and drops entries keeps the invariant. *)
LEMMA OnlyAgesKeepsInv ==
    ASSUME RegistryInv, workers' \in [IDs -> Entries], OnlyAges(workers, workers'),
           UNCHANGED <<lastReg, drains>>
    PROVE  RegistryInv'
<1>1. \A id \in IDs : workers'[id].reg # 0 => workers'[id].reg = workers[id].reg
  BY DEF OnlyAges, NoEntry, NewEntry
<1>2. RegistryTypeOK'
  <2>1. \A id \in IDs : workers'[id].reg <= lastReg
    BY DEF OnlyAges, NoEntry, NewEntry, RegistryInv, RegistryTypeOK
  <2>2. QED
    BY <2>1 DEF RegistryInv, RegistryTypeOK
<1>3. UniqueRegs'
  BY <1>1 DEF RegistryInv, UniqueRegs
<1>4. DrainRemembered'
  BY <1>1 DEF RegistryInv, DrainRemembered, OnlyAges, NoEntry, NewEntry
<1>5. QED
  BY <1>2, <1>3, <1>4 DEF RegistryInv

-----------------------------------------------------------------------------
(* The invariant is inductive *)

(* Register: the new registration is above every other one, so it is       *)
(* unique, and it has no history.                                          *)
LEMMA RegisterKeepsInv ==
    ASSUME RegistryInv, NEW id \in IDs, Register(id)
    PROVE  RegistryInv'
<1> DEFINE room == RoomMade(id)
           new == NewEntry(lastReg + 1)
<1>1. room \in [IDs -> Entries] /\ OnlyAges(workers, room)
  BY RoomMadeKeeps DEF RegistryInv
<1>2. /\ lastReg \in Nat /\ lastReg + 1 \in 1 .. MaxRegs
      /\ lastReg' = lastReg + 1 /\ drains' = drains
  BY ConfigValid DEF Register, RegistryInv, RegistryTypeOK
<1>3. new \in Entries /\ new.reg = lastReg + 1 /\ new.drained = FALSE
  BY <1>2, ConfigValid DEF NewEntry, Entries, MaxAge, States
<1> HIDE DEF new, room
<1>4. /\ workers' \in [IDs -> Entries]
      /\ workers'[id] = new
      /\ \A i \in IDs : i # id => workers'[i] = room[i]
  BY <1>1, <1>3 DEF Register, new, room
<1>5. \A i \in IDs : i # id =>
          /\ workers'[i].reg # 0 => workers'[i].reg = workers[i].reg
          /\ workers'[i].reg <= lastReg /\ workers'[i].reg \in Nat
  BY <1>1, <1>2, <1>4, ConfigValid
  DEF OnlyAges, NoEntry, NewEntry, RegistryInv, RegistryTypeOK, Entries
<1>6. RegistryTypeOK'
  <2>1. \A i \in IDs : workers'[i].reg <= lastReg'
    BY <1>2, <1>3, <1>4, <1>5
  <2>2. drains' \subseteq 1 .. lastReg'
    BY <1>2 DEF RegistryInv, RegistryTypeOK
  <2>3. QED
    BY <1>2, <1>4, <2>1, <2>2 DEF RegistryTypeOK
<1>7. UniqueRegs'
  <2>1. SUFFICES ASSUME NEW i \in IDs, NEW j \in IDs,
                        workers'[i].reg # 0, workers'[i].reg = workers'[j].reg
                 PROVE  i = j
    BY DEF UniqueRegs
  <2>2. CASE i # id /\ j # id
    BY <2>1, <2>2, <1>5 DEF RegistryInv, UniqueRegs
  <2>3. CASE i = id \/ j = id
    BY <2>1, <2>3, <1>2, <1>3, <1>4, <1>5
  <2>4. QED
    BY <2>2, <2>3
<1>8. DrainRemembered'
  <2>1. SUFFICES ASSUME NEW i \in IDs, workers'[i].reg # 0
                 PROVE  /\ workers'[i].drained <=> workers'[i].reg \in drains'
                        /\ workers'[i].drained => workers'[i].state \in {"DRAINING", "FAILED"}
    BY DEF DrainRemembered
  <2>2. CASE i = id
    BY <2>2, <1>2, <1>3, <1>4 DEF RegistryInv, RegistryTypeOK
  <2>3. CASE i # id
    BY <2>1, <2>3, <1>1, <1>2, <1>4 DEF OnlyAges, NoEntry, NewEntry, RegistryInv, DrainRemembered
  <2>4. QED
    BY <2>2, <2>3
<1>9. QED
  BY <1>6, <1>7, <1>8 DEF RegistryInv

(* Heartbeat: an accepted one is for the entry's own registration, so flag *)
(* and history change together; a drained entry accepts only DRAINING and  *)
(* FAILED.                                                                 *)
LEMMA HeartbeatKeepsInv ==
    ASSUME RegistryInv, NEW id \in IDs, NEW reg \in 1 .. MaxRegs, NEW state \in States,
           Heartbeat(id, reg, state)
    PROVE  RegistryInv'
<1>1. CASE BeatResult(id, reg, state) # "ok"
  BY <1>1, Zenon DEF Heartbeat, RegistryInv, RegistryTypeOK, UniqueRegs, DrainRemembered
<1>2. CASE BeatResult(id, reg, state) = "ok"
  <2>1. /\ workers[id].reg = reg /\ reg # 0
        /\ workers[id].drained => state \in {"DRAINING", "FAILED"}
    BY <1>2 DEF BeatResult
  <2>2. /\ workers' = [workers EXCEPT ![id] = Beaten(@, state)]
        /\ drains' = IF state = "DRAINING" THEN drains \cup {reg} ELSE drains
        /\ lastReg' = lastReg
    BY <1>2 DEF Heartbeat
  <2>3. /\ workers[id] \in Entries /\ Beaten(workers[id], state) \in Entries
        /\ Beaten(workers[id], state).reg = reg
        /\ Beaten(workers[id], state).state = state
        /\ Beaten(workers[id], state).drained <=> (workers[id].drained \/ state = "DRAINING")
    <3> DEFINE e == workers[id]
               d == e.drained \/ state = "DRAINING"
    <3>1. e \in Entries
      BY DEF RegistryInv, RegistryTypeOK
    <3>2. Beaten(e, state) = [reg |-> e.reg, state |-> state, drained |-> d, age |-> 0]
      BY DEF Beaten
    <3>3. e.reg \in 0 .. MaxRegs /\ d \in BOOLEAN /\ 0 \in 0 .. MaxAge
      BY <3>1, ConfigValid DEF Entries, MaxAge
    <3> HIDE DEF d
    <3>4. /\ Beaten(e, state) \in Entries
          /\ Beaten(e, state).reg = e.reg /\ Beaten(e, state).state = state
          /\ Beaten(e, state).drained = d
      BY <3>2, <3>3 DEF Entries
    <3>5. QED
      BY <3>1, <3>4, <2>1, Zenon DEF d
  <2>4. /\ workers' \in [IDs -> Entries]
        /\ workers'[id] = Beaten(workers[id], state)
        /\ \A i \in IDs : i # id => workers'[i] = workers[i]
        /\ \A i \in IDs : workers'[i].reg = workers[i].reg
    BY <2>1, <2>2, <2>3 DEF RegistryInv, RegistryTypeOK
  <2>5. RegistryTypeOK'
    <3>1. reg \in 1 .. lastReg
      BY <2>1 DEF RegistryInv, RegistryTypeOK
    <3>2. QED
      BY <2>2, <2>4, <3>1 DEF RegistryInv, RegistryTypeOK
  <2>6. UniqueRegs'
    BY <2>4 DEF RegistryInv, UniqueRegs
  <2>7. DrainRemembered'
    <3>1. SUFFICES ASSUME NEW i \in IDs, workers'[i].reg # 0
                   PROVE  /\ workers'[i].drained <=> workers'[i].reg \in drains'
                          /\ workers'[i].drained => workers'[i].state \in {"DRAINING", "FAILED"}
      BY DEF DrainRemembered
    <3>2. CASE i = id
      BY <3>2, <2>1, <2>2, <2>3, <2>4, Zenon DEF RegistryInv, DrainRemembered
    <3>3. CASE i # id
      <4>1. workers[i].reg # reg
        BY <3>3, <2>1 DEF RegistryInv, UniqueRegs
      <4>2. QED
        BY <3>1, <3>3, <4>1, <2>2, <2>4 DEF RegistryInv, DrainRemembered
    <3>4. QED
      BY <3>2, <3>3
  <2>8. QED
    BY <2>5, <2>6, <2>7 DEF RegistryInv
<1>3. QED
  BY <1>1, <1>2

(* The operations that drop entries or let them get older: all but         *)
(* Register and Heartbeat.                                                 *)
OtherStep ==
    \/ \E id \in IDs :
          \/ RegisterFull(id)
          \/ \E reg \in 1 .. MaxRegs : Deregister(id, reg)
          \/ \E n \in 0 .. MaxAge : Tick(id, n)
    \/ Sweep \/ Restart

LEMMA OthersOnlyAge ==
    ASSUME RegistryTypeOK, OtherStep
    PROVE  /\ workers' \in [IDs -> Entries] /\ OnlyAges(workers, workers')
           /\ UNCHANGED <<lastReg, drains>>
<1> DEFINE Goal == /\ workers' \in [IDs -> Entries] /\ OnlyAges(workers, workers')
                   /\ UNCHANGED <<lastReg, drains>>
<1>1. ASSUME NEW id \in IDs, RegisterFull(id) PROVE Goal
  BY <1>1, RoomMadeKeeps DEF RegisterFull
<1>2. ASSUME NEW id \in IDs, NEW reg \in 1 .. MaxRegs, Deregister(id, reg) PROVE Goal
  BY <1>2, NoEntryType DEF Deregister, OnlyAges, RegistryTypeOK
<1>3. ASSUME NEW id \in IDs, NEW n \in 0 .. MaxAge, Tick(id, n) PROVE Goal
  <2>1. /\ workers' = [workers EXCEPT ![id].age = n] /\ UNCHANGED <<lastReg, drains>>
    BY <1>3 DEF Tick
  <2>2. workers' \in [IDs -> Entries]
    BY <2>1 DEF RegistryTypeOK, Entries
  <2>3. OnlyAges(workers, workers')
    BY <2>1 DEF RegistryTypeOK, OnlyAges, Entries
  <2>4. QED
    BY <2>1, <2>2, <2>3
<1>4. CASE Sweep
  BY <1>4, EvictedKeeps DEF Sweep, RegistryTypeOK
<1>5. CASE Restart
  BY <1>5, NoEntryType DEF Restart, OnlyAges
<1>6. QED
  BY <1>1, <1>2, <1>3, <1>4, <1>5 DEF OtherStep

(* The initial registry is empty. *)
LEMMA InitInv == Init => RegistryInv
<1> SUFFICES ASSUME Init PROVE RegistryInv
  OBVIOUS
<1>1. \A id \in IDs : workers[id] = NoEntry /\ workers[id].reg = 0
  BY DEF Init, NoEntry, NewEntry
<1>2. RegistryTypeOK
  BY <1>1, NoEntryType, ConfigValid DEF Init, RegistryTypeOK
<1>3. QED
  BY <1>1, <1>2 DEF RegistryInv, UniqueRegs, DrainRemembered

(* Every step keeps the invariant: one case per operation that matters. *)
LEMMA NextInv == RegistryInv /\ [RegistryNext]_registryVars => RegistryInv'
<1> SUFFICES ASSUME RegistryInv, [RegistryNext]_registryVars PROVE RegistryInv'
  OBVIOUS
<1>1. ASSUME NEW id \in IDs, Register(id) PROVE RegistryInv'
  BY <1>1, RegisterKeepsInv
<1>2. ASSUME NEW id \in IDs, NEW reg \in 1 .. MaxRegs, NEW state \in States,
             Heartbeat(id, reg, state)
      PROVE  RegistryInv'
  BY <1>2, HeartbeatKeepsInv
<1>3. CASE OtherStep
  BY <1>3, OthersOnlyAge, OnlyAgesKeepsInv DEF RegistryInv
<1>4. CASE UNCHANGED registryVars
  BY <1>4 DEF registryVars, RegistryInv, RegistryTypeOK, UniqueRegs, DrainRemembered
<1>5. QED
  BY <1>1, <1>2, <1>3, <1>4 DEF RegistryNext, OtherStep

-----------------------------------------------------------------------------
(* Theorems *)

(* The invariant holds in every reachable state of the registry. *)
THEOREM RegistryInvariant == RegistrySpec => []RegistryInv
BY InitInv, NextInv, PTL DEF RegistrySpec

(* Every entry is well formed and holds a registration that was issued     *)
(* (register, heartbeat, evictLocked).                                     *)
THEOREM RegistryTypeCorrect == RegistrySpec => []RegistryTypeOK
<1>1. RegistryInv => RegistryTypeOK
  BY DEF RegistryInv
<1>2. QED
  BY <1>1, RegistryInvariant, PTL

(* A drain is one-way for the whole incarnation, for every order of        *)
(* registrations, heartbeats, evictions and restarts (heartbeat).          *)
THEOREM DrainOneWay == RegistrySpec => []DrainIsOneWay
<1>1. RegistryInv => DrainIsOneWay
  <2> SUFFICES ASSUME RegistryInv, NEW id \in IDs, workers[id].reg \in drains
               PROVE  ~Eligible(workers[id])
    BY DEF DrainIsOneWay
  <2>1. workers[id].reg # 0
    BY DEF RegistryInv, RegistryTypeOK
  <2>2. workers[id].state \in {"DRAINING", "FAILED"}
    BY <2>1 DEF RegistryInv, DrainRemembered
  <2>3. QED
    BY <2>2 DEF Eligible
<1>2. QED
  BY <1>1, RegistryInvariant, PTL

(* Entries that are only kept or dropped do not become more. *)
LEMMA FewerRegistered ==
    ASSUME NEW ws, NEW ws2, OnlyAges(ws, ws2), IsFiniteSet(IDs)
    PROVE  /\ Registered(ws2) \subseteq Registered(ws)
           /\ IsFiniteSet(Registered(ws)) /\ IsFiniteSet(Registered(ws2))
           /\ Cardinality(Registered(ws2)) <= Cardinality(Registered(ws))
<1>1. Registered(ws2) \subseteq Registered(ws)
  BY DEF Registered, OnlyAges, NoEntry, NewEntry
<1>2. IsFiniteSet(Registered(ws)) /\ IsFiniteSet(Registered(ws2))
  <2>1. Registered(ws) \subseteq IDs /\ Registered(ws2) \subseteq IDs
    BY DEF Registered
  <2>2. QED
    BY <2>1, FS_Subset
<1>3. QED
  BY <1>1, <1>2, FS_Subset

(* register lets in a new ID only below the limit. *)
LEMMA RegisterKeepsBound ==
    ASSUME RegistryTypeOK, WorkersBounded, NEW id \in IDs, Register(id)
    PROVE  WorkersBounded'
<1> DEFINE room == RoomMade(id)
           before == Registered(room)
<1>1. room \in [IDs -> Entries] /\ OnlyAges(workers, room)
  BY RoomMadeKeeps
<1>2. /\ IsFiniteSet(before) /\ Cardinality(before) <= Cardinality(Registered(workers))
      /\ IsFiniteSet(Registered(workers)) /\ before \subseteq Registered(workers)
  BY <1>1, FewerRegistered, ConfigValid, Zenon
<1>3. Cardinality(before) \in Nat /\ Cardinality(Registered(workers)) \in Nat
  BY <1>2, FS_CardinalityType
<1>4. workers' = [room EXCEPT ![id] = NewEntry(lastReg + 1)]
  BY DEF Register
<1>5. Registered(workers)' \subseteq before \cup {id}
  BY <1>1, <1>4 DEF Registered
<1>6. IsFiniteSet(before \cup {id})
  BY <1>2, FS_AddElement
<1>7. Cardinality(Registered(workers)') <= Cardinality(before \cup {id})
  BY <1>5, <1>6, FS_Subset
<1>8. Cardinality(before \cup {id}) <= MaxWorkers
  <2>1. CASE workers[id].reg = 0
    <3>1. ~(Cardinality(before) >= MaxWorkers)
      BY <2>1 DEF Register, Full
    <3>2. Cardinality(before \cup {id}) <= Cardinality(before) + 1
      <4> HIDE DEF before
      <4>1. \/ Cardinality(before \cup {id}) = Cardinality(before)
            \/ Cardinality(before \cup {id}) = Cardinality(before) + 1
        BY <1>2, FS_AddElement, Zenon
      <4>2. QED
        BY <4>1, <1>3
    <3>3. QED
      BY <1>3, <1>6, <3>1, <3>2, FS_CardinalityType, ConfigValid
  <2>2. CASE workers[id].reg # 0
    <3>1. room = workers /\ id \in before
      BY <2>2 DEF RoomMade, Registered
    <3>2. before \cup {id} = Registered(workers)
      BY <3>1
    <3>3. QED
      BY <3>2, Zenon DEF WorkersBounded
  <2>3. QED
    BY <2>1, <2>2
<1>9. /\ Cardinality(Registered(workers)') \in Nat
      /\ Cardinality(before \cup {id}) \in Nat
  BY <1>5, <1>6, FS_Subset, FS_CardinalityType
<1>10. QED
  BY <1>7, <1>8, <1>9, ConfigValid DEF WorkersBounded

(* MaxWorkers bounds the registry, whatever the limit (register): the      *)
(* evictions at the limit and the limit itself go together.                *)
THEOREM RegistryBounded == RegistrySpec => []WorkersBounded
<1>1. Init => WorkersBounded
  <2> SUFFICES ASSUME Init PROVE WorkersBounded
    OBVIOUS
  <2>1. Registered(workers) = {}
    BY DEF Init, Registered, NoEntry, NewEntry
  <2>2. QED
    BY <2>1, FS_EmptySet, ConfigValid DEF WorkersBounded
<1>2. RegistryInv /\ WorkersBounded /\ [RegistryNext]_registryVars => WorkersBounded'
  <2> SUFFICES ASSUME RegistryInv, WorkersBounded, [RegistryNext]_registryVars
               PROVE  WorkersBounded'
    OBVIOUS
  <2>1. ASSUME NEW id \in IDs, Register(id) PROVE WorkersBounded'
    BY <2>1, RegisterKeepsBound DEF RegistryInv
  <2>2. ASSUME NEW id \in IDs, NEW reg \in 1 .. MaxRegs, NEW state \in States,
               Heartbeat(id, reg, state)
        PROVE  WorkersBounded'
    <3>1. \A i \in IDs : workers'[i].reg = workers[i].reg
      BY <2>2 DEF Heartbeat, Beaten, RegistryInv, RegistryTypeOK
    <3>2. Registered(workers)' = Registered(workers)
      BY <3>1 DEF Registered
    <3>3. QED
      BY <3>2 DEF WorkersBounded
  <2>3. CASE OtherStep
    <3>1. OnlyAges(workers, workers')
      BY <2>3, OthersOnlyAge DEF RegistryInv
    <3>2. /\ Cardinality(Registered(workers')) <= Cardinality(Registered(workers))
          /\ IsFiniteSet(Registered(workers)) /\ IsFiniteSet(Registered(workers'))
      BY <3>1, FewerRegistered, ConfigValid
    <3>3. QED
      BY <3>2, FS_CardinalityType, ConfigValid DEF WorkersBounded, Registered
  <2>4. CASE UNCHANGED registryVars
    BY <2>4 DEF registryVars, WorkersBounded, Registered
  <2>5. QED
    BY <2>1, <2>2, <2>3, <2>4 DEF RegistryNext, OtherStep
<1>3. QED
  BY <1>1, <1>2, RegistryInvariant, PTL DEF RegistrySpec

-----------------------------------------------------------------------------
(* The inductive invariant *)

(* An agent, when n registrations were issued. *)
AgentRecord(n) ==
    [id : IDs, at : Places, registered : BOOLEAN, superseded : BOOLEAN, reg : 0 .. n,
     last : States, seen : States]

(* A call names a registration that was issued, and so does the answer to  *)
(* a successful register.                                                  *)
CallOK(c, n) ==
    /\ c \in [kind : {"none", "register", "beat", "deregister"}, reg : 0 .. n,
              state : States, got : 0 .. n,
              answer : {"none", "ok", "full", "unknown", "stale", "conflict"}]
    /\ c.kind \in {"beat", "deregister"} => c.reg # 0
    /\ c.kind = "register" /\ c.answer = "ok" => c.got # 0

(* Where an agent is (a) agrees with what it waits for (c) and what it     *)
(* believes.                                                               *)
AgentOK(a, c, n) ==
    /\ a \in AgentRecord(n)
    /\ a.registered => a.reg # 0
    /\ CallOK(c, n)
    /\ a.at = "register" => c.kind = "register"
    /\ a.at = "leaveBeat" => a.registered

LateOK(l, n) == l.p \in Agents /\ CallOK(l.call, n) /\ l.call.answer = "none"

AgentInv ==
    /\ RegistryInv
    /\ DOMAIN agent = Agents /\ agent = [p \in Agents |-> agent[p]]
    /\ DOMAIN call = Agents /\ call = [p \in Agents |-> call[p]]
    /\ \A p \in Agents : AgentOK(agent[p], call[p], lastReg)
    /\ \A l \in late : LateOK(l, lastReg)
    /\ backend \in [Agents -> Reports \cup BadBackends]

-----------------------------------------------------------------------------
(* The agents as clients of the registry *)

LEMMA TypesMatter == AgentInv => TypeOK
<1> SUFFICES ASSUME AgentInv PROVE TypeOK
  OBVIOUS
<1>1. agent \in [Agents -> AgentRecord(lastReg)]
  BY DEF AgentInv, AgentOK
<1>2. /\ \A p \in Agents : agent[p].registered => agent[p].reg # 0
      /\ \A l \in late : l.call.answer = "none"
  BY DEF AgentInv, AgentOK, LateOK
<1> QED
  BY <1>1, <1>2, Zenon DEF AgentInv, AgentRecord, TypeOK, RegistryInv

(* Registrations are issued one at a time and never taken back. *)
LEMMA RegsGrow ==
    ASSUME RegistryInv, [RegistryNext]_registryVars
    PROVE  lastReg \in Nat /\ lastReg' \in {lastReg, lastReg + 1}
<1>1. lastReg \in Nat
  BY ConfigValid DEF RegistryInv, RegistryTypeOK
<1>2. lastReg' \in {lastReg, lastReg + 1}
  BY DEF RegistryNext, registryVars, Register, RegisterFull, Heartbeat, Deregister, Tick,
         Sweep, Restart
<1> QED
  BY <1>1, <1>2

LEMMA OKGrows ==
    ASSUME NEW n \in Nat, NEW k \in {n, n + 1}
    PROVE  /\ \A c : CallOK(c, n) => CallOK(c, k)
           /\ \A a, c : AgentOK(a, c, n) => AgentOK(a, c, k)
           /\ \A l : LateOK(l, n) => LateOK(l, k)
<1>1. 0 .. n \subseteq 0 .. k
  OBVIOUS
<1>2. ASSUME NEW c, CallOK(c, n) PROVE CallOK(c, k)
  BY <1>1, <1>2 DEF CallOK
<1>3. ASSUME NEW a, NEW c, AgentOK(a, c, n) PROVE AgentOK(a, c, k)
  <2>1. a \in AgentRecord(k)
    BY <1>1, <1>3 DEF AgentOK, AgentRecord
  <2> QED
    BY <1>2, <1>3, <2>1 DEF AgentOK
<1> QED
  BY <1>2, <1>3, Zenon DEF LateOK

(* A handler of the control plane is an operation of the registry. *)
LEMMA HandleIsRegistryStep ==
    ASSUME RegistryInv, NEW id \in IDs, NEW c, CallOK(c, lastReg), Handle(id, c)
    PROVE  RegistryNext
<1>1. c.state \in States /\ lastReg \in 0 .. MaxRegs /\ MaxRegs \in Nat
  BY ConfigValid DEF CallOK, RegistryInv, RegistryTypeOK
<1>2. CASE c.kind = "register"
  BY <1>2 DEF Handle, RegistryNext
<1>3. CASE c.kind \in {"beat", "deregister"}
  <2>1. c.reg \in 1 .. MaxRegs
    BY <1>1, <1>3 DEF CallOK
  <2> QED
    BY <1>1, <1>3, <2>1 DEF Handle, RegistryNext
<1> QED
  BY <1>2, <1>3 DEF Handle

LEMMA MarksAreAges == Marks \subseteq 0 .. MaxAge
BY ConfigValid DEF Marks, MaxAge

LEMMA AgentsAreClients ==
    ASSUME AgentInv, [AgentsNext]_vars
    PROVE  [RegistryNext]_registryVars
<1>1. ASSUME NEW p \in Agents,
             \/ Start(p) \/ AgentStep(p) \/ Shutdown(p) \/ TimesOut(p) \/ Crash(p)
             \/ BackendChanges(p)
      PROVE  UNCHANGED registryVars
  BY <1>1, Zenon DEF Start, AgentStep, Probe, RegisterAnswered, BeatAnswered, DeregisterAnswered,
              Leaves, Shutdown, TimesOut, Crash, BackendChanges
<1>2. ASSUME NEW p \in Agents, Serve(p) PROVE RegistryNext
  <2>1. Handle(agent[p].id, call[p]) /\ agent[p].id \in IDs /\ CallOK(call[p], lastReg)
    BY <1>2, Zenon DEF Serve, AgentInv, AgentOK, AgentRecord
  <2> QED
    BY <2>1, HandleIsRegistryStep DEF AgentInv
<1>3. CASE ServeLate
  <2>1. PICK l \in late : Handle(agent[l.p].id, l.call)
    BY <1>3 DEF ServeLate
  <2>2. l.p \in Agents /\ CallOK(l.call, lastReg)
    BY DEF AgentInv, LateOK
  <2>3. agent[l.p].id \in IDs
    BY <2>2 DEF AgentInv, AgentOK, AgentRecord
  <2> QED
    BY <2>1, <2>2, <2>3, HandleIsRegistryStep DEF AgentInv
<1>4. ASSUME NEW id \in IDs, Fades(id) \/ Stalls(id) PROVE RegistryNext
  BY <1>4, MarksAreAges DEF Fades, Stalls, RegistryNext
<1>5. CASE ControlPlaneRestarts \/ SweepStep \/ UNCHANGED vars
  BY <1>5 DEF ControlPlaneRestarts, SweepStep, vars, RegistryNext
<1> QED
  BY <1>1, <1>2, <1>3, <1>4, <1>5 DEF AgentsNext

-----------------------------------------------------------------------------
(* The invariant is inductive *)

(* A step of one agent. *)
LEMMA MoveKeeps ==
    ASSUME AgentInv, UNCHANGED <<registryVars, backend>>, NEW p \in Agents, NEW a, NEW c,
           agent' = [agent EXCEPT ![p] = a], call' = [call EXCEPT ![p] = c],
           AgentOK(a, c, lastReg), \A l \in late' : LateOK(l, lastReg)
    PROVE  AgentInv'
<1>1. RegistryInv' /\ lastReg' = lastReg
  BY NextInv DEF AgentInv, registryVars
<1>2. /\ DOMAIN agent' = Agents /\ agent' = [q \in Agents |-> agent'[q]]
      /\ DOMAIN call' = Agents /\ call' = [q \in Agents |-> call'[q]]
      /\ agent'[p] = a /\ call'[p] = c
      /\ \A q \in Agents : q # p => agent'[q] = agent[q] /\ call'[q] = call[q]
  BY Zenon DEF AgentInv
<1>3. \A q \in Agents : AgentOK(agent'[q], call'[q], lastReg)
  BY <1>2 DEF AgentInv
<1> QED
  BY <1>1, <1>2, <1>3, Zenon DEF AgentInv

(* A sender gives up: its call may be carried out later. *)
LEMMA AbandonedLate ==
    ASSUME AgentInv, NEW p \in Agents, Abandoned(p)
    PROVE  \A l \in late' : LateOK(l, lastReg)
<1> DEFINE new == [p |-> p, no |-> faults, call |-> call[p]]
<1>1. \A l \in late : LateOK(l, lastReg)
  BY DEF AgentInv
<1>2. late' = late \/ (Pending(p) /\ late' = late \cup {new})
  BY DEF Abandoned
<1>3. Pending(p) => LateOK(new, lastReg)
  BY DEF AgentInv, AgentOK, LateOK, Pending
<1> QED
  BY <1>1, <1>2, <1>3, Zenon

LEMMA SentOK ==
    ASSUME NEW n \in Nat, NEW kind \in {"register", "beat", "deregister"}, NEW reg \in 0 .. n,
           NEW state \in States, kind # "register" => reg # 0
    PROVE  CallOK(Sent(kind, reg, state), n) /\ Sent(kind, reg, state).kind = kind
<1> DEFINE Rec == [kind : {"none", "register", "beat", "deregister"}, reg : 0 .. n,
                   state : States, got : 0 .. n,
                   answer : {"none", "ok", "full", "unknown", "stale", "conflict"}]
<1>1. NoCall \in Rec /\ NoCall.answer = "none"
  BY DEF NoCall, States
<1>2. /\ Sent(kind, reg, state) \in Rec /\ Sent(kind, reg, state).kind = kind
      /\ Sent(kind, reg, state).reg = reg /\ Sent(kind, reg, state).answer = "none"
  BY <1>1, Zenon DEF Sent
<1> QED
  BY <1>2 DEF CallOK

LEMMA NoCallOK == \A n \in Nat : CallOK(NoCall, n)
BY DEF NoCall, CallOK, States

(* What a reported backend state becomes. *)
LEMMA AgentFields ==
    ASSUME AgentInv, NEW p \in Agents
    PROVE  /\ lastReg \in Nat
           /\ agent[p] \in AgentRecord(lastReg) /\ CallOK(call[p], lastReg)
           /\ agent[p].registered => agent[p].reg \in 0 .. lastReg /\ agent[p].reg # 0
           /\ agent[p].at = "register" => call[p].kind = "register"
           /\ agent[p].at = "leaveBeat" => agent[p].registered
           /\ backend[p] \in BadBackends \/ backend[p] \in States
           /\ \A l \in late : LateOK(l, lastReg)
<1>1. backend[p] \in Reports \cup BadBackends
  BY DEF AgentInv
<1> QED
  BY <1>1, ConfigValid, AgentsAssumption
     DEF AgentInv, AgentOK, AgentRecord, RegistryInv, RegistryTypeOK

(* An agent that has ended, or forgot its registration. *)
LEMMA EndedOK ==
    ASSUME NEW n \in Nat, NEW a \in AgentRecord(n), NEW b \in BOOLEAN
    PROVE  AgentOK(Ended(a, b), NoCall, n) /\ AgentOK(Forgets(a), NoCall, n)
<1>1. 0 \in 0 .. n /\ "gone" \in Places /\ "idle" \in Places
      /\ "REGISTERING" \in States /\ "FAILED" \in States
  BY DEF Places, States
<1>2. Ended(a, b) \in AgentRecord(n) /\ Ended(a, b).registered = FALSE /\ Ended(a, b).at = "gone"
  BY <1>1, Zenon DEF Ended, AgentRecord
<1>3. Forgets(a) \in AgentRecord(n) /\ Forgets(a).registered = FALSE /\ Forgets(a).at = "idle"
  BY <1>1, Zenon DEF Forgets, AgentRecord
<1> QED
  BY <1>2, <1>3, NoCallOK DEF AgentOK

LEMMA ProbeKeeps ==
    ASSUME AgentInv, NEW p \in Agents, Probe(p)
    PROVE  AgentInv'
<1> DEFINE a == agent[p]
           n == lastReg
           report == IF backend[p] \in BadBackends THEN "FAILED" ELSE backend[p]
           asks == [a EXCEPT !.at = "register", !.seen = report]
           quits == [a EXCEPT !.at = "deregister"]
           beats == [a EXCEPT !.at = "beat"]
<1>1. /\ n \in Nat /\ a \in AgentRecord(n) /\ report \in States
      /\ a.registered => a.reg \in 0 .. n /\ a.reg # 0
      /\ \A l \in late : LateOK(l, n)
  BY AgentFields, Zenon DEF States
<1>2. /\ asks \in AgentRecord(n) /\ asks.at = "register"
      /\ asks.registered = a.registered /\ asks.reg = a.reg
      /\ quits \in AgentRecord(n) /\ quits.at = "deregister"
      /\ quits.registered = a.registered /\ quits.reg = a.reg
      /\ beats \in AgentRecord(n) /\ beats.at = "beat"
      /\ beats.registered = a.registered /\ beats.reg = a.reg
  BY <1>1, Zenon DEF AgentRecord, Places
<1>3. /\ UNCHANGED <<registryVars, backend, late>>
      /\ \/ /\ Moves(p, asks) /\ Calls(p, Sent("register", 0, "REGISTERING"))
         \/ /\ a.registered /\ Moves(p, quits)
            /\ Calls(p, Sent("deregister", a.reg, "FAILED"))
         \/ /\ a.registered /\ Moves(p, beats) /\ Calls(p, Sent("beat", a.reg, report))
  BY DEF Probe
<1> HIDE DEF a, n, report, asks, quits, beats
<1>4. CASE Moves(p, asks) /\ Calls(p, Sent("register", 0, "REGISTERING"))
  <2>1. AgentOK(asks, Sent("register", 0, "REGISTERING"), n)
    BY <1>1, <1>2, SentOK DEF AgentOK, States
  <2> QED
    BY <1>1, <1>3, <1>4, <2>1, MoveKeeps, Zenon DEF Moves, Calls, n
<1>5. CASE a.registered /\ Moves(p, quits) /\ Calls(p, Sent("deregister", a.reg, "FAILED"))
  <2>1. AgentOK(quits, Sent("deregister", a.reg, "FAILED"), n)
    BY <1>1, <1>2, <1>5, SentOK DEF AgentOK, States
  <2> QED
    BY <1>1, <1>3, <1>5, <2>1, MoveKeeps, Zenon DEF Moves, Calls, n
<1>6. CASE a.registered /\ Moves(p, beats) /\ Calls(p, Sent("beat", a.reg, report))
  <2>1. AgentOK(beats, Sent("beat", a.reg, report), n)
    BY <1>1, <1>2, <1>6, SentOK DEF AgentOK
  <2> QED
    BY <1>1, <1>3, <1>6, <2>1, MoveKeeps, Zenon DEF Moves, Calls, n
<1> QED
  BY <1>3, <1>4, <1>5, <1>6

LEMMA RegisterAnsweredKeeps ==
    ASSUME AgentInv, NEW p \in Agents, RegisterAnswered(p)
    PROVE  AgentInv'
<1> DEFINE a == agent[p]
           n == lastReg
           got == call[p].got
           has == [a EXCEPT !.at = "beat", !.registered = TRUE, !.reg = got,
                            !.last = "REGISTERING", !.seen = "FAILED"]
           rests == [a EXCEPT !.at = "idle", !.seen = "FAILED"]
<1>1. /\ n \in Nat /\ a \in AgentRecord(n) /\ CallOK(call[p], n)
      /\ a.registered => a.reg \in 0 .. n /\ a.reg # 0
      /\ a.at = "register" => call[p].kind = "register"
      /\ \A l \in late : LateOK(l, n)
  BY AgentFields, Zenon
<1>2. /\ UNCHANGED <<registryVars, backend, late>> /\ a.at = "register"
      /\ \/ Answered(p, "ok") /\ Moves(p, has) /\ Calls(p, Sent("beat", got, a.seen))
         \/ Moves(p, rests) /\ Calls(p, NoCall)
  BY DEF RegisterAnswered, Is
<1>3. rests \in AgentRecord(n) /\ rests.at = "idle" /\ rests.registered = a.registered /\ rests.reg = a.reg
  BY <1>1, Zenon DEF AgentRecord, Places, States
<1>4. got \in 0 .. n /\ a.seen \in States
  BY <1>1, Zenon DEF CallOK, AgentRecord
<1>5. Answered(p, "ok") => got # 0
  BY <1>1, <1>2 DEF CallOK, Answered
<1>6. has \in AgentRecord(n) /\ has.at = "beat" /\ has.reg = got
  BY <1>1, <1>4, Zenon DEF AgentRecord, Places, States
<1> HIDE DEF a, n, got, has, rests
<1>7. CASE Answered(p, "ok") /\ Moves(p, has) /\ Calls(p, Sent("beat", got, a.seen))
  <2>1. AgentOK(has, Sent("beat", got, a.seen), n)
    BY <1>1, <1>4, <1>5, <1>6, <1>7, SentOK, Zenon DEF AgentOK
  <2> QED
    BY <1>1, <1>2, <1>7, <2>1, MoveKeeps, Zenon DEF Moves, Calls, n
<1>8. CASE Moves(p, rests) /\ Calls(p, NoCall)
  <2>1. AgentOK(rests, NoCall, n)
    BY <1>1, <1>3, NoCallOK, Zenon DEF AgentOK
  <2> QED
    BY <1>1, <1>2, <1>8, <2>1, MoveKeeps, Zenon DEF Moves, Calls, n
<1> QED
  BY <1>2, <1>7, <1>8

LEMMA BeatAnsweredKeeps ==
    ASSUME AgentInv, NEW p \in Agents, BeatAnswered(p)
    PROVE  AgentInv'
<1> DEFINE a == agent[p]
           n == lastReg
           goes == [a EXCEPT !.at = "idle", !.last = call[p].state]
<1>1. /\ n \in Nat /\ a \in AgentRecord(n) /\ CallOK(call[p], n)
      /\ a.registered => a.reg # 0
      /\ \A l \in late : LateOK(l, n)
  BY AgentFields, Zenon
<1>2. /\ goes \in AgentRecord(n) /\ goes.at = "idle"
      /\ goes.registered = a.registered /\ goes.reg = a.reg
  BY <1>1, Zenon DEF AgentRecord, Places, CallOK
<1>3. /\ UNCHANGED <<registryVars, backend, late>> /\ Calls(p, NoCall)
      /\ Moves(p, goes) \/ Moves(p, Ended(a, TRUE)) \/ Moves(p, Forgets(a))
  BY Zenon DEF BeatAnswered
<1> HIDE DEF a, n, goes
<1>4. /\ AgentOK(goes, NoCall, n) /\ AgentOK(Ended(a, TRUE), NoCall, n)
      /\ AgentOK(Forgets(a), NoCall, n)
  BY <1>1, <1>2, EndedOK, NoCallOK, Zenon DEF AgentOK
<1> QED
  BY <1>1, <1>3, <1>4, MoveKeeps, Zenon DEF Moves, Calls, n

LEMMA LeavingKeeps ==
    ASSUME AgentInv, NEW p \in Agents,
           DeregisterAnswered(p) \/ Leaves(p) \/ Shutdown(p) \/ Start(p)
    PROVE  AgentInv'
<1> DEFINE a == agent[p]
           n == lastReg
           starts == [a EXCEPT !.at = "idle"]
           says == [a EXCEPT !.at = "leaveBeat"]
           quits == [a EXCEPT !.at = "leave"]
<1>1. /\ n \in Nat /\ a \in AgentRecord(n) /\ CallOK(call[p], n)
      /\ a.registered => a.reg \in 0 .. n /\ a.reg # 0
      /\ a.at = "leaveBeat" => a.registered
      /\ \A l \in late : LateOK(l, n)
  BY AgentFields, Zenon
<1>2. /\ starts \in AgentRecord(n) /\ starts.at = "idle"
      /\ starts.registered = a.registered /\ starts.reg = a.reg
      /\ says \in AgentRecord(n) /\ says.at = "leaveBeat"
      /\ says.registered = a.registered /\ says.reg = a.reg
      /\ quits \in AgentRecord(n) /\ quits.at = "leave"
      /\ quits.registered = a.registered /\ quits.reg = a.reg
  BY <1>1 DEF AgentRecord, Places
<1>3. UNCHANGED <<registryVars, backend, late>>
  BY Zenon DEF DeregisterAnswered, Leaves, Shutdown, Start
<1> HIDE DEF starts, says, quits, n
<1>4. CASE DeregisterAnswered(p)
  <2>1. Calls(p, NoCall) /\ (Moves(p, Forgets(a)) \/ Moves(p, Ended(a, FALSE)))
    BY <1>4, Zenon DEF DeregisterAnswered
  <2>2. AgentOK(Forgets(a), NoCall, n) /\ AgentOK(Ended(a, FALSE), NoCall, n)
    BY <1>1, EndedOK, Zenon
  <2> QED
    BY <1>1, <1>3, <2>1, <2>2, MoveKeeps, Zenon DEF Moves, Calls, n
<1>5. CASE Leaves(p)
  <2>1. /\ a.at = "leaveBeat" /\ Moves(p, quits)
        /\ Calls(p, Sent("deregister", a.reg, "FAILED"))
    BY <1>5, Zenon DEF Leaves, Is, quits
  <2>2. AgentOK(quits, Sent("deregister", a.reg, "FAILED"), n)
    <3>1. CallOK(Sent("deregister", a.reg, "FAILED"), n)
      BY <1>1, <2>1, SentOK, Zenon DEF States
    <3> QED
      BY <1>1, <1>2, <2>1, <3>1, Zenon DEF AgentOK
  <2> QED
    BY <1>1, <1>3, <2>1, <2>2, MoveKeeps, Zenon DEF Moves, Calls, n
<1>6. CASE Shutdown(p)
  <2>1. CASE Moves(p, Ended(a, FALSE)) /\ UNCHANGED call
    <3>1. AgentOK(Ended(a, FALSE), call[p], n)
      BY <1>1, EndedOK, Zenon DEF AgentOK, Ended, AgentRecord
    <3>2. call' = [call EXCEPT ![p] = call[p]]
      BY <2>1 DEF AgentInv
    <3> QED
      BY <1>1, <1>3, <2>1, <3>1, <3>2, MoveKeeps, Zenon DEF Moves, n
  <2>2. CASE a.registered /\ Moves(p, says) /\ Calls(p, Sent("beat", a.reg, "DRAINING"))
    <3>1. CallOK(Sent("beat", a.reg, "DRAINING"), n)
      BY <1>1, <2>2, SentOK, Zenon DEF States
    <3>2. AgentOK(says, Sent("beat", a.reg, "DRAINING"), n)
      BY <1>1, <1>2, <2>2, <3>1, Zenon DEF AgentOK
    <3> QED
      BY <1>1, <1>3, <2>2, <3>2, MoveKeeps, Zenon DEF Moves, Calls, n
  <2> QED
    BY <1>6, <2>1, <2>2, Zenon DEF Shutdown, says
<1>7. CASE Start(p)
  <2>1. Moves(p, starts) /\ call' = [call EXCEPT ![p] = call[p]]
    BY <1>7 DEF Start, starts, AgentInv
  <2>2. AgentOK(starts, call[p], n)
    BY <1>1, <1>2, Zenon DEF AgentOK
  <2> QED
    BY <1>1, <1>3, <2>1, <2>2, MoveKeeps, Zenon DEF Moves, n
<1> QED
  BY <1>4, <1>5, <1>6, <1>7

LEMMA FaultKeeps ==
    ASSUME AgentInv, NEW p \in Agents, TimesOut(p) \/ Crash(p)
    PROVE  AgentInv'
<1> DEFINE a == agent[p]
           n == lastReg
           rests == [a EXCEPT !.at = "idle", !.seen = "FAILED"]
           quits == [a EXCEPT !.at = "leave"]
<1>1. /\ n \in Nat /\ a \in AgentRecord(n)
      /\ a.registered => a.reg \in 0 .. n /\ a.reg # 0
      /\ a.at = "leaveBeat" => a.registered
  BY AgentFields, Zenon
<1>2. /\ rests \in AgentRecord(n) /\ rests.at = "idle"
      /\ rests.registered = a.registered /\ rests.reg = a.reg
      /\ quits \in AgentRecord(n) /\ quits.at = "leave"
      /\ quits.registered = a.registered /\ quits.reg = a.reg
  BY <1>1, Zenon DEF AgentRecord, Places, States
<1>3. UNCHANGED <<registryVars, backend>> /\ \A l \in late' : LateOK(l, n)
  BY AbandonedLate, Zenon DEF TimesOut, Crash
<1>4. \/ /\ Moves(p, rests) \/ Moves(p, Forgets(a)) \/ Moves(p, Ended(a, FALSE))
         /\ Calls(p, NoCall)
      \/ /\ a.at = "leaveBeat" /\ Moves(p, quits)
         /\ Calls(p, Sent("deregister", a.reg, "FAILED"))
  BY Zenon DEF TimesOut, Crash
<1> HIDE DEF a, n, rests, quits
<1>5. /\ AgentOK(rests, NoCall, n) /\ AgentOK(Forgets(a), NoCall, n)
      /\ AgentOK(Ended(a, FALSE), NoCall, n)
  BY <1>1, <1>2, EndedOK, NoCallOK, Zenon DEF AgentOK
<1>6. a.at = "leaveBeat" => AgentOK(quits, Sent("deregister", a.reg, "FAILED"), n)
  BY <1>1, <1>2, SentOK DEF AgentOK, States
<1> QED
  BY <1>3, <1>4, <1>5, <1>6, MoveKeeps, Zenon DEF Moves, Calls, n

(* The control plane serves a call: register's answer carries the ID it    *)
(* issued in the same step.                                                *)
LEMMA ServeKeeps ==
    ASSUME AgentInv, RegistryInv', NEW p \in Agents, Serve(p)
    PROVE  AgentInv'
<1> DEFINE id == agent[p].id
           c == call[p]
           answer == AnswerTo(id, c)
           got == IF c.kind = "register" /\ answer = "ok" THEN lastReg + 1 ELSE 0
           c2 == [c EXCEPT !.answer = answer, !.got = got]
<1>1. /\ id \in IDs /\ CallOK(c, lastReg) /\ Handle(id, c) /\ c.kind # "none"
      /\ UNCHANGED <<agent, backend, late>>
      /\ call' = [call EXCEPT ![p].answer = answer, ![p].got = got]
  BY DEF Serve, Pending, AgentInv, AgentOK, AgentRecord
<1>2. lastReg \in Nat /\ lastReg' \in {lastReg, lastReg + 1}
  BY <1>1, HandleIsRegistryStep, RegsGrow, Zenon DEF AgentInv
<1>3. answer \in {"ok", "full", "unknown", "stale", "conflict"}
  BY <1>1, Zenon DEF AnswerTo, BeatResult, DeregisterResult, CallOK
<1>4. c.kind = "register" /\ answer = "ok" => lastReg' = lastReg + 1
  BY <1>1 DEF AnswerTo, Handle, Register, RegisterFull
<1>5. call' = [call EXCEPT ![p] = c2]
  BY <1>1, Zenon DEF AgentInv
<1>6. CallOK(c, lastReg') /\ \A q \in Agents : AgentOK(agent[q], call[q], lastReg')
  BY <1>1, <1>2, OKGrows DEF AgentInv
<1>7. \A l \in late' : LateOK(l, lastReg')
  BY <1>1, <1>2, OKGrows DEF AgentInv
<1> HIDE DEF answer
<1>8. got \in 0 .. lastReg' /\ (c.kind = "register" /\ answer = "ok" => got # 0)
  BY <1>2, <1>4
<1> HIDE DEF got, c
<1>9. CallOK(c2, lastReg') /\ c2.kind = c.kind
  BY <1>3, <1>6, <1>8, Zenon DEF CallOK
<1> HIDE DEF c2
<1>10. AgentOK(agent[p], c2, lastReg')
  BY <1>6, <1>9, Zenon DEF AgentOK, c
<1>11. /\ DOMAIN call' = Agents /\ call' = [q \in Agents |-> call'[q]]
       /\ \A q \in Agents : AgentOK(agent[q], call'[q], lastReg')
  BY <1>5, <1>6, <1>10, Zenon DEF AgentInv
<1> QED
  BY <1>1, <1>7, <1>11 DEF AgentInv

(* A step of the registry that no agent sees at once. *)
LEMMA UnseenKeeps ==
    ASSUME AgentInv, RegistryInv', [RegistryNext]_registryVars, UNCHANGED <<agent, call>>,
           late' \subseteq late, backend' \in [Agents -> Reports \cup BadBackends]
    PROVE  AgentInv'
<1>1. lastReg \in Nat /\ lastReg' \in {lastReg, lastReg + 1}
  BY RegsGrow DEF AgentInv
<1>2. /\ \A p \in Agents : AgentOK(agent[p], call[p], lastReg')
      /\ \A l \in late' : LateOK(l, lastReg')
  BY <1>1, OKGrows DEF AgentInv
<1> QED
  BY <1>2, Zenon DEF AgentInv

LEMMA AgentsInitInv == AgentsInit => AgentInv
<1> SUFFICES ASSUME AgentsInit PROVE AgentInv
  OBVIOUS
<1>1. RegistryInv /\ lastReg = 0
  BY InitInv DEF AgentsInit, Init
<1>2. PICK s \in Starts :
        /\ agent = [p \in Agents |->
                      [id |-> s[p].id, at |-> "off", registered |-> FALSE,
                       superseded |-> FALSE, reg |-> 0, last |-> "REGISTERING",
                       seen |-> "FAILED"]]
        /\ backend = [p \in Agents |-> s[p].report]
  BY Zenon DEF AgentsInit
<1>3. s \in [Agents -> [id : IDs, report : Reports]]
  BY AgentsAssumption
<1>4. call = [p \in Agents |-> NoCall] /\ late = {}
  BY DEF AgentsInit
<1>5. \A p \in Agents : AgentOK(agent[p], call[p], 0)
  <2> SUFFICES ASSUME NEW p \in Agents PROVE AgentOK(agent[p], call[p], 0)
    OBVIOUS
  <2>1. CallOK(call[p], 0)
    BY <1>4, NoCallOK
  <2>2. 0 \in 0 .. 0 /\ "off" \in Places /\ "REGISTERING" \in States /\ "FAILED" \in States
    BY DEF Places, States
  <2>3. agent[p] \in AgentRecord(0) /\ agent[p].registered = FALSE /\ agent[p].at = "off"
    BY <1>2, <1>3, <2>2, Zenon DEF AgentRecord
  <2> QED
    BY <2>1, <2>3 DEF AgentOK
<1> QED
  BY <1>1, <1>2, <1>3, <1>4, <1>5 DEF AgentInv

LEMMA AgentsNextInv == AgentInv /\ [AgentsNext]_vars => AgentInv'
<1> SUFFICES ASSUME AgentInv, [AgentsNext]_vars PROVE AgentInv'
  OBVIOUS
<1>1. [RegistryNext]_registryVars /\ RegistryInv'
  BY AgentsAreClients, NextInv DEF AgentInv
<1>2. ASSUME NEW p \in Agents, Start(p) \/ AgentStep(p) \/ Shutdown(p) PROVE AgentInv'
  BY <1>2, ProbeKeeps, RegisterAnsweredKeeps, BeatAnsweredKeeps, LeavingKeeps DEF AgentStep
<1>3. ASSUME NEW p \in Agents, TimesOut(p) \/ Crash(p) PROVE AgentInv'
  BY <1>3, FaultKeeps
<1>4. ASSUME NEW p \in Agents, Serve(p) PROVE AgentInv'
  BY <1>1, <1>4, ServeKeeps
<1>5. ASSUME NEW p \in Agents, BackendChanges(p) PROVE AgentInv'
  <2>1. backend' \in [Agents -> Reports \cup BadBackends] /\ UNCHANGED <<agent, call, late>>
    BY <1>5 DEF BackendChanges, AgentInv
  <2> QED
    BY <1>1, <2>1, UnseenKeeps, Zenon
<1>6. CASE \/ \E id \in IDs : Fades(id) \/ Stalls(id)
           \/ ServeLate \/ ControlPlaneRestarts \/ SweepStep \/ UNCHANGED vars
  <2>1. UNCHANGED <<agent, call, backend>> /\ late' \subseteq late
    BY <1>6, Zenon DEF Fades, Stalls, ServeLate, ControlPlaneRestarts, SweepStep, vars, agentVars
  <2>2. backend' \in [Agents -> Reports \cup BadBackends]
    BY <2>1 DEF AgentInv
  <2> QED
    BY <1>1, <2>1, <2>2, UnseenKeeps
<1> QED
  BY <1>2, <1>3, <1>4, <1>5, <1>6 DEF AgentsNext

-----------------------------------------------------------------------------
(* Theorems *)

(* The invariant holds whatever calls are lost, late or served twice over. *)
THEOREM AgentsInvariant == AgentsSpec => []AgentInv
BY AgentsInitInv, AgentsNextInv, PTL DEF AgentsSpec

(* Agents, their network and the control plane's handlers use the registry *)
(* as its specification allows: step, Shutdown and the handlers implement  *)
(* Registry.                                                               *)
THEOREM AgentsKeepRegistryProtocol == AgentsSpec => RegistrySpec
<1>1. AgentsInit => Init
  BY DEF AgentsInit
<1>2. AgentInv /\ [AgentsNext]_vars => [RegistryNext]_registryVars
  BY AgentsAreClients
<1> QED
  BY <1>1, <1>2, AgentsInvariant, PTL DEF AgentsSpec, RegistrySpec

(* With any number of agents, late calls and faults, the registry is well  *)
(* formed and bounded by MaxWorkers, no drained registration is offered    *)
(* again, and an agent that takes itself for registered holds an ID that   *)
(* the registry issued (step, register, heartbeat).                        *)
THEOREM AgentsAreSafe == AgentsSpec => []AgentsSafe
<1>1. AgentInv /\ WorkersBounded /\ DrainIsOneWay => AgentsSafe
  BY TypesMatter DEF AgentsSafe
<1> QED
  BY <1>1, AgentsInvariant, AgentsKeepRegistryProtocol, RegistryBounded, DrainOneWay, PTL
=============================================================================
