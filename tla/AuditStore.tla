----------------------------- MODULE AuditStore -----------------------------
(***************************************************************************)
(* The in-memory audit store of pkg/audit/store.go: a slice of records     *)
(* under one mutex, bounded in number and in age.  Every method takes the  *)
(* mutex for its whole body and reads the clock while it holds it, so each *)
(* is one action.                                                          *)
(*                                                                         *)
(* The clock is the wall clock: Now().UTC() drops the monotonic reading,   *)
(* so an operator or NTP may set it back between two calls.                *)
(***************************************************************************)
EXTENDS Integers, Sequences, FiniteSets

CONSTANTS
    IDs,              \* record identifiers a caller may present
    Users,            \* owners of records
    Blank,            \* a required field left empty
    MaximumRecords,   \* StoreConfig.MaximumRecords
    Retention,        \* StoreConfig.Retention, in clock ticks
    ClockMaySetBack,  \* whether the wall clock may be set back
    MaxClock,         \* bound: last instant considered
    MaxAccepted       \* bound: number of records accepted

ASSUME StoreConfigAssumption ==
    /\ MaximumRecords \in Nat \ {0}
    /\ Retention \in Nat \ {0}
    /\ ClockMaySetBack \in BOOLEAN
    /\ MaxClock \in Nat
    /\ MaxAccepted \in Nat
    /\ Blank \notin Users

VARIABLES
    records,          \* Store.records
    sequence,         \* Store.sequence
    clock,            \* what config.Now() returns
    answer,           \* what the last call returned
    accepted,         \* history: every record Add has accepted, in order
    latest            \* history: the highest clock any call has seen

storeVars == <<records, sequence, clock, answer, accepted, latest>>

Record == [id : IDs, user : Users, Sequence : Nat, Timestamp : Int]

\* What a caller hands to Add.  "clean" stands for the field-by-field rules of
\* validate: lengths, event type, decision, status and credential shapes.
Submission == [id : IDs, user : Users \cup {Blank}, clean : BOOLEAN]

Answer ==
    [op : {"none", "ErrInvalidRecord", "ErrRecordMissing"}]
      \cup [op : {"added"}, record : Record]
      \cup [op : {"listed"}, user : Users, at : Nat, found : SUBSET Record]
      \cup [op : {"got"}, user : Users, at : Nat, record : Record]

StoreTypeOK ==
    /\ records \in Seq(Record)
    /\ sequence \in Nat
    /\ clock \in 0..MaxClock
    /\ accepted \in Seq(Record)
    /\ latest \in 0..MaxClock
    /\ answer \in Answer

StoreInit ==
    /\ records = <<>>
    /\ sequence = 0
    /\ clock = 0
    /\ answer = [op |-> "none"]
    /\ accepted = <<>>
    /\ latest = 0

-----------------------------------------------------------------------------
(* Helpers *)

\* Mutant: a blank owner is let through.
validateContentsOnly(submission) == submission.clean

\* Store.validate
validate(submission) == submission.user # Blank /\ submission.clean

\* Mutant: the cutoff is one tick late.
ExpiredLate(record, now) == record.Timestamp < now - Retention - 1

\* A record is out of date when its timestamp is before the cutoff.
Expired(record, now) == record.Timestamp < now - Retention

\* The loop of purgeLocked stops at the first record that is not out of date:
\* it removes a prefix, and does not look behind a record that stays.
PurgePoint(first) ==
    /\ first \in 0..Len(records)
    /\ \A i \in 1..first : Expired(records[i], clock)
    /\ first < Len(records) => ~Expired(records[first + 1], clock)

\* Mutant: the copy starts one record too far.
purgeLockedOneMore(first) ==
    IF first = 0 THEN records ELSE SubSeq(records, first + 2, Len(records))

purgeLocked(first) == SubSeq(records, first + 1, Len(records))

\* Mutants: the newest record makes room; nothing makes room.
InsertOverNewest(kept, record) ==
    IF Len(kept) = MaximumRecords
    THEN Append(SubSeq(kept, 1, Len(kept) - 1), record)
    ELSE Append(kept, record)

InsertUnbounded(kept, record) == Append(kept, record)

\* At capacity the oldest record makes room for the new one.
Insert(kept, record) ==
    IF Len(kept) = MaximumRecords
    THEN Append(Tail(kept), record)
    ELSE Append(kept, record)

\* Mutant: the loops stop one record early.
ElementsButLast(slice) == {slice[i] : i \in 1..(Len(slice) - 1)}

\* The records of a slice as a set.
Elements(slice) == {slice[i] : i \in DOMAIN slice}

Max2(a, b) == IF a >= b THEN a ELSE b

-----------------------------------------------------------------------------
(* Operations *)

\* Add, on a submission that validate rejects: before the mutex is taken.
AddInvalid ==
    /\ \E submission \in Submission : ~validate(submission)
    /\ answer' = [op |-> "ErrInvalidRecord"]
    /\ UNCHANGED <<records, sequence, clock, accepted, latest>>

\* Add, when a record that is still held has the same ID.  The purge stays.
AddDuplicate(submission) ==
    /\ validate(submission)
    /\ \E first \in 0..Len(records) :
          LET kept == purgeLocked(first) IN
          /\ PurgePoint(first)
          /\ \E r \in Elements(kept) : r.id = submission.id
          /\ records' = kept
    /\ answer' = [op |-> "ErrInvalidRecord"]
    /\ latest' = Max2(latest, clock)
    /\ UNCHANGED <<sequence, clock, accepted>>

\* Add, accepted: purge, number, stamp, make room, append.
Add(submission) ==
    /\ sequence < MaxAccepted
    /\ validate(submission)
    /\ \E first \in 0..Len(records) :
          LET kept   == purgeLocked(first)
              record == [id |-> submission.id, user |-> submission.user,
                         Sequence |-> sequence + 1, Timestamp |-> clock]
          IN  /\ PurgePoint(first)
              /\ \A r \in Elements(kept) : r.id # submission.id
              /\ records' = Insert(kept, record)
              /\ accepted' = Append(accepted, record)
              /\ answer' = [op |-> "added", record |-> record]
    /\ sequence' = sequence + 1
    /\ latest' = Max2(latest, clock)
    /\ UNCHANGED clock

ListByUser(user) ==
    /\ \E first \in 0..Len(records) :
          LET kept == purgeLocked(first) IN
          /\ PurgePoint(first)
          /\ records' = kept
          /\ answer' = [op |-> "listed", user |-> user, at |-> clock,
                        found |-> {r \in Elements(kept) : r.user = user}]
    /\ latest' = Max2(latest, clock)
    /\ UNCHANGED <<sequence, clock, accepted>>

\* An identifier of another user's record is answered like an absent one.
GetByUser(user, id) ==
    /\ \E first \in 0..Len(records) :
          LET kept == purgeLocked(first)
              mine == {r \in Elements(kept) : r.id = id /\ r.user = user}
          IN  /\ PurgePoint(first)
              /\ records' = kept
              /\ \/ /\ mine = {}
                    /\ answer' = [op |-> "ErrRecordMissing"]
                 \/ \E r \in mine :
                       answer' = [op |-> "got", user |-> user,
                                  at |-> clock, record |-> r]
    /\ latest' = Max2(latest, clock)
    /\ UNCHANGED <<sequence, clock, accepted>>

\* The wall clock moves on, or is set back.
Tick ==
    /\ clock < MaxClock
    /\ clock' = clock + 1
    /\ UNCHANGED <<records, sequence, answer, accepted, latest>>

SetBack ==
    /\ ClockMaySetBack
    /\ clock > 0
    /\ clock' \in 0..(clock - 1)
    /\ UNCHANGED <<records, sequence, answer, accepted, latest>>

StoreNext ==
    \/ AddInvalid
    \/ \E submission \in Submission : AddDuplicate(submission)
    \/ \E submission \in Submission : Add(submission)
    \/ \E user \in Users : ListByUser(user)
    \/ \E user \in Users, id \in IDs : GetByUser(user, id)
    \/ Tick
    \/ SetBack

StoreSpec == StoreInit /\ [][StoreNext]_storeVars

-----------------------------------------------------------------------------
(* Properties *)

\* The slice holds exactly the most recent acceptances, unmodified and in
\* order, and never more than MaximumRecords of them: purge and eviction only
\* ever take from the old end (Add, purgeLocked).
WindowIsSuffix ==
    /\ sequence = Len(accepted)
    /\ Len(records) <= MaximumRecords
    /\ Len(records) <= sequence
    /\ \A i \in 1..Len(accepted) : accepted[i].Sequence = i
    /\ \A i \in 1..Len(records) :
          records[i] = accepted[sequence - Len(records) + i]

\* GetByUser's loop returns the first match: it is the only one, because Add
\* refuses an ID that is still held, even though an ID may come back after its
\* record was purged or evicted.
HeldIDsUnique ==
    \A i, j \in 1..Len(records) : records[i].id = records[j].id => i = j

\* A listing misses no record of the user except those that had to go: a
\* record is absent only if it was older than the retention at some call, or
\* if MaximumRecords newer ones were accepted (ListByUser after purgeLocked).
ListComplete ==
    answer.op = "listed" =>
        \A i \in 1..Len(accepted) :
            \/ accepted[i] \in answer.found
            \/ accepted[i].user # answer.user
            \/ Len(accepted) - i >= MaximumRecords
            \/ Expired(accepted[i], latest)

\* No query returns a record older than the configured retention.
RetentionHonoured ==
    /\ answer.op = "listed" =>
          \A r \in answer.found : answer.at - r.Timestamp <= Retention
    /\ answer.op = "got" => answer.at - answer.record.Timestamp <= Retention

\* Acceptances were stamped in the order of time, whatever the clock did between
\* them.
StampsRise ==
    \A i \in 1..Len(accepted) :
        \A j \in 1..i : accepted[j].Timestamp <= accepted[i].Timestamp

\* The prefix that purgeLocked removes is enough as long as no acceptance is
\* stamped before an earlier one: then no query returns a record older than the
\* retention, even if the clock was set back between two calls.
RetentionWhileOrdered == StampsRise => RetentionHonoured

\* The store implements the append-only log with a sliding visible window.
Log == INSTANCE AuditLog WITH
            Capacity <- MaximumRecords,
            log      <- accepted,
            dropped  <- Len(accepted) - Len(records)

ImplementsAuditLog == Log!Spec

=============================================================================
