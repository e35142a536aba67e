------------------------- MODULE DeploymentConsumer -------------------------
(***************************************************************************)
(* deployment-service's Kafka consumer: poll a batch, dispatch its records *)
(* one by one, publish those that fail to the dead-letter topic, commit    *)
(* the offsets of those that did not.  Kafka keeps, per partition, the log *)
(* and the committed offset; everything else is lost with the process.     *)
(***************************************************************************)
EXTENDS Integers

CONSTANTS
  Partitions,  \* partitions of secrets.bulk_created and project.deleted
  MaxRecords,  \* bound: records produced to a partition
  MaxStops,    \* bound: ends of the process
  Faults       \* "handler": a handler may fail; "kafka": a publish or a
               \* commit may fail

ASSUME PartitionsExist == Partitions # {}
ASSUME BoundsAreNat == MaxRecords \in Nat /\ MaxStops \in Nat

VARIABLES
  logEnd,     \* logEnd[p]: offset of the next record produced to p
  committed,  \* committed[p]: where the group resumes after a restart
  fetched,    \* fetched[p]: offset after the last record polled
  next,       \* next[p]: the next record of the batch to dispatch
  toCommit,   \* toCommit[p]: offset after the last record of this batch that
              \* was handled; committed[p] when there is none
  current,    \* the partition EachRecord is iterating over
  at,         \* where the loop of Run stands
  handled,    \* records a handler took effect for
  parked,     \* records published to the dead-letter topic
  dropped,    \* history: records whose publication there failed, the context
              \* not being cancelled
  proc,       \* "up", "draining" after SIGTERM, or "down"
  stopped     \* history: ends of the process, for MaxStops

vars == <<logEnd, committed, fetched, next, toCommit, current, at, handled,
          parked, dropped, proc, stopped>>

Offset == 0 .. MaxRecords
Record == Partitions \X Nat

TypeOK ==
  /\ logEnd \in [Partitions -> Offset]
  /\ committed \in [Partitions -> Offset]
  /\ fetched \in [Partitions -> Offset]
  /\ next \in [Partitions -> Offset]
  /\ toCommit \in [Partitions -> Offset]
  /\ current \in Partitions
  /\ at \in {"poll", "each", "dlq"}
  /\ handled \subseteq Record /\ parked \subseteq Record /\ dropped \subseteq Record
  /\ proc \in {"up", "draining", "down"}
  /\ stopped \in 0 .. MaxStops

Start == [p \in Partitions |-> 0]

Init ==
  /\ logEnd = Start /\ committed = Start
  /\ fetched = Start /\ next = Start /\ toCommit = Start
  /\ current \in Partitions
  /\ at = "poll"
  /\ handled = {} /\ parked = {} /\ dropped = {}
  /\ proc = "up"
  /\ stopped = 0

-----------------------------------------------------------------------------
\* Another service appends a record.
Produce(p) ==
  /\ logEnd[p] < MaxRecords
  /\ logEnd' = [logEnd EXCEPT ![p] = @ + 1]
  /\ UNCHANGED <<committed, fetched, next, toCommit, current, at, handled,
                 parked, dropped, proc, stopped>>

\* Mutant of Poll: the client commits what it hands out (auto-commit).
PollAutoCommit ==
  /\ at = "poll" /\ proc = "up"
  /\ \E to \in [Partitions -> Offset] :
       /\ \A p \in Partitions : to[p] \in fetched[p] .. logEnd[p]
       /\ to # fetched
       /\ fetched' = to
       /\ committed' = to
       /\ toCommit' = to
  /\ at' = "each"
  /\ UNCHANGED <<logEnd, next, current, handled, parked, dropped, proc, stopped>>

\* Mutant of Poll: the offsets to commit start from zero.
PollForgets ==
  /\ at = "poll" /\ proc = "up"
  /\ \E to \in [Partitions -> Offset] :
       /\ \A p \in Partitions : to[p] \in fetched[p] .. logEnd[p]
       /\ to # fetched
       /\ fetched' = to
  /\ toCommit' = Start
  /\ at' = "each"
  /\ UNCHANGED <<logEnd, committed, next, current, handled, parked, dropped, proc, stopped>>

\* PollFetches waits for records and returns some of each partition.
Poll ==
  /\ at = "poll" /\ proc = "up"
  /\ \E to \in [Partitions -> Offset] :
       /\ \A p \in Partitions : to[p] \in fetched[p] .. logEnd[p]
       /\ to # fetched
       /\ fetched' = to
  /\ toCommit' = committed
  /\ at' = "each"
  /\ UNCHANGED <<logEnd, committed, next, current, handled, parked, dropped, proc, stopped>>

\* EachRecord goes through a partition in offset order before the next one.
Turn(p) == next[p] < fetched[p] /\ (p = current \/ next[current] = fetched[current])

\* The handler returned no error.
Succeed(p) ==
  /\ proc = "up"
  /\ handled' = handled \cup {<<p, next[p]>>}
  /\ toCommit' = [toCommit EXCEPT ![p] = next[p] + 1]
  /\ UNCHANGED at

\* It failed, possibly after it took effect: a malformed event, an error of
\* Execute, or a cancelled context.
Fail(p) ==
  /\ "handler" \in Faults \/ proc = "draining"
  /\ handled' \in {handled, handled \cup {<<p, next[p]>>}}
  /\ at' = "dlq"
  /\ UNCHANGED toCommit

\* Mutant of Dispatch: a record that fails sends its partition back to the
\* committed offset.
DispatchAgain(p) ==
  /\ at = "each" /\ proc # "down" /\ Turn(p)
  /\ current' = p
  /\ \/ Succeed(p) /\ next' = [next EXCEPT ![p] = @ + 1]
     \/ /\ "handler" \in Faults \/ proc = "draining"
        /\ next' = [next EXCEPT ![p] = committed[p]]
        /\ toCommit' = [toCommit EXCEPT ![p] = committed[p]]
        /\ UNCHANGED <<handled, at>>
  /\ UNCHANGED <<logEnd, committed, fetched, parked, dropped, proc, stopped>>

Dispatch(p) ==
  /\ at = "each" /\ proc # "down" /\ Turn(p)
  /\ current' = p
  /\ next' = [next EXCEPT ![p] = @ + 1]
  /\ Succeed(p) \/ Fail(p)
  /\ UNCHANGED <<logEnd, committed, fetched, parked, dropped, proc, stopped>>

\* ProduceSync to the dead-letter topic; an error is only logged.
PublishDLQ ==
  LET rec == <<current, next[current] - 1>> IN
  /\ at = "dlq" /\ proc # "down"
  /\ \/ proc = "up" /\ parked' = parked \cup {rec} /\ UNCHANGED dropped
     \/ /\ "kafka" \in Faults /\ proc = "up"
        /\ dropped' = dropped \cup {rec}
        /\ UNCHANGED parked
     \/ proc = "draining" /\ UNCHANGED <<parked, dropped>>
  /\ at' = "each"
  /\ UNCHANGED <<logEnd, committed, fetched, next, toCommit, current, handled, proc, stopped>>

\* CommitRecords; an error is only logged, and with the context cancelled
\* there always is one.
CommitBatch ==
  /\ at = "each" /\ proc # "down"
  /\ next = fetched
  /\ \/ proc = "up" /\ committed' = toCommit
     \/ ("kafka" \in Faults \/ proc = "draining") /\ UNCHANGED committed
  /\ at' = "poll"
  /\ UNCHANGED <<logEnd, fetched, next, toCommit, current, handled, parked,
                 dropped, proc, stopped>>

-----------------------------------------------------------------------------
SigTerm ==
  /\ proc = "up" /\ stopped < MaxStops
  /\ proc' = "draining"
  /\ UNCHANGED <<logEnd, committed, fetched, next, toCommit, current, at,
                 handled, parked, dropped, stopped>>

\* Run returns between two batches once its context is cancelled; a crash
\* comes at any point.
Stop ==
  /\ proc # "down" /\ stopped < MaxStops
  /\ proc' = "down"
  /\ stopped' = stopped + 1
  /\ UNCHANGED <<logEnd, committed, fetched, next, toCommit, current, at,
                 handled, parked, dropped>>

Boot ==
  /\ proc = "down"
  /\ proc' = "up"
  /\ fetched' = committed /\ next' = committed /\ toCommit' = committed
  /\ at' = "poll"
  /\ UNCHANGED <<logEnd, committed, current, handled, parked, dropped, stopped>>

Run == Poll \/ (\E p \in Partitions : Dispatch(p)) \/ PublishDLQ \/ CommitBatch

Next ==
  \/ \E p \in Partitions : Produce(p)
  \/ Run
  \/ SigTerm \/ Stop \/ Boot

Spec == Init /\ [][Next]_vars
FairSpec == Spec /\ WF_vars(Run)

-----------------------------------------------------------------------------
Before(position, p) == {<<p, o>> : o \in 0 .. position[p] - 1}

(* What the group will not see again was handled, is in the dead-letter     *)
(* topic, or could not be published there by a running process: neither a   *)
(* crash nor the cancelled context of a shutdown loses an event, although   *)
(* the batch goes on after a failure and the commit passes over it.         *)
Accounted ==
  \A p \in Partitions : Before(committed, p) \subseteq handled \cup parked \cup dropped

(* Events are redelivered from a point that only advances: a commit never   *)
(* goes back over an earlier one, whatever the batch skipped.               *)
CommitAdvances == [][\A p \in Partitions : committed'[p] >= committed[p]]_vars

(* A record that always fails does not block the ones behind it: while the  *)
(* process stays up every record is taken up.                               *)
EveryRecordTaken ==
  <>[](proc = "up") =>
    \A p \in Partitions, o \in 0 .. MaxRecords - 1 :
      logEnd[p] > o ~> <<p, o>> \in handled \cup parked \cup dropped

\* The positions in their order, and what a running process has passed over.
Positions ==
  /\ \A p \in Partitions :
       /\ committed[p] <= toCommit[p] /\ toCommit[p] <= next[p]
       /\ next[p] <= fetched[p] /\ fetched[p] <= logEnd[p]
  /\ at = "dlq" => toCommit[current] < next[current]
Failing == IF at = "dlq" THEN {<<current, next[current] - 1>>} ELSE {}
PassedOver ==
  proc = "up" => \A p \in Partitions :
    Before(next, p) \subseteq handled \cup parked \cup dropped \cup Failing

(* The inductive invariant.                                                 *)
ConsumerInv == TypeOK /\ Positions /\ PassedOver /\ Accounted
=============================================================================
