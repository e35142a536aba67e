---------------------- MODULE DeploymentConsumerProofs ----------------------
(***************************************************************************)
(* Proofs about the Kafka consumer of deployment-service, for any number   *)
(* of partitions, records and restarts.                                    *)
(***************************************************************************)
EXTENDS DeploymentConsumer, TLAPS

\* What Before(f, p) contains.
LEMMA BeforeDef ==
  ASSUME NEW f \in [Partitions -> Nat], NEW p \in Partitions, NEW S
  PROVE  Before(f, p) \subseteq S <=> \A o \in Nat : o < f[p] => <<p, o>> \in S
<1>1. f[p] \in Nat
  OBVIOUS
<1>2. \A o : o \in 0 .. f[p] - 1 <=> o \in Nat /\ o < f[p]
  BY <1>1
<1>. QED
  BY <1>2 DEF Before

LEMMA OffsetsAreNat == Offset \subseteq Nat
  BY BoundsAreNat DEF Offset

\* A partition's offset of a typed function.
LEMMA OffsetOf ==
  ASSUME NEW f \in [Partitions -> Offset], NEW p \in Partitions
  PROVE  f[p] \in Nat /\ f \in [Partitions -> Nat]
  BY OffsetsAreNat

-----------------------------------------------------------------------------
LEMMA InvInit == Init => ConsumerInv
<1>. SUFFICES ASSUME Init PROVE ConsumerInv
  OBVIOUS
<1>1. 0 \in Offset /\ 0 \in 0 .. MaxStops
  BY BoundsAreNat DEF Offset
<1>2. Start \in [Partitions -> Offset]
  BY <1>1 DEF Start
<1>3. TypeOK
  BY <1>1, <1>2 DEF Init, TypeOK
<1>4. Positions
  BY DEF Init, Positions, Start
<1>5. \A p \in Partitions : Before(Start, p) = {}
  BY DEF Before, Start
<1>. QED
  BY <1>3, <1>4, <1>5 DEF Init, ConsumerInv, PassedOver, Accounted

LEMMA TypeNext == TypeOK /\ Positions /\ [Next]_vars => TypeOK'
<1>. SUFFICES ASSUME TypeOK, Positions, [Next]_vars PROVE TypeOK'
  OBVIOUS
<1>. USE BoundsAreNat DEF TypeOK, Offset, Record
<1>1. ASSUME NEW p \in Partitions, Produce(p) PROVE TypeOK'
  BY <1>1 DEF Produce
<1>2. CASE Poll
  BY <1>2 DEF Poll
<1>3. ASSUME NEW p \in Partitions, Dispatch(p) PROVE TypeOK'
  <2>1. next[p] < fetched[p] /\ fetched[p] \in 0 .. MaxRecords /\ next[p] \in 0 .. MaxRecords
    BY <1>3 DEF Dispatch, Turn
  <2>2. next[p] + 1 \in 0 .. MaxRecords /\ <<p, next[p]>> \in Record
    BY <2>1
  <2>3. at' \in {"poll", "each", "dlq"} /\ handled' \subseteq Record
        /\ toCommit' \in [Partitions -> 0 .. MaxRecords]
    BY <1>3, <2>2 DEF Dispatch, Succeed, Fail
  <2>. QED
    BY <1>3, <2>2, <2>3 DEF Dispatch
<1>4. CASE PublishDLQ
  <2>1. <<current, next[current] - 1>> \in Record
    BY <1>4 DEF PublishDLQ, Positions
  <2>2. parked' \subseteq Record /\ dropped' \subseteq Record
    BY <1>4, <2>1 DEF PublishDLQ
  <2>. QED
    BY <1>4, <2>2 DEF PublishDLQ
<1>5. CASE CommitBatch
  BY <1>5 DEF CommitBatch
<1>6. CASE SigTerm \/ Stop \/ Boot
  BY <1>6 DEF SigTerm, Stop, Boot
<1>7. CASE UNCHANGED vars
  BY <1>7 DEF vars
<1>. QED
  BY <1>1, <1>2, <1>3, <1>4, <1>5, <1>6, <1>7 DEF Next, Run

LEMMA PositionsNext == TypeOK /\ Positions /\ [Next]_vars => Positions'
<1>. SUFFICES ASSUME TypeOK, Positions, [Next]_vars PROVE Positions'
  OBVIOUS
<1>. USE OffsetsAreNat DEF TypeOK, Positions
<1>0. \A p \in Partitions : /\ committed[p] \in Nat /\ toCommit[p] \in Nat
                            /\ next[p] \in Nat /\ fetched[p] \in Nat /\ logEnd[p] \in Nat
  OBVIOUS
<1>1. ASSUME NEW p \in Partitions, Produce(p) PROVE Positions'
  BY <1>0, <1>1 DEF Produce
<1>2. CASE Poll
  <2>1. \A p \in Partitions : fetched'[p] >= fetched[p] /\ fetched'[p] <= logEnd[p]
    BY <1>0, <1>2 DEF Poll
  <2>2. \A p \in Partitions : fetched'[p] \in Nat
    BY <1>0, <1>2 DEF Poll
  <2>. QED
    BY <1>0, <1>2, <2>1, <2>2 DEF Poll
<1>3. ASSUME NEW p \in Partitions, Dispatch(p) PROVE Positions'
  <2>1. /\ next[p] < fetched[p]
        /\ next' = [next EXCEPT ![p] = @ + 1]
        /\ current' = p
        /\ UNCHANGED <<committed, fetched, logEnd>>
    BY <1>3 DEF Dispatch, Turn
  <2>2. \/ toCommit' = [toCommit EXCEPT ![p] = next[p] + 1] /\ at' = at
        \/ toCommit' = toCommit /\ at' = "dlq"
    BY <1>3 DEF Dispatch, Succeed, Fail
  <2>3. at = "each"
    BY <1>3 DEF Dispatch
  <2>. QED
    BY <1>0, <2>1, <2>2, <2>3
<1>4. CASE PublishDLQ
  BY <1>4 DEF PublishDLQ
<1>5. CASE CommitBatch
  BY <1>0, <1>5 DEF CommitBatch
<1>6. CASE SigTerm
  BY <1>6 DEF SigTerm
<1>7. CASE Stop
  BY <1>7 DEF Stop
<1>8. CASE Boot
  BY <1>0, <1>8 DEF Boot
<1>9. CASE UNCHANGED vars
  BY <1>9 DEF vars
<1>. QED
  BY <1>1, <1>2, <1>3, <1>4, <1>5, <1>6, <1>7, <1>8, <1>9 DEF Next, Run

\* The bookkeeping of what was passed over, on the positions of the batch.
LEMMA PassedNext ==
  ConsumerInv /\ [Next]_vars => PassedOver' /\ Accounted'
<1>. SUFFICES ASSUME ConsumerInv, [Next]_vars PROVE PassedOver' /\ Accounted'
  OBVIOUS
<1>. DEFINE Kept == handled \cup parked \cup dropped
<1>0. TypeOK /\ Positions /\ PassedOver /\ Accounted
  BY DEF ConsumerInv
<1>1. TypeOK' /\ Positions'
  BY <1>0, TypeNext, PositionsNext
<1>2. \A p \in Partitions :
        /\ next[p] \in Nat /\ committed[p] \in Nat /\ toCommit[p] \in Nat
        /\ next'[p] \in Nat /\ committed'[p] \in Nat
  BY <1>0, <1>1, OffsetOf DEF TypeOK
<1>3. /\ next \in [Partitions -> Nat] /\ committed \in [Partitions -> Nat]
      /\ next' \in [Partitions -> Nat] /\ committed' \in [Partitions -> Nat]
      /\ current \in Partitions
  BY <1>0, <1>1, OffsetsAreNat DEF TypeOK
<1>4. \A p \in Partitions, o \in Nat : o < committed[p] => <<p, o>> \in Kept
  BY <1>0, <1>3, BeforeDef DEF Accounted
<1>5. proc = "up" => \A p \in Partitions, o \in Nat :
                       o < next[p] => <<p, o>> \in Kept \cup Failing
  BY <1>0, <1>3, BeforeDef DEF PassedOver
<1>6. SUFFICES /\ \A p \in Partitions, o \in Nat : o < committed'[p] => <<p, o>> \in Kept'
               /\ proc' = "up" => \A p \in Partitions, o \in Nat :
                                    o < next'[p] => <<p, o>> \in (Kept \cup Failing)'
  <2>1. \A p \in Partitions : Before(committed', p) \subseteq Kept'
    BY <1>3, <1>6, BeforeDef
  <2>2. proc' = "up" => \A p \in Partitions : Before(next', p) \subseteq (Kept \cup Failing)'
    BY <1>3, <1>6, BeforeDef
  <2>. QED
    BY <2>1, <2>2 DEF PassedOver, Accounted, Before
<1>7. CASE (\E p \in Partitions : Produce(p)) \/ SigTerm \/ UNCHANGED vars
  BY <1>4, <1>5, <1>7 DEF Produce, SigTerm, vars, Failing
<1>8. CASE Stop
  BY <1>4, <1>8 DEF Stop
<1>9. CASE Poll
  BY <1>4, <1>5, <1>9 DEF Poll, Failing
<1>10. ASSUME NEW p \in Partitions, Dispatch(p)
       PROVE  /\ \A x \in Partitions, o \in Nat : o < committed'[x] => <<x, o>> \in Kept'
              /\ proc' = "up" => \A x \in Partitions, o \in Nat :
                                   o < next'[x] => <<x, o>> \in (Kept \cup Failing)'
  <2>1. /\ at = "each" /\ current' = p
        /\ next' = [next EXCEPT ![p] = @ + 1]
        /\ UNCHANGED <<committed, parked, dropped, proc>>
    BY <1>10 DEF Dispatch
  <2>2. handled \subseteq handled'
    BY <1>10 DEF Dispatch, Succeed, Fail
  <2>3. <<p, next[p]>> \in (handled \cup Failing)'
    <3>1. CASE Succeed(p)
      BY <3>1 DEF Succeed
    <3>2. CASE Fail(p)
      <4>1. next'[p] - 1 = next[p]
        BY <1>2, <1>3, <2>1
      <4>. QED
        BY <3>2, <4>1, <2>1 DEF Fail, Failing
    <3>. QED
      BY <1>10, <3>1, <3>2 DEF Dispatch
  <2>4. Failing = {}
    BY <2>1 DEF Failing
  <2>5. ASSUME proc' = "up", NEW x \in Partitions, NEW o \in Nat, o < next'[x]
        PROVE  <<x, o>> \in (Kept \cup Failing)'
    <3>1. o < next[x] \/ (x = p /\ o = next[p])
      BY <1>2, <1>3, <2>1, <2>5
    <3>2. CASE o < next[x]
      BY <3>2, <1>5, <2>1, <2>2, <2>4, <2>5
    <3>3. CASE x = p /\ o = next[p]
      BY <3>3, <2>3
    <3>. QED
      BY <3>1, <3>2, <3>3
  <2>. QED
    BY <1>4, <2>1, <2>2, <2>5
<1>11. CASE PublishDLQ
  <2>1. /\ at = "dlq" /\ at' = "each"
        /\ UNCHANGED <<committed, next, handled, proc>>
        /\ parked \subseteq parked' /\ dropped \subseteq dropped'
    BY <1>11 DEF PublishDLQ
  <2>2. proc = "up" => <<current, next[current] - 1>> \in Kept'
    BY <1>11 DEF PublishDLQ
  <2>3. Failing = {<<current, next[current] - 1>>}
    BY <2>1 DEF Failing
  <2>. QED
    BY <1>4, <1>5, <2>1, <2>2, <2>3
<1>12. CASE CommitBatch
  <2>1. /\ at = "each" /\ at' = "poll"
        /\ UNCHANGED <<next, handled, parked, dropped, proc>>
        /\ \/ proc = "up" /\ committed' = toCommit
           \/ committed' = committed
    BY <1>12 DEF CommitBatch
  <2>2. Failing = {}
    BY <2>1 DEF Failing
  <2>3. \A p \in Partitions : toCommit[p] <= next[p]
    BY <1>0 DEF Positions
  <2>4. ASSUME NEW p \in Partitions, NEW o \in Nat, o < committed'[p]
        PROVE  <<p, o>> \in Kept'
    <3>1. CASE committed' = committed
      BY <1>4, <2>1, <2>4, <3>1
    <3>2. CASE proc = "up" /\ committed' = toCommit
      <4>1. o < next[p]
        BY <1>2, <2>3, <2>4, <3>2
      <4>. QED
        BY <1>5, <2>1, <2>2, <3>2, <4>1
    <3>. QED
      BY <2>1, <3>1, <3>2
  <2>. QED
    BY <1>5, <2>1, <2>2, <2>4
<1>13. CASE Boot
  BY <1>4, <1>13 DEF Boot
<1>. QED
  BY <1>7, <1>8, <1>9, <1>10, <1>11, <1>12, <1>13 DEF Next, Run

-----------------------------------------------------------------------------
(* The positions stay in order, and whatever a running process has passed   *)
(* over is accounted for: the inductive invariant of the loop in Run.       *)
THEOREM ConsumerInvCorrect == Spec => []ConsumerInv
<1>1. ConsumerInv /\ [Next]_vars => ConsumerInv'
  BY TypeNext, PositionsNext, PassedNext DEF ConsumerInv
<1>. QED
  BY InvInit, <1>1, PTL DEF Spec

(* No event below the committed offset is lost to a crash or a shutdown:    *)
(* it was handled, or dead-lettered, or its dead letter failed to be        *)
(* published by a running process.                                          *)
THEOREM NothingIsSkipped == Spec => []Accounted
<1>1. ConsumerInv => Accounted
  BY DEF ConsumerInv
<1>. QED
  BY <1>1, ConsumerInvCorrect, PTL

(* The committed offset never goes back, so an event that was committed is  *)
(* not delivered again.                                                     *)
THEOREM CommitsAdvance == Spec => CommitAdvances
<1>1. ConsumerInv /\ [Next]_vars
        => [\A p \in Partitions : committed'[p] >= committed[p]]_vars
  <2>. SUFFICES ASSUME ConsumerInv, [Next]_vars, NEW p \in Partitions
                PROVE  committed'[p] >= committed[p]
    OBVIOUS
  <2>1. committed[p] \in Nat /\ toCommit[p] \in Nat /\ committed[p] <= toCommit[p]
    BY OffsetOf DEF ConsumerInv, TypeOK, Positions
  <2>2. committed' = committed \/ committed' = toCommit
    BY DEF Next, Run, vars, Produce, Poll, Dispatch, PublishDLQ, CommitBatch,
           SigTerm, Stop, Boot
  <2>. QED
    BY <2>1, <2>2
<1>. QED
  BY <1>1, ConsumerInvCorrect, PTL DEF Spec, CommitAdvances

(* The broken dead-letter topic is the only way to lose an event: as long   *)
(* as publishing there works, everything the group will not see again was   *)
(* handled or can be read in the dead-letter topic, through every crash and *)
(* shutdown.                                                                *)
THEOREM OnlyKafkaDrops ==
  ASSUME "kafka" \notin Faults
  PROVE  Spec => [](\A p \in Partitions : Before(committed, p) \subseteq handled \cup parked)
<1>1. Init => dropped = {}
  BY DEF Init
<1>2. dropped = {} /\ [Next]_vars => (dropped = {})'
  BY DEF Next, Run, vars, Produce, Poll, Dispatch, PublishDLQ, CommitBatch,
         SigTerm, Stop, Boot
<1>3. Accounted /\ dropped = {}
        => \A p \in Partitions : Before(committed, p) \subseteq handled \cup parked
  BY DEF Accounted
<1>. QED
  BY <1>1, <1>2, <1>3, NothingIsSkipped, PTL DEF Spec
=============================================================================
