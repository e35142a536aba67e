------------------------- MODULE ProjectClientProofs -------------------------
(***************************************************************************)
(* Theorems about ProjectClient, for any files, packages, libraries,       *)
(* handlers, pushes, attempts and versions, and whichever calls fail: the  *)
(* analysis follows from what was read, each row is accounted for, and the *)
(* long poll sleeps over a change only for a stamp that came late.         *)
(***************************************************************************)
EXTENDS ProjectClient, TLAPS

-----------------------------------------------------------------------------
(* The poll                                                                 *)

\* What the steps of handlers and of the poll keep.
StatusInv == Status!TypeOK /\ Status!StampInv

\* The records of StatusPoll, and what EXCEPT makes of them.
LEMMA RecordTypes ==
  ASSUME NEW v \in Status!Versions, NEW t \in Status!Time, NEW b \in BOOLEAN
  PROVE  /\ [version |-> v, stamp |-> t, there |-> b]
              \in [version : Status!Versions, stamp : Status!Time, there : BOOLEAN]
         /\ [version |-> v, stamp |-> t, gone |-> b]
              \in [version : Status!Versions, stamp : Status!Time, gone : BOOLEAN]
         /\ [open |-> b, stamp |-> t] \in [open : BOOLEAN, stamp : Status!Time]
OBVIOUS

LEMMA RecordUpdates ==
  ASSUME NEW r \in [version : Status!Versions, stamp : Status!Time, there : BOOLEAN],
         NEW k \in [version : Status!Versions, stamp : Status!Time, gone : BOOLEAN],
         NEW s \in [open : BOOLEAN, stamp : Status!Time],
         NEW v \in Status!Versions, NEW t \in Status!Time, NEW b \in BOOLEAN
  PROVE  /\ [r EXCEPT !.version = v, !.stamp = t]
              \in [version : Status!Versions, stamp : Status!Time, there : BOOLEAN]
         /\ [r EXCEPT !.there = b]
              \in [version : Status!Versions, stamp : Status!Time, there : BOOLEAN]
         /\ [k EXCEPT !.gone = b]
              \in [version : Status!Versions, stamp : Status!Time, gone : BOOLEAN]
         /\ [s EXCEPT !.stamp = t] \in [open : BOOLEAN, stamp : Status!Time]
         /\ [s EXCEPT !.open = b, !.stamp = t] \in [open : BOOLEAN, stamp : Status!Time]
BY Zenon

LEMMA StatusInit == Status!Init => StatusInv
<1> SUFFICES ASSUME Status!Init PROVE StatusInv
  OBVIOUS
<1> USE BoundsAreNat
<1>0. PICK v \in 0 .. 1 : shown = [version |-> v, stamp |-> 0, gone |-> FALSE]
  BY DEF Status!Init, Status!Nothing, Status!Version1
<1>1. Status!TypeOK
  <2>1. shown \in [version : Status!Versions, stamp : Status!Time, gone : BOOLEAN]
    <3>1. v \in Status!Versions /\ 0 \in Status!Time
      BY DEF Status!Versions, Status!Time
    <3>2. QED
      BY <1>0, <3>1, RecordTypes
  <2>2. poll \in [at : {"idle", "look", "sleep", "final"}, rounds : 0 .. MaxRounds,
                  last : Status!Versions]
    BY DEF Status!Init, Status!Idle, Status!Versions
  <2>3. save \in [Writers -> [open : BOOLEAN, stamp : Status!Time]]
    BY DEF Status!Init, Status!Time
  <2>4. QED
    BY <2>1, <2>2, <2>3 DEF Status!Init, Status!TypeOK, Status!Versions, Status!Time
<1>2. Status!StampInv
  BY DEF Status!Init, Status!StampInv, Status!PromptUnlessLate, Status!Idle,
         Status!Nothing, Status!Version1
<1> QED
  BY <1>1, <1>2 DEF StatusInv

\* A step that leaves the row, the client's knowledge and the request alone.
LEMMA StatusQuiet ==
  ASSUME StatusInv, UNCHANGED <<project, shown, poll, late, newest>>
  PROVE  Status!StampInv'
BY DEF StatusInv, Status!StampInv, Status!PromptUnlessLate

LEMMA CommitKeeps ==
  ASSUME StatusInv, NEW w \in Writers, Status!Commit(w)
  PROVE  StatusInv'
<1> DEFINE stamp == save[w].stamp
<1>0. stamp \in 0 .. MaxTime /\ project.version \in 0 .. MaxVersion /\ newest \in 0 .. MaxTime
      /\ project.stamp \in 0 .. MaxTime /\ shown.stamp \in 0 .. MaxTime
      /\ shown.version \in 0 .. MaxVersion /\ poll.last \in 0 .. MaxVersion
      /\ late \subseteq 0 .. MaxVersion /\ MaxVersion \in Nat /\ MaxTime \in Nat
  BY BoundsAreNat DEF StatusInv, Status!TypeOK, Status!Versions, Status!Time
<1>1. UNCHANGED <<time, shown, poll>> /\ save' = [save EXCEPT ![w].open = FALSE, ![w].stamp = 0]
  BY DEF Status!Commit, Status!pollVars
<1>2. save' \in [Writers -> [open : BOOLEAN, stamp : Status!Time]]
  <2>1. 0 \in Status!Time /\ save \in [Writers -> [open : BOOLEAN, stamp : Status!Time]]
    BY <1>0 DEF StatusInv, Status!TypeOK, Status!Time
  <2>2. [save[w] EXCEPT !.open = FALSE, !.stamp = 0] \in [open : BOOLEAN, stamp : Status!Time]
    BY <2>1, RecordUpdates, Zenon
  <2>3. save' = [save EXCEPT ![w] = [save[w] EXCEPT !.open = FALSE, !.stamp = 0]]
    BY <1>1, <2>1, Zenon
  <2>4. QED
    BY <2>1, <2>2, <2>3
<1>3. CASE ~project.there
  <2>1. UNCHANGED <<project, late, newest>>
    BY <1>3 DEF Status!Commit
  <2>2. QED
    BY <1>1, <1>2, <2>1, StatusQuiet DEF StatusInv, Status!TypeOK
<1>4. CASE project.there
  <2>1. /\ project.version < MaxVersion
        /\ project' = [project EXCEPT !.version = @ + 1, !.stamp = stamp]
        /\ late' = IF stamp > newest THEN late ELSE late \cup {project.version + 1}
        /\ newest' = IF stamp > newest THEN stamp ELSE newest
    BY <1>4 DEF Status!Commit
  <2>2. project'.version = project.version + 1 /\ project'.stamp = stamp
        /\ project' \in [version : Status!Versions, stamp : Status!Time, there : BOOLEAN]
    <3>1. project \in [version : Status!Versions, stamp : Status!Time, there : BOOLEAN]
      BY DEF StatusInv, Status!TypeOK
    <3>2. project.version + 1 \in Status!Versions /\ stamp \in Status!Time
      BY <1>0, <2>1 DEF Status!Versions, Status!Time
    <3>3. project' = [project EXCEPT !.version = project.version + 1, !.stamp = stamp]
      BY <2>1
    <3>4. QED
      BY <3>1, <3>2, <3>3, RecordUpdates
  <2>3. late' \subseteq Status!Versions /\ newest' \in Status!Time
    BY <1>0, <2>1 DEF Status!Versions, Status!Time
  <2>4. Status!TypeOK'
    BY <1>1, <1>2, <2>2, <2>3 DEF StatusInv, Status!TypeOK
  <2> HIDE DEF stamp
  <2>5. /\ shown.stamp <= newest' /\ project'.stamp <= newest' /\ late \subseteq late'
        /\ shown.version <= project'.version /\ poll.last <= project'.version
    BY <1>0, <2>1, <2>2 DEF StatusInv, Status!StampInv
  <2>6. \/ project'.stamp > shown.stamp
        \/ \E v \in late' : shown.version < v /\ v <= project'.version
    <3>1. CASE stamp > newest
      BY <1>0, <2>2, <3>1 DEF StatusInv, Status!StampInv
    <3>2. CASE ~(stamp > newest)
      <4>1. project.version + 1 \in late' /\ shown.version < project.version + 1
        BY <1>0, <2>1, <3>2 DEF StatusInv, Status!StampInv
      <4>2. QED
        BY <1>0, <2>2, <4>1
    <3>3. QED
      BY <3>1, <3>2
  <2>7. Status!PromptUnlessLate'
    BY <1>1, <2>5 DEF StatusInv, Status!StampInv, Status!PromptUnlessLate
  <2>8. QED
    BY <1>1, <2>4, <2>5, <2>6, <2>7 DEF StatusInv, Status!StampInv
<1> QED
  BY <1>3, <1>4

LEMMA HandlersKeep ==
  ASSUME StatusInv, Status!Handlers
  PROVE  StatusInv'
<1> USE BoundsAreNat DEF Status!pollVars
<1>0. time \in Status!Time /\ 0 \in Status!Time
  BY DEF StatusInv, Status!TypeOK, Status!Time
<1>1. ASSUME NEW w \in Writers, Status!Load(w) \/ Status!Mark(w) \/ Status!Abandon(w)
      PROVE  StatusInv'
  <2>1. /\ UNCHANGED <<time, project, shown, poll, late, newest>>
        /\ save' \in [Writers -> [open : BOOLEAN, stamp : Status!Time]]
    <3> DEFINE Open == [open : BOOLEAN, stamp : Status!Time]
    <3>1. save \in [Writers -> Open] /\ save[w] \in Open
      BY DEF StatusInv, Status!TypeOK
    <3>2. /\ [open |-> TRUE, stamp |-> time] \in Open
          /\ [save[w] EXCEPT !.stamp = time] \in Open
          /\ [save[w] EXCEPT !.open = FALSE, !.stamp = 0] \in Open
      BY <1>0, <3>1, RecordTypes, RecordUpdates, Zenon
    <3>3. \/ save' = [save EXCEPT ![w] = [open |-> TRUE, stamp |-> time]]
          \/ save' = [save EXCEPT ![w] = [save[w] EXCEPT !.stamp = time]]
          \/ save' = [save EXCEPT ![w] = [save[w] EXCEPT !.open = FALSE, !.stamp = 0]]
      BY <1>1, <3>1, Zenon DEF Status!Load, Status!Mark, Status!Abandon
    <3> HIDE DEF Open
    <3>4. save' \in [Writers -> Open]
      BY <3>1, <3>2, <3>3
    <3>5. QED
      BY <1>1, <3>4 DEF Open, Status!Load, Status!Mark, Status!Abandon
  <2>2. QED
    BY <2>1, StatusQuiet DEF StatusInv, Status!TypeOK
<1>2. CASE Status!Remove
  <2>1. /\ project' = [project EXCEPT !.there = FALSE]
        /\ UNCHANGED <<time, save, shown, poll, late, newest>>
    BY <1>2 DEF Status!Remove
  <2>2. project'.version = project.version /\ project'.stamp = project.stamp
        /\ project' \in [version : Status!Versions, stamp : Status!Time, there : BOOLEAN]
    BY <2>1 DEF StatusInv, Status!TypeOK
  <2>3. QED
    BY <2>1, <2>2 DEF StatusInv, Status!TypeOK, Status!StampInv, Status!PromptUnlessLate
<1>3. CASE Status!Tick
  <2>1. time' \in Status!Time /\ UNCHANGED <<project, save, shown, poll, late, newest>>
    BY <1>3 DEF Status!Tick, StatusInv, Status!TypeOK, Status!Time
  <2>2. QED
    BY <2>1, StatusQuiet DEF StatusInv, Status!TypeOK
<1> QED
  BY <1>1, <1>2, <1>3, CommitKeeps DEF Status!Handlers

\* An answer tells the client the row as it is.
LEMMA RespondKeeps ==
  ASSUME StatusInv, Status!Respond \/ Status!NotFound,
         UNCHANGED <<time, project, save, late, newest>>
  PROVE  StatusInv'
<1> USE BoundsAreNat
<1>1. poll' = Status!Idle /\ Status!Idle.at = "idle" /\ Status!Idle.last = 0
      /\ Status!Idle \in [at : {"idle", "look", "sleep", "final"}, rounds : 0 .. MaxRounds,
                          last : Status!Versions]
  BY DEF Status!Respond, Status!NotFound, Status!Idle, Status!Versions
<1>2. /\ shown' \in [version : Status!Versions, stamp : Status!Time, gone : BOOLEAN]
      /\ \/ shown'.version = project.version /\ shown'.stamp = project.stamp
         \/ shown'.version = shown.version /\ shown'.stamp = shown.stamp
  <2> DEFINE Known == [version : Status!Versions, stamp : Status!Time, gone : BOOLEAN]
  <2>1. /\ project.version \in Status!Versions /\ project.stamp \in Status!Time
        /\ shown \in Known
    BY DEF StatusInv, Status!TypeOK
  <2>2. CASE Status!Respond
    <3>1. shown' = [version |-> project.version, stamp |-> project.stamp, gone |-> FALSE]
      BY <2>2 DEF Status!Respond
    <3>2. QED
      BY <2>1, <3>1, RecordTypes
  <2>3. CASE Status!NotFound
    <3>1. shown' = [shown EXCEPT !.gone = TRUE]
      BY <2>3 DEF Status!NotFound
    <3>2. shown' \in Known
      BY <2>1, <3>1, RecordUpdates
    <3>3. QED
      BY <2>1, <3>1, <3>2
  <2>4. QED
    BY <2>2, <2>3
<1>3. Status!TypeOK'
  BY <1>1, <1>2 DEF StatusInv, Status!TypeOK
<1>4. project.version \in Nat /\ project.stamp \in Nat
  BY DEF StatusInv, Status!TypeOK, Status!Versions, Status!Time
<1>5. Status!StampInv'
  BY <1>1, <1>2, <1>4 DEF StatusInv, Status!StampInv, Status!PromptUnlessLate
<1> QED
  BY <1>3, <1>5 DEF StatusInv

LEMMA PollKeeps ==
  ASSUME StatusInv, Status!Poll
  PROVE  StatusInv'
<1> USE BoundsAreNat
<1>0. /\ poll.rounds \in 0 .. MaxRounds /\ poll.last \in Nat /\ shown.version \in Status!Versions
      /\ project.version \in Status!Versions /\ shown.version \in Nat /\ project.version \in Nat
      /\ project.stamp \in Nat /\ shown.stamp \in Nat
      /\ poll \in [at : {"idle", "look", "sleep", "final"}, rounds : 0 .. MaxRounds,
                   last : Status!Versions]
  BY DEF StatusInv, Status!TypeOK, Status!Versions, Status!Time
<1>1. UNCHANGED <<time, project, save, late, newest>>
  BY DEF Status!Poll, Status!GetStatus, Status!Ask, Status!Look, Status!Wake,
         Status!LookLast, Status!writerVars
\* A request begins with the version the client knows.
<1>2. CASE Status!GetStatus \/ Status!Ask
  <2>1. /\ shown' = shown /\ poll'.last = shown.version
        /\ poll'.at \in {"look", "sleep"} => poll'.rounds > 0
        /\ poll' \in [at : {"idle", "look", "sleep", "final"}, rounds : 0 .. MaxRounds,
                      last : Status!Versions]
    BY <1>0, <1>2 DEF Status!GetStatus, Status!Ask
  <2>2. Status!TypeOK'
    BY <1>1, <2>1 DEF StatusInv, Status!TypeOK
  <2>3. Status!StampInv'
    BY <1>0, <1>1, <2>1 DEF StatusInv, Status!StampInv, Status!PromptUnlessLate
  <2>4. QED
    BY <2>2, <2>3 DEF StatusInv
\* It sleeps when the row's updated_at is not later than the client's.
<1>3. CASE Status!Look
  <2>1. CASE Status!Respond \/ Status!NotFound
    BY <1>1, <2>1, RespondKeeps
  <2>2. CASE /\ ~Status!Newer /\ UNCHANGED shown
             /\ poll' = [poll EXCEPT !.at = "sleep", !.last = project.version]
    <3>0. poll.at = "look"
      BY <1>3 DEF Status!Look
    <3>1. /\ poll'.at = "sleep" /\ poll'.last = project.version /\ poll'.rounds = poll.rounds
          /\ poll' \in [at : {"idle", "look", "sleep", "final"}, rounds : 0 .. MaxRounds,
                        last : Status!Versions]
      BY <1>0, <2>2
    <3>2. shown.version > 0 /\ ~(project.stamp > shown.stamp)
      BY <1>0, <2>2 DEF Status!Newer
    <3>3. Status!PromptUnlessLate'
      BY <1>0, <1>1, <2>2, <3>1, <3>2 DEF StatusInv, Status!StampInv, Status!PromptUnlessLate
    <3>4. Status!TypeOK'
      BY <1>1, <2>2, <3>1 DEF StatusInv, Status!TypeOK
    <3>5. QED
      BY <1>0, <1>1, <2>2, <3>0, <3>1, <3>3, <3>4 DEF StatusInv, Status!StampInv
  <2>3. QED
    BY <1>3, <2>1, <2>2 DEF Status!Look
<1>4. CASE Status!Wake
  <2>1. /\ poll.at = "sleep" /\ poll.rounds > 0
    BY <1>4 DEF Status!Wake, StatusInv, Status!StampInv
  <2>2. /\ shown' = shown /\ poll'.last = poll.last /\ poll'.at \in {"look", "final"}
        /\ poll'.at = "look" => poll'.rounds > 0
        /\ poll' \in [at : {"idle", "look", "sleep", "final"}, rounds : 0 .. MaxRounds,
                      last : Status!Versions]
    <3>1. shown' = shown /\ poll.rounds - 1 \in 0 .. MaxRounds
      BY <1>0, <1>4, <2>1 DEF Status!Wake
    <3>2. CASE poll.rounds = 1
      <4>1. poll' = [poll EXCEPT !.rounds = poll.rounds - 1, !.at = "final"]
        BY <1>4, <3>2 DEF Status!Wake
      <4>2. QED
        BY <1>0, <3>1, <4>1
    <3>3. CASE poll.rounds # 1
      <4>1. poll' = [poll EXCEPT !.rounds = poll.rounds - 1, !.at = "look"]
        BY <1>4, <3>3 DEF Status!Wake
      <4>2. poll.rounds - 1 > 0
        BY <1>0, <2>1, <3>3
      <4>3. QED
        BY <1>0, <3>1, <4>1, <4>2
    <3>4. QED
      BY <3>2, <3>3
  <2>3. Status!TypeOK'
    BY <1>1, <2>2 DEF StatusInv, Status!TypeOK
  <2>4. Status!StampInv'
    BY <1>0, <1>1, <2>1, <2>2 DEF StatusInv, Status!StampInv, Status!PromptUnlessLate
  <2>5. QED
    BY <2>3, <2>4 DEF StatusInv
<1>5. CASE Status!LookLast
  BY <1>1, <1>5, RespondKeeps DEF Status!LookLast
<1> QED
  BY <1>2, <1>3, <1>4, <1>5 DEF Status!Poll

-----------------------------------------------------------------------------
(* The analysis: its rules                                                  *)

LEMMA Least ==
  ASSUME NEW S, S \subseteq 1 .. 12, S # {}
  PROVE  \E i \in S : \A j \in S : i <= j
<1> SUFFICES ASSUME ~ \E i \in S : \A j \in S : i <= j
             PROVE  FALSE
  OBVIOUS
<1>1. S \subseteq 2 .. 12
  OBVIOUS
<1>2. S \subseteq 3 .. 12
  BY <1>1
<1>3. S \subseteq 4 .. 12
  BY <1>2
<1>4. S \subseteq 5 .. 12
  BY <1>3
<1>5. S \subseteq 6 .. 12
  BY <1>4
<1>6. S \subseteq 7 .. 12
  BY <1>5
<1>7. S \subseteq 8 .. 12
  BY <1>6
<1>8. S \subseteq 9 .. 12
  BY <1>7
<1>9. S \subseteq 10 .. 12
  BY <1>8
<1>10. S \subseteq 11 .. 12
  BY <1>9
<1>11. S \subseteq {12}
  BY <1>10
<1>12. S = {12}
  BY <1>11
<1> QED
  BY <1>12

Confidence == {"high", "medium", "low"}

\* The last rule asks for nothing, and none for more than one file.
Ordered(rules) ==
  \E n \in 1 .. 12 :
    /\ DOMAIN rules = 1 .. n
    /\ rules[n].needs = {} /\ rules[n].listed = {}
    /\ \A i \in 1 .. n : /\ rules[i].confidence \in Confidence
                         /\ rules[i].listed = {} \/ \E f : rules[i].listed = {f}

LEMMA RulesOrdered ==
  Ordered(Analysis!NodeRules) /\ Ordered(Analysis!PythonRules) /\ Ordered(Analysis!MarkerRules)
<1>1. Ordered(Analysis!NodeRules)
  <2>1. DOMAIN Analysis!NodeRules = 1 .. 12
    BY DEF Analysis!NodeRules
  <2>2. Analysis!NodeRules[12].needs = {} /\ Analysis!NodeRules[12].listed = {}
    BY DEF Analysis!NodeRules, Analysis!Rule
  <2>3. \A i \in 1 .. 12 : /\ Analysis!NodeRules[i].confidence \in Confidence
                            /\ Analysis!NodeRules[i].listed = {}
    <3> DEFINE Fits(i) == /\ Analysis!NodeRules[i].confidence \in Confidence
                          /\ Analysis!NodeRules[i].listed = {}
    <3>1. Fits(1) /\ Fits(2) /\ Fits(3) /\ Fits(4)
      BY DEF Analysis!NodeRules, Analysis!Rule, Confidence
    <3>2. Fits(5) /\ Fits(6) /\ Fits(7) /\ Fits(8)
      BY DEF Analysis!NodeRules, Analysis!Rule, Confidence
    <3>3. Fits(9) /\ Fits(10) /\ Fits(11) /\ Fits(12)
      BY DEF Analysis!NodeRules, Analysis!Rule, Confidence
    <3> HIDE DEF Fits
    <3>4. \A i \in 1 .. 12 : Fits(i)
      BY <3>1, <3>2, <3>3
    <3>5. QED
      BY <3>4 DEF Fits
  <2>4. QED
    BY <2>1, <2>2, <2>3 DEF Ordered
<1>2. Ordered(Analysis!PythonRules)
  <2>1. DOMAIN Analysis!PythonRules = 1 .. 5
    BY DEF Analysis!PythonRules
  <2>2. Analysis!PythonRules[5].needs = {} /\ Analysis!PythonRules[5].listed = {}
    BY DEF Analysis!PythonRules, Analysis!Rule
  <2>3. \A i \in 1 .. 5 : /\ Analysis!PythonRules[i].confidence \in Confidence
                           /\ \/ Analysis!PythonRules[i].listed = {}
                              \/ \E f : Analysis!PythonRules[i].listed = {f}
    <3> DEFINE Fits(i) == /\ Analysis!PythonRules[i].confidence \in Confidence
                          /\ \/ Analysis!PythonRules[i].listed = {}
                             \/ \E f : Analysis!PythonRules[i].listed = {f}
    <3>1. Fits(1) /\ Fits(2) /\ Fits(3) /\ Fits(4) /\ Fits(5)
      BY DEF Analysis!PythonRules, Analysis!Rule, Confidence
    <3> HIDE DEF Fits
    <3>2. \A i \in 1 .. 5 : Fits(i)
      BY <3>1
    <3>3. QED
      BY <3>2 DEF Fits
  <2>4. 5 \in 1 .. 12
    OBVIOUS
  <2>5. QED
    BY <2>1, <2>2, <2>3, <2>4 DEF Ordered
<1>3. Ordered(Analysis!MarkerRules)
  <2>1. DOMAIN Analysis!MarkerRules = 1 .. 6
    BY DEF Analysis!MarkerRules
  <2>2. Analysis!MarkerRules[6].needs = {} /\ Analysis!MarkerRules[6].listed = {}
    BY DEF Analysis!MarkerRules, Analysis!Rule
  <2>3. \A i \in 1 .. 6 : /\ Analysis!MarkerRules[i].confidence \in Confidence
                           /\ \/ Analysis!MarkerRules[i].listed = {}
                              \/ \E f : Analysis!MarkerRules[i].listed = {f}
    <3> DEFINE Fits(i) == /\ Analysis!MarkerRules[i].confidence \in Confidence
                          /\ \/ Analysis!MarkerRules[i].listed = {}
                             \/ \E f : Analysis!MarkerRules[i].listed = {f}
    <3>1. Fits(1) /\ Fits(2) /\ Fits(3)
      BY DEF Analysis!MarkerRules, Analysis!Rule, Confidence
    <3>2. Fits(4) /\ Fits(5) /\ Fits(6)
      BY DEF Analysis!MarkerRules, Analysis!Rule, Confidence
    <3> HIDE DEF Fits
    <3>3. \A i \in 1 .. 6 : Fits(i)
      BY <3>1, <3>2
    <3>4. QED
      BY <3>3 DEF Fits
  <2>4. 6 \in 1 .. 12
    OBVIOUS
  <2>5. QED
    BY <2>1, <2>2, <2>3, <2>4 DEF Ordered
<1> QED
  BY <1>1, <1>2, <1>3

\* The rule that is taken is one whose file is there.
LEMMA FirstHolds ==
  ASSUME NEW rules, Ordered(rules), NEW names, NEW listing
  PROVE  LET rule == Analysis!First(rules, names, listing) IN
         /\ rule.confidence \in Confidence
         /\ rule.listed \subseteq listing
         /\ rule.listed = {} \/ \E f : rule.listed = {f}
<1> DEFINE holds == {i \in DOMAIN rules :
                       rules[i].needs \subseteq names /\ rules[i].listed \subseteq listing}
           best == CHOOSE i \in holds : \A j \in holds : i <= j
<1>1. PICK n \in 1 .. 12 :
        /\ DOMAIN rules = 1 .. n
        /\ rules[n].needs = {} /\ rules[n].listed = {}
        /\ \A i \in 1 .. n : /\ rules[i].confidence \in Confidence
                             /\ rules[i].listed = {} \/ \E f : rules[i].listed = {f}
  BY DEF Ordered
<1>2. n \in holds /\ holds \subseteq 1 .. 12
  BY <1>1
<1>3. best \in holds
  <2> HIDE DEF holds
  <2>1. \E i \in holds : \A j \in holds : i <= j
    BY <1>2, Least
  <2>2. QED
    BY <2>1
<1>4. Analysis!First(rules, names, listing) = rules[best]
  BY DEF Analysis!First
<1> HIDE DEF best
<1> QED
  BY <1>1, <1>3, <1>4

\* What the configurations say: an install command names a file.
LEMMA ConfigFacts ==
  ASSUME NEW names, NEW listing, NEW got, got \subseteq listing
  PROVE  /\ LET c == Analysis!MarkerConfig(listing) IN
             /\ c.confidence \in Confidence /\ c.detected \subseteq listing
             /\ c.install = "none" \/ c.install \in listing
         /\ LET c == Analysis!NodeConfig(names, listing) IN
             /\ c.confidence \in Confidence
             /\ "package.json" \in listing => c.detected \subseteq listing
             /\ c.install = "package.json"
         /\ LET c == Analysis!PythonConfig(names, listing, got) IN
             /\ c.confidence \in Confidence /\ c.detected \subseteq listing
             /\ c.install = IF "pyproject.toml" \in got /\ "requirements.txt" \notin listing
                            THEN "pyproject.toml" ELSE "requirements.txt"
<1>0. ASSUME NEW shows PROVE Analysis!Shown(shows, listing) \subseteq listing
  BY DEF Analysis!Shown
<1>1. LET c == Analysis!MarkerConfig(listing) IN
        /\ c.confidence \in Confidence /\ c.detected \subseteq listing
        /\ c.install = "none" \/ c.install \in listing
  <2> DEFINE rule == Analysis!First(Analysis!MarkerRules, {}, listing)
  <2>1. /\ rule.confidence \in Confidence /\ rule.listed \subseteq listing
        /\ rule.listed = {} \/ \E f : rule.listed = {f}
    BY RulesOrdered, FirstHolds
  <2>2. /\ Analysis!MarkerConfig(listing).confidence = rule.confidence
        /\ Analysis!MarkerConfig(listing).detected = {} \cup Analysis!Shown(rule.shows, listing)
        /\ Analysis!MarkerConfig(listing).install =
             IF rule.listed = {} THEN "none" ELSE CHOOSE f \in rule.listed : TRUE
    BY DEF Analysis!MarkerConfig, Analysis!Config
  <2> HIDE DEF rule
  <2>3. QED
    BY <1>0, <2>1, <2>2
<1>2. LET c == Analysis!NodeConfig(names, listing) IN
        /\ c.confidence \in Confidence
        /\ "package.json" \in listing => c.detected \subseteq listing
        /\ c.install = "package.json"
  <2> DEFINE rule == Analysis!First(Analysis!NodeRules, names, listing)
  <2>1. rule.confidence \in Confidence
    BY RulesOrdered, FirstHolds
  <2>2. Analysis!NodeConfig(names, listing) =
          Analysis!Config(rule, "package.json", {"package.json"}, listing)
    BY DEF Analysis!NodeConfig
  <2> HIDE DEF rule
  <2>3. QED
    BY <1>0, <2>1, <2>2 DEF Analysis!Config
<1>3. LET c == Analysis!PythonConfig(names, listing, got) IN
        /\ c.confidence \in Confidence /\ c.detected \subseteq listing
        /\ c.install = IF "pyproject.toml" \in got /\ "requirements.txt" \notin listing
                       THEN "pyproject.toml" ELSE "requirements.txt"
  <2> DEFINE rule == Analysis!First(Analysis!PythonRules, names, listing)
             install == IF "pyproject.toml" \in got /\ "requirements.txt" \notin listing
                        THEN "pyproject.toml" ELSE "requirements.txt"
  <2>1. rule.confidence \in Confidence
    BY RulesOrdered, FirstHolds
  <2>2. Analysis!PythonConfig(names, listing, got) = Analysis!Config(rule, install, got, listing)
    BY DEF Analysis!PythonConfig
  <2> HIDE DEF rule
  <2>3. QED
    BY <1>0, <2>1, <2>2 DEF Analysis!Config
<1> QED
  BY <1>1, <1>2, <1>3

-----------------------------------------------------------------------------
(* The analysis: its steps                                                  *)

AnalysisInv == Analysis!TypeOK /\ Analysis!ReadInv

\* Only a text names anything, and it names what its rules know.
LEMMA ContentsNames ==
  ASSUME NEW f, NEW c \in Analysis!Contents(f)
  PROVE  /\ c.form \in {"text", "blank", "broken", "odd"}
         /\ c.form # "text" => c.names = {}
         /\ f = "package.json" => c.names \subseteq Packages
         /\ f \in {"requirements.txt", "pyproject.toml"} =>
              c.names \subseteq Libraries /\ c.form \in {"text", "blank"}
BY DEF Analysis!Contents, Analysis!Text, Analysis!Form

\* What a call returns: the file as it is, or nothing.
LEMMA ReadReturns ==
  ASSUME Analysis!TypeOK, NEW f \in Files, NEW c \in Analysis!Read(f)
  PROVE  /\ c.form # "text" => c.names = {}
         /\ f \in {"requirements.txt", "pyproject.toml"} => c.names \subseteq Libraries
         /\ c.form # "missing" /\ f \in DOMAIN repo => c = repo[f]
         /\ c.form \in {"text", "odd"} => f \in DOMAIN repo /\ c = repo[f]
<1>1. c = Analysis!Form("blank") \/ c = Analysis!Form("missing") \/ (f \in DOMAIN repo /\ c = repo[f])
  BY DEF Analysis!Read
<1>2. f \in DOMAIN repo => repo[f] \in Analysis!Contents(f)
  BY DEF Analysis!TypeOK
<1>3. f \in DOMAIN repo => c = repo[f] \/ c = Analysis!Form("missing")
  BY DEF Analysis!Read
<1> QED
  BY <1>1, <1>2, <1>3, ContentsNames DEF Analysis!Form

LEMMA AnalysisInit ==
  ASSUME Analysis!Init
  PROVE  AnalysisInv
<1> USE BoundsAreNat
<1>1. PICK listing \in SUBSET Files, package \in Analysis!Contents("package.json"),
        requirements \in Analysis!Contents("requirements.txt"),
        pyproject \in Analysis!Contents("pyproject.toml") :
       repo = [f \in listing |->
                 CASE f = "package.json" -> package
                   [] f = "requirements.txt" -> requirements
                   [] f = "pyproject.toml" -> pyproject
                   [] OTHER -> Analysis!Form("blank")]
  BY DEF Analysis!Init
<1>2. /\ at = "idle" /\ seen = {} /\ read = {} /\ deps = {} /\ answer = Analysis!NoAnswer
      /\ missed = {} /\ pushes = 0
  BY DEF Analysis!Init
<1>3. \A f \in DOMAIN repo : repo[f] \in Analysis!Contents(f)
  <2> SUFFICES ASSUME NEW f \in listing PROVE repo[f] \in Analysis!Contents(f)
    BY <1>1
  <2>1. CASE f \in {"package.json", "requirements.txt", "pyproject.toml"}
    BY <1>1, <2>1
  <2>2. CASE f \notin {"package.json", "requirements.txt", "pyproject.toml"}
    <3>1. repo[f] = Analysis!Form("blank")
      BY <1>1, <2>2
    <3>2. Analysis!Contents(f) = {Analysis!Form("blank")}
      BY <2>2 DEF Analysis!Contents
    <3>3. QED
      BY <3>1, <3>2
  <2>3. QED
    BY <2>1, <2>2
<1>4. Analysis!TypeOK
  BY <1>1, <1>2, <1>3 DEF Analysis!TypeOK, Analysis!Calls, Analysis!NoAnswer
<1>5. Analysis!ReadInv
  BY <1>2 DEF Analysis!ReadInv, Analysis!Listed, Analysis!ReadSoFar, Analysis!AnswersWhatItRead,
              Analysis!InstallNamesListed, Analysis!Answered
<1> QED
  BY <1>4, <1>5 DEF AnalysisInv

\* An error is no answer.
LEMMA ErrorKeeps ==
  ASSUME AnalysisInv, Analysis!Reply(Analysis!Error),
         UNCHANGED <<repo, seen, deps, pushes>>,
         read' = read \/ read' = {},
         missed' \subseteq Analysis!Manifests
  PROVE  AnalysisInv'
<1>1. at' = "answered" /\ answer' = Analysis!Error
  BY DEF Analysis!Reply
<1>2. Analysis!TypeOK'
  BY <1>1 DEF AnalysisInv, Analysis!TypeOK, Analysis!Calls, Analysis!Error, Analysis!NoAnswer
<1>3. Analysis!ReadInv'
  BY <1>1 DEF Analysis!ReadInv, Analysis!Listed, Analysis!ReadSoFar,
              Analysis!AnswersWhatItRead, Analysis!InstallNamesListed, Analysis!Answered
<1> QED
  BY <1>2, <1>3 DEF AnalysisInv

\* What an answer has to be for the invariant.
LEMMA AnswerKeeps ==
  ASSUME NEW config, Analysis!Reply(config),
         AnalysisInv, UNCHANGED <<repo, pushes>>,
         seen' \subseteq Files, read' \subseteq Analysis!Manifests \cap seen', deps' \subseteq Libraries,
         missed' \subseteq Analysis!Manifests,
         config.confidence \in Confidence, config.detected \subseteq Files,
         config.install \in seen' \cup {"none"} \/ "pyproject.toml" \in seen' \ read',
         pushes = 0 => config = Analysis!Reference(Analysis!Masked)'
  PROVE  AnalysisInv'
<1>1. at' = "answered" /\ answer' = config
  BY DEF Analysis!Reply
<1>2. Analysis!TypeOK'
  BY <1>1 DEF AnalysisInv, Analysis!TypeOK, Analysis!Calls, Confidence
<1>3. Analysis!ReadInv'
  <2>1. Analysis!Listed' /\ (pushes' = 0 => Analysis!ReadSoFar')
    BY <1>1 DEF Analysis!Listed, Analysis!ReadSoFar
  <2>2. Analysis!AnswersWhatItRead' /\ Analysis!InstallNamesListed'
    BY <1>1 DEF Analysis!AnswersWhatItRead, Analysis!InstallNamesListed
  <2>3. QED
    BY <2>1, <2>2 DEF Analysis!ReadInv
<1> QED
  BY <1>2, <1>3 DEF AnalysisInv

\* A step that leaves the repository alone masks one more file at most.
LEMMA MaskedNext ==
  ASSUME UNCHANGED repo
  PROVE  /\ DOMAIN Analysis!Masked' = DOMAIN repo
         /\ \A f \in DOMAIN repo : Analysis!Masked'[f] =
              IF f \in missed' THEN Analysis!Form("blank") ELSE repo[f]
         /\ DOMAIN Analysis!Masked = DOMAIN repo
         /\ \A f \in DOMAIN repo : Analysis!Masked[f] =
              IF f \in missed THEN Analysis!Form("blank") ELSE repo[f]
BY DEF Analysis!Masked

\* package.json settled nothing: the Python files, or the other marks.
LEMMA FallbackKeeps ==
  ASSUME AnalysisInv, UNCHANGED <<repo, pushes>>, Analysis!Fallback(seen'),
         seen' \subseteq Files, read' = {}, deps' = {}, missed' \subseteq Analysis!Manifests,
         pushes = 0 => /\ seen' = DOMAIN repo /\ missed' \subseteq {"package.json"}
                       /\ ~Analysis!Decides(Analysis!Masked)'
  PROVE  AnalysisInv'
<1>1. CASE "requirements.txt" \in seen'
  <2>1. at' = "requirements" /\ answer' = answer
    BY <1>1 DEF Analysis!Fallback, Analysis!Goto
  <2>2. Analysis!TypeOK'
    BY <2>1 DEF AnalysisInv, Analysis!TypeOK, Analysis!Calls
  <2>3. Analysis!ReadInv'
    BY <1>1, <2>1 DEF Analysis!ReadInv, Analysis!Listed, Analysis!ReadSoFar,
       Analysis!AnswersWhatItRead, Analysis!InstallNamesListed, Analysis!Answered
  <2>4. QED
    BY <2>2, <2>3 DEF AnalysisInv
<1>2. CASE "requirements.txt" \notin seen' /\ "pyproject.toml" \in seen'
  <2>1. at' = "pyproject" /\ answer' = answer
    BY <1>2 DEF Analysis!Fallback, Analysis!Goto
  <2>2. Analysis!TypeOK'
    BY <2>1 DEF AnalysisInv, Analysis!TypeOK, Analysis!Calls
  <2>3. pushes = 0 => /\ Analysis!Texts(Analysis!Masked)' \cap {"requirements.txt"} = {}
                      /\ Analysis!Named(Analysis!Masked, "requirements.txt")' = {}
    BY <1>2, MaskedNext DEF Analysis!Texts, Analysis!Named
  <2>4. Analysis!Listed' /\ (pushes' = 0 => Analysis!ReadSoFar')
    BY <1>2, <2>1, <2>3 DEF Analysis!Listed, Analysis!ReadSoFar
  <2>5. Analysis!AnswersWhatItRead' /\ Analysis!InstallNamesListed'
    BY <2>1 DEF Analysis!AnswersWhatItRead, Analysis!InstallNamesListed, Analysis!Answered
  <2>6. QED
    BY <2>2, <2>4, <2>5 DEF AnalysisInv, Analysis!ReadInv
<1>3. CASE "requirements.txt" \notin seen' /\ "pyproject.toml" \notin seen'
  <2> DEFINE config == Analysis!MarkerConfig(seen')
  <2>1. Analysis!Reply(config)
    BY <1>3 DEF Analysis!Fallback
  <2>2. config.confidence \in Confidence /\ config.detected \subseteq seen'
        /\ config.install \in seen' \cup {"none"}
    BY ConfigFacts
  <2>3. pushes = 0 => config = Analysis!Reference(Analysis!Masked)'
    <3> SUFFICES ASSUME pushes = 0 PROVE config = Analysis!Reference(Analysis!Masked')
      OBVIOUS
    <3>1. /\ ~Analysis!Decides(Analysis!Masked') /\ DOMAIN Analysis!Masked' = seen'
          /\ Analysis!Python \cap DOMAIN Analysis!Masked' = {}
      BY <1>3, MaskedNext DEF Analysis!Python
    <3>2. QED
      BY <3>1 DEF Analysis!Reference
  <2> HIDE DEF config
  <2>4. QED
    BY <2>1, <2>2, <2>3, AnswerKeeps
<1> QED
  BY <1>1, <1>2, <1>3

LEMMA ListKeeps ==
  ASSUME AnalysisInv, Analysis!GetRepoContents
  PROVE  AnalysisInv'
<1>1. at = "list" /\ UNCHANGED <<repo, read, deps, missed, pushes>>
  BY DEF Analysis!GetRepoContents
<1>2. missed = {} /\ read = {} /\ deps = {} /\ DOMAIN repo \subseteq Files
  BY <1>1 DEF AnalysisInv, Analysis!TypeOK, Analysis!ReadInv, Analysis!Listed
<1>3. CASE Analysis!Reply(Analysis!Error) /\ UNCHANGED seen
  BY <1>1, <1>2, <1>3, ErrorKeeps
<1>4. CASE seen' = DOMAIN repo /\ "package.json" \in DOMAIN repo /\ Analysis!Goto("package")
  <2>1. Analysis!TypeOK'
    BY <1>1, <1>2, <1>4 DEF AnalysisInv, Analysis!TypeOK, Analysis!Goto, Analysis!Calls
  <2>2. Analysis!ReadInv'
    BY <1>1, <1>2, <1>4 DEF Analysis!ReadInv, Analysis!Listed, Analysis!ReadSoFar, Analysis!Goto,
       Analysis!AnswersWhatItRead, Analysis!InstallNamesListed, Analysis!Answered
  <2>3. QED
    BY <2>1, <2>2 DEF AnalysisInv
<1>5. CASE seen' = DOMAIN repo /\ "package.json" \notin DOMAIN repo /\ Analysis!Fallback(DOMAIN repo)
  <2>1. ~Analysis!Decides(Analysis!Masked')
    BY <1>1, <1>5, MaskedNext DEF Analysis!Decides
  <2>2. QED
    BY <1>1, <1>2, <1>5, <2>1, FallbackKeeps
<1> QED
  BY <1>3, <1>4, <1>5 DEF Analysis!GetRepoContents

LEMMA PackageKeeps ==
  ASSUME AnalysisInv, Analysis!ReadPackage
  PROVE  AnalysisInv'
<1> DEFINE file == "package.json"
<1>1. at = "package" /\ UNCHANGED <<repo, seen, deps, pushes>>
  BY DEF Analysis!ReadPackage
<1>2. /\ missed = {} /\ deps = {} /\ seen \subseteq Files /\ file \in seen
      /\ pushes = 0 => seen = DOMAIN repo
  BY <1>1 DEF AnalysisInv, Analysis!TypeOK, Analysis!ReadInv, Analysis!Listed, Analysis!ReadSoFar
<1>3. PICK c \in Analysis!Read(file) :
        /\ Analysis!Note(file, c)
        /\ CASE c.form = "text" -> Analysis!Reply(Analysis!NodeConfig(c.names, seen))
             [] c.form = "odd" -> Analysis!Reply(Analysis!Error)
             [] OTHER -> Analysis!Fallback(seen)
        /\ read' = IF c.form = "text" THEN {"package.json"} ELSE {}
  BY DEF Analysis!ReadPackage
<1>4. missed' = IF c.form = "missing" THEN {file} ELSE {}
  BY <1>2, <1>3 DEF Analysis!Note
<1>5. missed' \subseteq Analysis!Manifests
  BY <1>4 DEF Analysis!Manifests
<1>6. /\ c.form # "missing" /\ file \in DOMAIN repo => c = repo[file]
      /\ c.form \in {"text", "odd"} => file \in DOMAIN repo /\ c = repo[file]
  BY <1>2, ReadReturns DEF AnalysisInv
<1>7. CASE c.form = "text"
  <2> DEFINE config == Analysis!NodeConfig(c.names, seen)
  <2>1. Analysis!Reply(config) /\ read' = {file} /\ missed' = {}
    BY <1>3, <1>4, <1>7
  <2>2. config.confidence \in Confidence /\ config.detected \subseteq seen /\ config.install = file
    BY <1>2, ConfigFacts
  <2>3. pushes = 0 => config = Analysis!Reference(Analysis!Masked)'
    <3> SUFFICES ASSUME pushes = 0 PROVE config = Analysis!Reference(Analysis!Masked')
      OBVIOUS
    <3>1. DOMAIN Analysis!Masked' = seen /\ Analysis!Masked'[file] = c
      BY <1>1, <1>2, <1>6, <1>7, <2>1, MaskedNext
    <3>2. QED
      BY <1>2, <1>7, <3>1 DEF Analysis!Reference, Analysis!Decides
  <2>4. read' \subseteq Analysis!Manifests \cap seen'
    BY <1>1, <1>2, <2>1 DEF Analysis!Manifests
  <2> HIDE DEF config
  <2>5. QED
    BY <1>1, <1>2, <1>5, <2>1, <2>2, <2>3, <2>4, AnswerKeeps
<1>8. CASE c.form = "odd"
  BY <1>1, <1>2, <1>3, <1>5, <1>8, ErrorKeeps
<1>9. CASE c.form \notin {"text", "odd"}
  <2>1. Analysis!Fallback(seen) /\ read' = {}
    BY <1>3, <1>9
  <2>2. pushes = 0 => ~Analysis!Decides(Analysis!Masked')
    BY <1>1, <1>4, <1>6, <1>9, MaskedNext DEF Analysis!Decides, Analysis!Form
  <2>3. missed' \subseteq {"package.json"}
    BY <1>4
  <2>4. QED
    BY <1>1, <1>2, <1>5, <2>1, <2>2, <2>3, FallbackKeeps
<1> QED
  BY <1>7, <1>8, <1>9

\* What package.json decides does not change when another file is missed.
LEMMA DecidesNext ==
  ASSUME UNCHANGED repo, missed' = missed \/ (\E f : f # "package.json" /\ missed' = missed \cup {f})
  PROVE  Analysis!Decides(Analysis!Masked') <=> Analysis!Decides(Analysis!Masked)
<1>1. "package.json" \in missed' <=> "package.json" \in missed
  OBVIOUS
<1>2. "package.json" \in DOMAIN repo =>
        Analysis!Masked'["package.json"] = Analysis!Masked["package.json"]
  BY <1>1, MaskedNext
<1> QED
  BY <1>2, MaskedNext DEF Analysis!Decides

\* Without a push a Python file is what the call returned, or blank.
LEMMA PythonRead ==
  ASSUME AnalysisInv, UNCHANGED repo, DOMAIN repo \subseteq Files, pushes = 0,
         NEW f \in {"requirements.txt", "pyproject.toml"} \cap DOMAIN repo, f \notin missed,
         NEW c \in Analysis!Read(f), Analysis!Note(f, c)
  PROVE  /\ Analysis!Named(Analysis!Masked', f) = c.names
         /\ f \in Analysis!Texts(Analysis!Masked') <=> c.form = "text"
<1>1. /\ c.form # "text" => c.names = {}
      /\ c.form # "missing" => c = repo[f]
  BY ReadReturns DEF AnalysisInv
<1>2. missed' = IF c.form = "missing" THEN missed \cup {f} ELSE missed
  BY DEF Analysis!Note
<1>3. CASE c.form = "missing"
  <2>1. f \in DOMAIN Analysis!Masked' /\ Analysis!Masked'[f] = Analysis!Form("blank")
    BY <1>2, <1>3, MaskedNext
  <2>2. QED
    BY <1>1, <1>3, <2>1 DEF Analysis!Named, Analysis!Texts, Analysis!Form, Analysis!Python
<1>4. CASE c.form # "missing"
  <2>1. f \in DOMAIN Analysis!Masked' /\ Analysis!Masked'[f] = c
    BY <1>1, <1>2, <1>4, MaskedNext
  <2>2. QED
    BY <2>1 DEF Analysis!Named, Analysis!Texts, Analysis!Python
<1> QED
  BY <1>3, <1>4

LEMMA RequirementsKeeps ==
  ASSUME AnalysisInv, Analysis!ReadRequirements
  PROVE  AnalysisInv'
<1> DEFINE file == "requirements.txt"
           other == "pyproject.toml"
<1>1. at = "requirements" /\ UNCHANGED <<repo, seen, pushes>>
  BY DEF Analysis!ReadRequirements
<1>2. /\ seen \subseteq Files /\ file \in seen /\ missed \subseteq Analysis!Manifests
      /\ pushes = 0 => /\ seen = DOMAIN repo /\ missed \subseteq {"package.json"}
                       /\ ~Analysis!Decides(Analysis!Masked)
  BY <1>1 DEF AnalysisInv, Analysis!TypeOK, Analysis!ReadInv, Analysis!Listed, Analysis!ReadSoFar
<1>3. PICK c \in Analysis!Read(file) :
        LET got == IF c.form = "text" THEN {"requirements.txt"} ELSE {} IN
        /\ Analysis!Note(file, c)
        /\ read' = got
        /\ deps' = c.names
        /\ IF other \in seen THEN Analysis!Goto("pyproject")
           ELSE Analysis!Reply(Analysis!PythonConfig(c.names, seen, got))
  BY DEF Analysis!ReadRequirements
<1> DEFINE got == IF c.form = "text" THEN {file} ELSE {}
<1>4. missed' = IF c.form = "missing" THEN missed \cup {file} ELSE missed
  BY <1>3 DEF Analysis!Note
<1>5. missed' \subseteq Analysis!Manifests
  BY <1>2, <1>4 DEF Analysis!Manifests
<1>6. /\ read' = got /\ deps' = c.names
      /\ got \subseteq Analysis!Manifests \cap seen
  BY <1>2, <1>3 DEF Analysis!Manifests
<1>7. deps' \subseteq Libraries
  BY <1>2, <1>6, ReadReturns DEF AnalysisInv
<1>8. pushes = 0 => /\ Analysis!Named(Analysis!Masked', file) = c.names
                    /\ Analysis!Texts(Analysis!Masked') \cap {file} = got
                    /\ DOMAIN Analysis!Masked' = seen
                    /\ ~Analysis!Decides(Analysis!Masked')
  <2> SUFFICES ASSUME pushes = 0
               PROVE  /\ Analysis!Named(Analysis!Masked', file) = c.names
                      /\ Analysis!Texts(Analysis!Masked') \cap {file} = got
                      /\ DOMAIN Analysis!Masked' = seen
                      /\ ~Analysis!Decides(Analysis!Masked')
    OBVIOUS
  <2>1. /\ Analysis!Named(Analysis!Masked', file) = c.names
        /\ file \in Analysis!Texts(Analysis!Masked') <=> c.form = "text"
    BY <1>1, <1>2, <1>3, PythonRead
  <2>2. QED
    BY <1>1, <1>2, <1>4, <2>1, MaskedNext, DecidesNext
<1>9. CASE other \in seen
  <2>1. at' = "pyproject" /\ answer' = answer
    BY <1>3, <1>9 DEF Analysis!Goto
  <2>2. Analysis!TypeOK'
    BY <1>1, <1>5, <1>6, <1>7, <2>1 DEF AnalysisInv, Analysis!TypeOK, Analysis!Calls
  <2>3. pushes' = 0 => Analysis!ReadSoFar'
    BY <1>1, <1>2, <1>4, <1>6, <1>8, <2>1 DEF Analysis!ReadSoFar
  <2>4. Analysis!Listed' /\ Analysis!AnswersWhatItRead' /\ Analysis!InstallNamesListed'
    BY <1>1, <1>9, <2>1 DEF Analysis!Listed, Analysis!AnswersWhatItRead,
       Analysis!InstallNamesListed, Analysis!Answered
  <2>5. QED
    BY <2>2, <2>3, <2>4 DEF AnalysisInv, Analysis!ReadInv
<1>10. CASE other \notin seen
  <2> DEFINE config == Analysis!PythonConfig(c.names, seen, got)
  <2>1. Analysis!Reply(config)
    BY <1>3, <1>10
  <2>2. config.confidence \in Confidence /\ config.detected \subseteq seen /\ config.install = file
    BY <1>2, <1>6, ConfigFacts
  <2>3. pushes = 0 => config = Analysis!Reference(Analysis!Masked)'
    <3> SUFFICES ASSUME pushes = 0 PROVE config = Analysis!Reference(Analysis!Masked')
      OBVIOUS
    <3> DEFINE names == UNION {Analysis!Named(Analysis!Masked', f) : f \in Analysis!Python}
    <3>1. Analysis!Named(Analysis!Masked', other) = {}
      BY <1>8, <1>10 DEF Analysis!Named
    <3>2. names = c.names
      BY <1>8, <3>1 DEF Analysis!Python
    <3>3. Analysis!Texts(Analysis!Masked') = got
      BY <1>8, <1>10 DEF Analysis!Texts, Analysis!Python
    <3>4. Analysis!Python \cap DOMAIN Analysis!Masked' # {}
      BY <1>2, <1>8 DEF Analysis!Python
    <3>5. Analysis!Reference(Analysis!Masked') =
            Analysis!PythonConfig(names, DOMAIN Analysis!Masked', Analysis!Texts(Analysis!Masked'))
      BY <1>8, <3>4 DEF Analysis!Reference
    <3>6. QED
      BY <1>8, <3>2, <3>3, <3>5
  <2> HIDE DEF config
  <2>4. QED
    BY <1>1, <1>2, <1>5, <1>6, <1>7, <2>1, <2>2, <2>3, AnswerKeeps
<1> QED
  BY <1>9, <1>10

LEMMA PyprojectKeeps ==
  ASSUME AnalysisInv, Analysis!ReadPyproject
  PROVE  AnalysisInv'
<1> DEFINE file == "pyproject.toml"
           other == "requirements.txt"
<1>1. at = "pyproject" /\ UNCHANGED <<repo, seen, pushes>>
  BY DEF Analysis!ReadPyproject
<1>2. /\ seen \subseteq Files /\ file \in seen /\ missed \subseteq Analysis!Manifests
      /\ read \subseteq Analysis!Manifests \cap seen /\ deps \subseteq Libraries
      /\ pushes = 0 => /\ seen = DOMAIN repo /\ missed \subseteq {"package.json", other}
                       /\ ~Analysis!Decides(Analysis!Masked)
                       /\ read = Analysis!Texts(Analysis!Masked) \cap {other}
                       /\ deps = Analysis!Named(Analysis!Masked, other)
  BY <1>1 DEF AnalysisInv, Analysis!TypeOK, Analysis!ReadInv, Analysis!Listed, Analysis!ReadSoFar
<1>3. PICK c \in Analysis!Read(file) :
        LET got == IF c.form = "text" THEN read \cup {"pyproject.toml"} ELSE read IN
        /\ Analysis!Note(file, c)
        /\ read' = got
        /\ deps' = deps \cup c.names
        /\ Analysis!Reply(Analysis!PythonConfig(deps \cup c.names, seen, got))
  BY DEF Analysis!ReadPyproject
<1> DEFINE got == IF c.form = "text" THEN read \cup {file} ELSE read
           config == Analysis!PythonConfig(deps \cup c.names, seen, got)
<1>4. missed' = IF c.form = "missing" THEN missed \cup {file} ELSE missed
  BY <1>3 DEF Analysis!Note
<1>5. missed' \subseteq Analysis!Manifests
  BY <1>2, <1>4 DEF Analysis!Manifests
<1>6. /\ read' = got /\ deps' = deps \cup c.names /\ Analysis!Reply(config)
      /\ got \subseteq Analysis!Manifests \cap seen
  BY <1>2, <1>3 DEF Analysis!Manifests
<1>7. deps' \subseteq Libraries
  BY <1>2, <1>6, ReadReturns DEF AnalysisInv
\* The command names requirements.txt though it is not there only when
\* pyproject.toml was not read.
<1>8. /\ config.confidence \in Confidence /\ config.detected \subseteq seen
      /\ config.install \in seen \cup {"none"} \/ file \in seen \ got
  BY <1>2, <1>6, ConfigFacts
<1>9. pushes = 0 => config = Analysis!Reference(Analysis!Masked)'
  <2> SUFFICES ASSUME pushes = 0 PROVE config = Analysis!Reference(Analysis!Masked')
    OBVIOUS
  <2> DEFINE names == UNION {Analysis!Named(Analysis!Masked', f) : f \in Analysis!Python}
  <2>1. /\ Analysis!Named(Analysis!Masked', file) = c.names
        /\ file \in Analysis!Texts(Analysis!Masked') <=> c.form = "text"
    BY <1>1, <1>2, <1>3, PythonRead
  <2>2. other \in DOMAIN repo => Analysis!Masked'[other] = Analysis!Masked[other]
    BY <1>1, <1>4, MaskedNext
  <2>3. /\ Analysis!Named(Analysis!Masked', other) = deps
        /\ other \in Analysis!Texts(Analysis!Masked') <=> other \in read
    BY <1>1, <1>2, <2>2, MaskedNext DEF Analysis!Named, Analysis!Texts
  <2>4. names = deps \cup c.names
    BY <2>1, <2>3 DEF Analysis!Python
  <2>5. Analysis!Texts(Analysis!Masked') \subseteq {file, other} /\ read \subseteq {other}
    BY <1>2 DEF Analysis!Texts, Analysis!Python
  <2>6. Analysis!Texts(Analysis!Masked') = got
    <3> DEFINE texts == Analysis!Texts(Analysis!Masked')
    <3>1. /\ file \in texts <=> file \in got
          /\ other \in texts <=> other \in got
          /\ texts \subseteq {file, other} /\ got \subseteq {file, other}
      BY <2>1, <2>3, <2>5
    <3> HIDE DEF texts, got
    <3>2. \A f : f \in texts <=> f \in got
      BY <3>1
    <3>3. QED
      BY <3>2 DEF texts
  <2>7. /\ ~Analysis!Decides(Analysis!Masked') /\ DOMAIN Analysis!Masked' = seen
        /\ Analysis!Python \cap DOMAIN Analysis!Masked' # {}
    BY <1>1, <1>2, <1>4, MaskedNext, DecidesNext DEF Analysis!Python
  <2>8. Analysis!Reference(Analysis!Masked') =
          Analysis!PythonConfig(names, DOMAIN Analysis!Masked', Analysis!Texts(Analysis!Masked'))
    BY <2>7 DEF Analysis!Reference
  <2>9. QED
    BY <2>4, <2>6, <2>7, <2>8
<1> HIDE DEF config
<1> QED
  BY <1>1, <1>2, <1>5, <1>6, <1>7, <1>8, <1>9, AnswerKeeps

\* After a push only what the calls returned counts.
LEMMA PushKeeps ==
  ASSUME AnalysisInv, Analysis!Push
  PROVE  AnalysisInv'
<1> USE BoundsAreNat
<1>1. /\ UNCHANGED <<at, seen, read, deps, answer, missed>>
      /\ pushes' = pushes + 1 /\ pushes < MaxPushes /\ pushes \in 0 .. MaxPushes
  BY DEF Analysis!Push, AnalysisInv, Analysis!TypeOK
<1>2. PICK f \in Files :
        \/ f \in DOMAIN repo /\ repo' = [g \in DOMAIN repo \ {f} |-> repo[g]]
        \/ \E c \in Analysis!Contents(f) :
             repo' = [g \in DOMAIN repo \cup {f} |-> IF g = f THEN c ELSE repo[g]]
  BY DEF Analysis!Push
<1>3. /\ DOMAIN repo' \subseteq Files
      /\ \A g \in DOMAIN repo' : repo'[g] \in Analysis!Contents(g)
  BY <1>2 DEF AnalysisInv, Analysis!TypeOK
<1>4. pushes' \in 0 .. MaxPushes /\ pushes' # 0
  BY <1>1
<1>5. Analysis!TypeOK'
  BY <1>1, <1>3, <1>4 DEF AnalysisInv, Analysis!TypeOK
<1>6. Analysis!ReadInv'
  BY <1>1, <1>4 DEF AnalysisInv, Analysis!ReadInv, Analysis!Listed, Analysis!AnswersWhatItRead,
     Analysis!InstallNamesListed, Analysis!Answered
<1> QED
  BY <1>5, <1>6 DEF AnalysisInv

LEMMA AnalysisKeeps ==
  ASSUME AnalysisInv, Analysis!Next
  PROVE  AnalysisInv'
<1>1. CASE Analysis!Ask
  <2>1. at' = "token" /\ UNCHANGED <<answer, repo, seen, read, deps, missed, pushes>> /\ at = "idle"
    BY <1>1 DEF Analysis!Ask, Analysis!Goto
  <2>2. Analysis!TypeOK' /\ Analysis!ReadInv'
    BY <2>1 DEF AnalysisInv, Analysis!TypeOK, Analysis!Calls, Analysis!ReadInv, Analysis!Listed,
       Analysis!ReadSoFar, Analysis!AnswersWhatItRead, Analysis!InstallNamesListed, Analysis!Answered
  <2>3. QED
    BY <2>2 DEF AnalysisInv
<1>2. CASE Analysis!GetToken
  <2>1. at = "token" /\ UNCHANGED <<repo, seen, read, deps, missed, pushes>>
    BY <1>2 DEF Analysis!GetToken
  <2>2. CASE Analysis!Goto("list")
    <3>1. at' = "list" /\ UNCHANGED answer
      BY <2>2 DEF Analysis!Goto
    <3>2. Analysis!TypeOK' /\ Analysis!ReadInv'
      BY <2>1, <3>1 DEF AnalysisInv, Analysis!TypeOK, Analysis!Calls, Analysis!ReadInv, Analysis!Listed,
         Analysis!ReadSoFar, Analysis!AnswersWhatItRead, Analysis!InstallNamesListed, Analysis!Answered
    <3>3. QED
      BY <3>2 DEF AnalysisInv
  <2>3. CASE Analysis!Reply(Analysis!Error)
    <3>1. missed' \subseteq Analysis!Manifests
      BY <2>1 DEF AnalysisInv, Analysis!TypeOK
    <3>2. QED
      BY <2>1, <2>3, <3>1, ErrorKeeps
  <2>4. QED
    BY <1>2, <2>2, <2>3 DEF Analysis!GetToken
<1> QED
  BY <1>1, <1>2, ListKeeps, PackageKeeps, RequirementsKeeps, PyprojectKeeps, PushKeeps
     DEF Analysis!Next

\* The client gives up what it was told; the next analysis begins afresh.
LEMMA DecideKeeps ==
  ASSUME Decide
  PROVE  AnalysisInv'
<1> USE BoundsAreNat
<1>1. /\ at' = "idle" /\ seen' = {} /\ read' = {} /\ deps' = {} /\ missed' = {}
      /\ answer' = Analysis!NoAnswer /\ pushes' = 0 /\ DOMAIN repo' = {}
  BY DEF Decide
<1>2. Analysis!TypeOK'
  BY <1>1 DEF Analysis!TypeOK, Analysis!Calls, Analysis!NoAnswer
<1>3. Analysis!ReadInv'
  BY <1>1 DEF Analysis!ReadInv, Analysis!Listed, Analysis!ReadSoFar,
     Analysis!AnswersWhatItRead, Analysis!InstallNamesListed, Analysis!Answered
<1> QED
  BY <1>2, <1>3 DEF AnalysisInv

\* The analysis depends on its own variables only, and so does the poll.
LEMMA AnalysisQuiet ==
  ASSUME AnalysisInv, UNCHANGED analysis
  PROVE  AnalysisInv'
<1>1. UNCHANGED <<repo, at, seen, read, deps, answer, missed, pushes>>
  BY DEF analysis
<1>2. Analysis!TypeOK'
  BY <1>1 DEF AnalysisInv, Analysis!TypeOK
<1>3. /\ Analysis!Masked' = Analysis!Masked
      /\ Analysis!Listed' /\ (pushes = 0 => Analysis!ReadSoFar')
  BY <1>1 DEF AnalysisInv, Analysis!ReadInv, Analysis!Masked, Analysis!Listed, Analysis!ReadSoFar
<1>4. Analysis!AnswersWhatItRead' /\ Analysis!InstallNamesListed'
  BY <1>1, <1>3 DEF AnalysisInv, Analysis!ReadInv, Analysis!AnswersWhatItRead,
     Analysis!InstallNamesListed, Analysis!Answered
<1> QED
  BY <1>1, <1>2, <1>3, <1>4 DEF AnalysisInv, Analysis!ReadInv

LEMMA StatusSame ==
  ASSUME StatusInv, UNCHANGED status
  PROVE  StatusInv'
<1>1. UNCHANGED <<time, project, save, late, newest, shown, poll>>
  BY DEF status, handlers
<1> QED
  BY <1>1, StatusQuiet DEF StatusInv, Status!TypeOK

-----------------------------------------------------------------------------
(* The creation                                                             *)

CreationType ==
  /\ phase \in {"choose", "analyse", "create", "poll"}
  /\ post \in {"none", "token", "webhook", "me", "save", "publish"}
  /\ attempts \in 0 .. MaxAttempts /\ webhook \in BOOLEAN /\ rows \in 0 .. attempts
  /\ created \in 0 .. 1 /\ adrift \in 0 .. attempts /\ broken \in 0 .. attempts

CreationOK == CreationType /\ CreationInv

LEMMA InvParts == IInv <=> AnalysisInv /\ StatusInv /\ CreationOK /\ PhaseInv
BY DEF IInv, TypeOK, AnalysisInv, StatusInv, CreationOK, CreationType

\* A request counts for one row at most, from its INSERT on.
LEMMA CreateKeeps ==
  ASSUME CreationOK, Create
  PROVE  CreationOK'
<1> USE BoundsAreNat DEF CreationOK, CreationType, CreationInv, RowsAccounted, Goto, Fail
<1>1. CASE Post
  BY <1>1 DEF Post
<1>2. CASE GetGitHubToken
  BY <1>2 DEF GetGitHubToken
<1>3. CASE CreateWebhook
  BY <1>3 DEF CreateWebhook
<1>4. CASE GetCurrentUser
  BY <1>4 DEF GetCurrentUser
<1>5. CASE Save
  BY <1>5 DEF Save, Outcome
<1>6. CASE Publish
  BY <1>6 DEF Publish, Outcome
<1>7. CASE GiveUp
  <2>1. CASE post = "publish"
    BY <1>7, <2>1 DEF GiveUp
  <2>2. CASE post # "publish"
    BY <1>7, <2>2 DEF GiveUp
  <2> QED BY <2>1, <2>2
<1>8. CASE GoOnUnseen
  <2>1. /\ adrift > 0 /\ adrift' = adrift - 1 /\ UNCHANGED <<phase, post, attempts, created>>
        /\ (rows' = rows + 1 /\ broken' = broken + 1) \/ UNCHANGED <<rows, broken>>
    BY <1>8 DEF GoOnUnseen
  <2>2. webhook' \in BOOLEAN
    BY <1>8, Zenon DEF GoOnUnseen
  <2>3. CASE rows' = rows + 1 /\ broken' = broken + 1
    BY <2>1, <2>2, <2>3
  <2>4. CASE UNCHANGED <<rows, broken>>
    BY <2>1, <2>2, <2>4
  <2> QED BY <2>1, <2>3, <2>4
<1>9. CASE Crash
  BY <1>9 DEF Crash
<1> QED
  BY <1>1, <1>2, <1>3, <1>4, <1>5, <1>6, <1>7, <1>8, <1>9 DEF Create

LEMMA CreateLeaves ==
  ASSUME Create
  PROVE  UNCHANGED <<analysis, status, phase>>
BY DEF Create, Post, GetGitHubToken, CreateWebhook, GetCurrentUser, Save, Publish,
       GiveUp, GoOnUnseen, Crash

\* The poll begins with the row as it was created.
LEMMA FollowKeeps ==
  ASSUME StatusInv, PhaseInv, Follow
  PROVE  StatusInv'
<1> USE BoundsAreNat
<1>1. /\ UNCHANGED <<time, project, save, late, newest, poll>> /\ phase = "create"
      /\ shown' = Status!Version1 \/ shown' = Status!Nothing
  BY DEF Follow, handlers
<1>2. project.version = 1 /\ project.stamp = 0 /\ poll = Status!Idle /\ shown.stamp <= newest
      /\ shown.stamp = 0
  BY <1>1 DEF PhaseInv, StatusInv, Status!StampInv, Status!Nothing
<1>3. PICK v \in 0 .. 1 : shown' = [version |-> v, stamp |-> 0, gone |-> FALSE]
  BY <1>1 DEF Status!Version1, Status!Nothing
<1>4. shown' \in [version : Status!Versions, stamp : Status!Time, gone : BOOLEAN]
  <2>1. v \in Status!Versions /\ 0 \in Status!Time
    BY DEF Status!Versions, Status!Time
  <2>2. QED
    BY <1>3, <2>1, RecordTypes
<1>5. Status!TypeOK'
  BY <1>1, <1>4 DEF StatusInv, Status!TypeOK
<1>6. shown'.version = v /\ shown'.stamp = 0
  BY <1>3
<1>7. Status!StampInv'
  BY <1>1, <1>2, <1>6 DEF StatusInv, Status!StampInv, Status!PromptUnlessLate, Status!Idle
<1> QED
  BY <1>5, <1>7 DEF StatusInv

-----------------------------------------------------------------------------
(* The invariant                                                            *)

LEMMA IInvInit == Init => IInv
<1> SUFFICES ASSUME Init PROVE IInv
  OBVIOUS
<1> USE BoundsAreNat
<1>1. AnalysisInv
  BY AnalysisInit DEF Init
<1>2. StatusInv
  BY StatusInit DEF Init
<1>3. CreationOK
  <2>1. /\ phase = "choose" /\ post = "none"
        /\ attempts = 0 /\ rows = 0 /\ created = 0 /\ adrift = 0 /\ broken = 0
    BY DEF Init
  <2>2. webhook \in BOOLEAN
    BY Zenon DEF Init
  <2>3. QED
    BY <2>1, <2>2 DEF CreationOK, CreationType, CreationInv, RowsAccounted
<1>4. PhaseInv
  BY DEF Init, PhaseInv, Status!Init
<1> QED
  BY <1>1, <1>2, <1>3, <1>4, InvParts

LEMMA IInvNext == IInv /\ [Next]_vars => IInv'
<1> SUFFICES ASSUME IInv, [Next]_vars PROVE IInv'
  OBVIOUS
<1>0. AnalysisInv /\ StatusInv /\ CreationOK /\ PhaseInv
  BY InvParts
<1> SUFFICES AnalysisInv' /\ StatusInv' /\ CreationOK' /\ PhaseInv'
  BY InvParts DEF IInv, TypeOK, AnalysisInv, StatusInv, CreationOK, CreationType
\* What only moves the client on, or is another's step.
<1>1. ASSUME UNCHANGED creation,
             \/ UNCHANGED phase
             \/ phase = "choose" /\ phase' = "analyse"
             \/ phase = "analyse" /\ phase' = "create"
             \/ phase = "create" /\ post = "none" /\ phase' = "poll"
      PROVE  CreationOK'
  BY <1>0, <1>1 DEF creation, CreationOK, CreationType, CreationInv, RowsAccounted
<1>2. ASSUME UNCHANGED status, phase # "poll"
      PROVE  PhaseInv'
  BY <1>0, <1>2 DEF PhaseInv, status, handlers
<1>3. CASE ListRepositories
  <2>1. UNCHANGED <<analysis, status, creation>> /\ phase = "choose" /\ phase' \in {"choose", "analyse"}
    BY <1>3 DEF ListRepositories
  <2>2. QED
    BY <1>0, <1>1, <1>2, <2>1, AnalysisQuiet, StatusSame
<1>4. CASE Analyse
  <2>1. UNCHANGED <<status, phase, creation>> /\ phase = "analyse" /\ Analysis!Next
    BY <1>4 DEF Analyse
  <2>2. QED
    BY <1>0, <1>1, <1>2, <2>1, AnalysisKeeps, StatusSame
<1>5. CASE Decide
  <2>1. UNCHANGED <<status, creation>> /\ phase = "analyse" /\ phase' = "create"
    BY <1>5 DEF Decide
  <2>2. QED
    BY <1>0, <1>1, <1>2, <1>5, <2>1, DecideKeeps, StatusSame
<1>6. CASE Create
  <2>1. UNCHANGED <<analysis, status, phase>>
    BY <1>6, CreateLeaves
  <2>2. PhaseInv'
    BY <1>0, <2>1 DEF PhaseInv, status, handlers
  <2>3. QED
    BY <1>0, <1>6, <2>1, <2>2, CreateKeeps, AnalysisQuiet, StatusSame
<1>7. CASE Follow
  <2>1. UNCHANGED <<analysis, creation>> /\ phase = "create" /\ post = "none" /\ phase' = "poll"
    BY <1>7 DEF Follow
  <2>2. PhaseInv'
    BY <2>1 DEF PhaseInv
  <2>3. QED
    BY <1>0, <1>1, <1>7, <2>1, <2>2, FollowKeeps, AnalysisQuiet
<1>8. CASE Poll \/ Handle
  <2>1. /\ UNCHANGED <<analysis, phase, creation>> /\ phase = "poll"
        /\ Status!Poll \/ Status!Handlers
    BY <1>8 DEF Poll, Handle
  <2>2. PhaseInv'
    BY <2>1 DEF PhaseInv
  <2>3. QED
    BY <1>0, <1>1, <2>1, <2>2, PollKeeps, HandlersKeep, AnalysisQuiet
<1>9. CASE UNCHANGED vars
  <2>1. UNCHANGED <<analysis, status, phase, creation>>
    BY <1>9 DEF vars
  <2>2. PhaseInv'
    BY <1>0, <2>1 DEF PhaseInv, status, handlers
  <2>3. QED
    BY <1>0, <1>1, <2>1, <2>2, AnalysisQuiet, StatusSame
<1> QED
  BY <1>3, <1>4, <1>5, <1>6, <1>7, <1>8, <1>9 DEF Next

(* The analysis, the creation and the poll keep what they rest on, however  *)
(* the client, a pusher and the handlers take turns.                        *)
THEOREM Invariance == Spec => []IInv
BY IInvInit, IInvNext, PTL DEF Spec

(* Each variable keeps its type.                                            *)
THEOREM TypeCorrect == Spec => []TypeOK
<1>1. IInv => TypeOK
  BY DEF IInv
<1> QED
  BY <1>1, Invariance, PTL

(* get_repository_config: without a push the answer is the one the files    *)
(* call for, those that could not be read taken as empty.                   *)
THEOREM AnalysisAnswers == Spec => []AnswersWhatItRead
<1>1. IInv => AnswersWhatItRead
  BY DEF IInv, Analysis!ReadInv, AnswersWhatItRead
<1> QED
  BY <1>1, Invariance, PTL

(* The install command goes by a listed file, whatever was pushed and       *)
(* whichever reads failed, but for a lone pyproject.toml that was not read. *)
THEOREM InstallListed == Spec => []InstallNamesListed
<1>1. IInv => InstallNamesListed
  BY DEF IInv, Analysis!ReadInv, InstallNamesListed
<1> QED
  BY <1>1, Invariance, PTL

(* CreateProjectInteractor: each row is one the client was told of, one     *)
(* whose request lost a call after the INSERT, was given up or died, or one *)
(* about to be announced; for any number of attempts.                       *)
THEOREM RowsAccountedFor == Spec => []RowsAccounted
<1>1. IInv => RowsAccounted
  BY DEF IInv, CreationInv
<1> QED
  BY <1>1, Invariance, PTL

(* poll_project_status sleeps over a newer version only if one the client   *)
(* does not know was stamped no later than one before it.                   *)
THEOREM PollIsPrompt == Spec => []PromptUnlessLate
<1>1. IInv => PromptUnlessLate
  BY DEF IInv, Status!StampInv, PromptUnlessLate
<1> QED
  BY <1>1, Invariance, PTL

(* What leaves the client without its 201 after the INSERT is a call to the *)
(* database or the broker, the client's own connection, or the end of the   *)
(* process.  Where none of these fails, however often the token, the user   *)
(* or the webhook could not be had and the request was sent again, a        *)
(* repository has one project at most, and a client that was told of none   *)
(* has none once its request has ended.                                     *)
THEOREM OneProjectAtMost ==
  ASSUME Failing \cap {"db", "kafka", "http", "crash"} = {}
  PROVE  Spec => [](rows <= 1 /\ (post # "publish" => rows = created))
<1>1. Init => broken = 0 /\ adrift = 0
  BY DEF Init
<1>2. broken = 0 /\ adrift = 0 /\ [Next]_vars => (broken = 0 /\ adrift = 0)'
  <2> SUFFICES ASSUME broken = 0, adrift = 0, [Next]_vars PROVE (broken = 0 /\ adrift = 0)'
    OBVIOUS
  <2>1. CASE Create
    <3>1. CASE Save \/ Publish
      BY <3>1 DEF Save, Publish, Outcome
    <3>2. ~GiveUp /\ ~GoOnUnseen /\ ~Crash
      BY DEF GiveUp, GoOnUnseen, Crash
    <3> QED
      BY <2>1, <3>1, <3>2 DEF Create, Post, GetGitHubToken, CreateWebhook, GetCurrentUser
  <2>2. CASE ~Create
    BY <2>2 DEF Next, vars, creation, ListRepositories, Analyse, Decide, Follow, Poll, Handle
  <2> QED BY <2>1, <2>2
<1>3. IInv /\ broken = 0 => rows <= 1 /\ (post # "publish" => rows = created)
  BY DEF IInv, TypeOK, CreationInv, RowsAccounted
<1> QED
  BY <1>1, <1>2, <1>3, Invariance, PTL DEF Spec
=============================================================================
