------------------------------ MODULE StatusPoll ------------------------------
(***************************************************************************)
(* project-service: GET /projects/{id}/status/poll, the long poll by which *)
(* a client follows a project, beside the handlers that update its row.    *)
(* A handler loads the row, which starts its transaction, and commits      *)
(* later.  updated_at is what its mark_* methods read from Python's clock, *)
(* or else the start of the transaction (onupdate=func.now()): either may  *)
(* be older than what another handler committed since the row was loaded.  *)
(***************************************************************************)
EXTENDS Naturals

CONSTANTS
  Writers,    \* sessions of handlers that may be open at a time
  MaxVersion, \* bound: committed versions of the row
  MaxTime,    \* bound of the clock
  MaxRounds   \* bound: timeout / poll_interval

VARIABLES
  time,    \* the clock of the handlers and of PostgreSQL
  project, \* the row: the number of its version, its updated_at, or deleted
  save,    \* save[w]: the session of handler w, with the updated_at it sets
  shown,   \* what the client knows: a version and its updated_at
  poll,    \* the request: what it last read and the rounds it has left
  late,    \* history: versions not stamped later than all before them
  newest   \* history: the latest updated_at of all versions

writerVars == <<time, project, save, late, newest>>
pollVars == <<shown, poll>>
vars == <<writerVars, pollVars>>

Versions == 0 .. MaxVersion
Time == 0 .. MaxTime

TypeOK ==
  /\ time \in Time
  /\ project \in [version : Versions, stamp : Time, there : BOOLEAN]
  /\ save \in [Writers -> [open : BOOLEAN, stamp : Time]]
  /\ shown \in [version : Versions, stamp : Time, gone : BOOLEAN]
  /\ poll \in [at : {"idle", "look", "sleep", "final"}, rounds : 0 .. MaxRounds, last : Versions]
  /\ late \subseteq Versions /\ newest \in Time

Idle == [at |-> "idle", rounds |-> 0, last |-> 0]
Nothing == [version |-> 0, stamp |-> 0, gone |-> FALSE]
Version1 == [Nothing EXCEPT !.version = 1]

\* The client knows the project as it was created, or only that there is one.
Init ==
  /\ time = 0
  /\ project = [version |-> 1, stamp |-> 0, there |-> TRUE]
  /\ save = [w \in Writers |-> [open |-> FALSE, stamp |-> 0]]
  /\ shown \in {Nothing, Version1}
  /\ poll = Idle
  /\ late = {} /\ newest = 0

-----------------------------------------------------------------------------
(* The handlers                                                             *)

\* get_by_id: without a row the handler returns.
Load(w) ==
  /\ ~save[w].open /\ project.there
  /\ save' = [save EXCEPT ![w] = [open |-> TRUE, stamp |-> time]]
  /\ UNCHANGED <<time, project, pollVars, late, newest>>

\* A mark_* method.
Mark(w) ==
  /\ save[w].open /\ save[w].stamp # time
  /\ save' = [save EXCEPT ![w].stamp = time]
  /\ UNCHANGED <<time, project, pollVars, late, newest>>

\* save or update; the UPDATE of a row that is gone is an error.
Commit(w) ==
  /\ save[w].open
  /\ project.there => project.version < MaxVersion
  /\ save' = [save EXCEPT ![w].open = FALSE, ![w].stamp = 0]
  /\ IF project.there
     THEN /\ project' = [project EXCEPT !.version = @ + 1, !.stamp = save[w].stamp]
          /\ late' = IF save[w].stamp > newest THEN late ELSE late \cup {project.version + 1}
          /\ newest' = IF save[w].stamp > newest THEN save[w].stamp ELSE newest
     ELSE UNCHANGED <<project, late, newest>>
  /\ UNCHANGED <<time, pollVars>>

\* The handler had nothing to change, or the commit failed.
Abandon(w) ==
  /\ save[w].open
  /\ save' = [save EXCEPT ![w].open = FALSE, ![w].stamp = 0]
  /\ UNCHANGED <<time, project, pollVars, late, newest>>

\* DELETE /projects/{id}.
Remove ==
  /\ project.there
  /\ project' = [project EXCEPT !.there = FALSE]
  /\ UNCHANGED <<time, save, pollVars, late, newest>>

Tick ==
  /\ time < MaxTime
  /\ time' = time + 1
  /\ UNCHANGED <<project, save, pollVars, late, newest>>

-----------------------------------------------------------------------------
(* The poll                                                                 *)

\* GET /status: the row as it is.
GetStatus ==
  /\ poll.at = "idle" /\ ~shown.gone
  /\ poll' = [at |-> "final", rounds |-> 0, last |-> shown.version]
  /\ UNCHANGED <<writerVars, shown>>

\* The client asks with the updated_at it was last given, if any; 404 ends it.
\* A timeout of 0 or less leaves no round.
Ask ==
  /\ poll.at = "idle" /\ ~shown.gone
  /\ \E n \in 0 .. MaxRounds :
       poll' = [at |-> IF n = 0 THEN "final" ELSE "look", rounds |-> n, last |-> shown.version]
  /\ UNCHANGED <<writerVars, shown>>

\* last_updated_at is None, or the row's updated_at is later.
Newer == shown.version = 0 \/ project.stamp > shown.stamp

Respond ==
  /\ shown' = [version |-> project.version, stamp |-> project.stamp, gone |-> FALSE]
  /\ poll' = Idle

NotFound == shown' = [shown EXCEPT !.gone = TRUE] /\ poll' = Idle

\* Mutant of Look: the answer carries the time it was given at.
LookStampsNow ==
  /\ poll.at = "look"
  /\ IF ~project.there THEN NotFound
     ELSE IF Newer
     THEN shown' = [version |-> project.version, stamp |-> time, gone |-> FALSE] /\ poll' = Idle
     ELSE poll' = [poll EXCEPT !.at = "sleep", !.last = project.version] /\ UNCHANGED shown
  /\ UNCHANGED writerVars

Look ==
  /\ poll.at = "look"
  /\ IF ~project.there THEN NotFound
     ELSE IF Newer THEN Respond
     ELSE poll' = [poll EXCEPT !.at = "sleep", !.last = project.version] /\ UNCHANGED shown
  /\ UNCHANGED writerVars

\* Mutant of Wake: elapsed is not compared with the timeout.
WakeAlways ==
  /\ poll.at = "sleep"
  /\ poll' = [poll EXCEPT !.rounds = @ - 1, !.at = "look"]
  /\ UNCHANGED <<writerVars, shown>>

\* asyncio.sleep(poll_interval).
Wake ==
  /\ poll.at = "sleep"
  /\ poll' = [poll EXCEPT !.rounds = @ - 1, !.at = IF poll.rounds = 1 THEN "final" ELSE "look"]
  /\ UNCHANGED <<writerVars, shown>>

\* Mutant of LookLast: out of time, the client is told that nothing changed.
LookLastUnchanged ==
  /\ poll.at = "final"
  /\ IF ~project.there THEN NotFound
     ELSE IF Newer THEN Respond
     ELSE poll' = Idle /\ UNCHANGED shown
  /\ UNCHANGED writerVars

\* After the loop the answer is given whatever the row says.
LookLast ==
  /\ poll.at = "final"
  /\ IF project.there THEN Respond ELSE NotFound
  /\ UNCHANGED writerVars

Poll == GetStatus \/ Ask \/ Look \/ Wake \/ LookLast

Handlers == (\E w \in Writers : Load(w) \/ Mark(w) \/ Commit(w) \/ Abandon(w)) \/ Remove \/ Tick

Next == Poll \/ Handlers

Spec == Init /\ [][Next]_vars

\* The server works on a request, and the client asks again when it is
\* answered.
FairSpec == Spec /\ WF_vars(Poll)

-----------------------------------------------------------------------------
Behind == IF project.there THEN shown.version # project.version ELSE ~shown.gone

(* A poll goes on sleeping over a newer version than the client knows only  *)
(* if a handler committed a stamp that is not later than all before it.     *)
PromptUnlessLate ==
  poll.at \in {"sleep", "final"} /\ poll.last > shown.version =>
    \E v \in late : shown.version < v /\ v <= poll.last

(* What PromptUnlessLate rests on: updated_at decides right between the     *)
(* client's version and the row's, unless one in between came late.         *)
StampInv ==
  /\ shown.stamp <= newest /\ project.stamp <= newest
  /\ shown.version <= project.version /\ poll.last <= project.version
  /\ poll.at \in {"look", "sleep"} => poll.rounds > 0
  /\ shown.version > 0 /\ project.version > shown.version =>
       \/ project.stamp > shown.stamp
       \/ \E v \in late : shown.version < v /\ v <= project.version
  /\ PromptUnlessLate

(* Once the handlers stop, the client that keeps polling knows the last     *)
(* version, or that the project is gone, whatever the stamps are.           *)
CatchesUp == []<>(~Behind) \/ []<><<Handlers>>_writerVars
=============================================================================
