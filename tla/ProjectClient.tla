---------------------------- MODULE ProjectClient ----------------------------
(***************************************************************************)
(* A client that adds a repository as a project: it has the repository     *)
(* analysed (RepositoryAnalysis), posts the project, again if that fails,  *)
(* and then follows its status (StatusPoll).  The two run one after the    *)
(* other; POST /projects, up to its answer, is modelled here, and what     *)
(* becomes of the project then in ProjectService.                          *)
(***************************************************************************)
EXTENDS Naturals

CONSTANTS
  Files, Packages, Libraries, MaxPushes, Writers, MaxVersion, MaxTime, MaxRounds,
  MaxAttempts, \* bound: POST /projects the client sends
  Failing      \* "auth", "github", "db", "kafka": the services whose calls may
               \* fail; "http": the client may give up waiting for an answer;
               \* "crash": the process may end

ASSUME BoundsAreNat ==
  /\ MaxPushes \in Nat /\ MaxTime \in Nat /\ MaxRounds \in Nat /\ MaxAttempts \in Nat
  /\ MaxVersion \in Nat \ {0}

VARIABLES
  repo, at, seen, read, deps, answer, missed, pushes,
  time, project, save, shown, poll, late, newest,
  phase,    \* what the client is doing
  post,     \* the call CreateProjectInteractor makes next
  attempts, \* requests sent
  webhook,  \* the repository has the webhook of this service
  rows,     \* projects stored for the repository
  created,  \* 201 answers the client was given
  adrift,   \* requests given up by the client that have not inserted yet
  broken    \* history: rows inserted by requests whose 201 the client never got

Analysis == INSTANCE RepositoryAnalysis WITH
  Files <- Files, Packages <- Packages, Libraries <- Libraries, MaxPushes <- MaxPushes,
  Failing <- Failing, repo <- repo, at <- at, seen <- seen, read <- read, deps <- deps,
  answer <- answer, missed <- missed, pushes <- pushes
Status == INSTANCE StatusPoll WITH
  Writers <- Writers, MaxVersion <- MaxVersion, MaxTime <- MaxTime, MaxRounds <- MaxRounds,
  time <- time, project <- project, save <- save, shown <- shown, poll <- poll,
  late <- late, newest <- newest

analysis == <<repo, at, seen, read, deps, answer, missed, pushes>>
handlers == <<time, project, save, late, newest>>
status == <<handlers, shown, poll>>
creation == <<post, attempts, webhook, rows, created, adrift, broken>>
vars == <<analysis, status, phase, creation>>

TypeOK ==
  /\ Analysis!TypeOK /\ Status!TypeOK
  /\ phase \in {"choose", "analyse", "create", "poll"}
  /\ post \in {"none", "token", "webhook", "me", "save", "publish"}
  /\ attempts \in 0 .. MaxAttempts /\ webhook \in BOOLEAN /\ rows \in 0 .. attempts
  /\ created \in 0 .. 1 /\ adrift \in 0 .. attempts /\ broken \in 0 .. attempts

Init ==
  /\ Analysis!Init /\ Status!Init /\ shown = Status!Nothing
  /\ phase = "choose" /\ post = "none"
  /\ attempts = 0 /\ webhook = FALSE /\ rows = 0 /\ created = 0
  /\ adrift = 0 /\ broken = 0

\* "ok", "err" without effect, or "lost": with effect, the reply missing.
Outcome(call) == {"ok"} \cup (IF call \in Failing THEN {"err", "lost"} ELSE {})

\* GET /repositories: the token, then the list; an error of either is a 500.
ListRepositories ==
  /\ phase = "choose"
  /\ phase' = "analyse" \/ (Failing \cap {"auth", "github"} # {} /\ UNCHANGED phase)
  /\ UNCHANGED <<analysis, status, creation>>

Analyse ==
  /\ phase = "analyse" /\ Analysis!Next
  /\ UNCHANGED <<status, phase, creation>>

\* The client takes over what it was told, or fills it in by hand.
Decide ==
  /\ phase = "analyse" /\ at = "answered"
  /\ phase' = "create"
  /\ repo' = [f \in {} |-> Analysis!Form("blank")]
  /\ at' = "idle" /\ seen' = {} /\ read' = {} /\ deps' = {} /\ missed' = {}
  /\ answer' = Analysis!NoAnswer /\ pushes' = 0
  /\ UNCHANGED <<status, creation>>

-----------------------------------------------------------------------------
(* POST /projects: CreateProjectInteractor                                  *)

Goto(call) == post' = call
Fail == post' = "none"

Post ==
  /\ phase = "create" /\ post = "none"
  /\ created = 0 /\ attempts < MaxAttempts
  /\ attempts' = attempts + 1
  /\ Goto("token")
  /\ UNCHANGED <<analysis, status, phase, webhook, rows, created, adrift, broken>>

GetGitHubToken ==
  /\ post = "token"
  /\ Goto("webhook") \/ ("auth" \in Failing /\ Fail)
  /\ UNCHANGED <<analysis, status, phase, attempts, webhook, rows, created, adrift, broken>>

\* With a local address, without the right to, and after any error there is
\* none, and the request goes on.  A webhook that was made is not remembered
\* either: the DTO's fields are not called what line 55 reads, and `except`
\* takes that.  Nothing removes it when the request fails later.
CreateWebhook ==
  /\ post = "webhook"
  /\ webhook' \in {webhook, TRUE}
  /\ Goto("me")
  /\ UNCHANGED <<analysis, status, phase, attempts, rows, created, adrift, broken>>

\* Mutant of GetCurrentUser: the row is inserted before the owner is known.
GetCurrentUserLate ==
  /\ post = "me"
  /\ rows' = rows + 1
  /\ Goto("publish") \/ ("auth" \in Failing /\ Fail)
  /\ UNCHANGED <<analysis, status, phase, attempts, webhook, created, adrift, broken>>

GetCurrentUser ==
  /\ post = "me"
  /\ Goto("save") \/ ("auth" \in Failing /\ Fail)
  /\ UNCHANGED <<analysis, status, phase, attempts, webhook, rows, created, adrift, broken>>

Save ==
  /\ post = "save"
  /\ \E o \in Outcome("db") :
       /\ rows' = IF o = "err" THEN rows ELSE rows + 1
       /\ broken' = IF o = "lost" THEN broken + 1 ELSE broken
       /\ IF o = "ok" THEN Goto("publish") ELSE Fail
  /\ UNCHANGED <<analysis, status, phase, attempts, webhook, created, adrift>>

\* project.created_with_secrets or project.created; then 201.
Publish ==
  /\ post = "publish"
  /\ \E o \in Outcome("kafka") :
       /\ broken' = IF o = "ok" THEN broken ELSE broken + 1
       /\ created' = IF o = "ok" THEN created + 1 ELSE created
  /\ post' = "none"
  /\ UNCHANGED <<analysis, status, phase, attempts, webhook, rows, adrift>>

\* The client gives up, or its connection breaks.  The request goes on unseen:
\* it is stored already, or will be unless a call before its INSERT fails.
GiveUp ==
  /\ "http" \in Failing /\ post # "none"
  /\ Fail
  /\ IF post = "publish" THEN broken' = broken + 1 /\ UNCHANGED adrift
                         ELSE adrift' = adrift + 1 /\ UNCHANGED broken
  /\ UNCHANGED <<analysis, status, phase, attempts, webhook, rows, created>>

GoOnUnseen ==
  /\ adrift > 0 /\ adrift' = adrift - 1
  /\ webhook' \in {webhook, TRUE}
  /\ \/ rows' = rows + 1 /\ broken' = broken + 1
     \/ Failing \cap {"auth", "db"} # {} /\ UNCHANGED <<rows, broken>>
  /\ UNCHANGED <<analysis, status, phase, post, attempts, created>>

\* The process ends, and with it the requests.
Crash ==
  /\ "crash" \in Failing /\ (post # "none" \/ adrift > 0)
  /\ Fail /\ adrift' = 0
  /\ broken' = IF post = "publish" THEN broken + 1 ELSE broken
  /\ UNCHANGED <<analysis, status, phase, attempts, webhook, rows, created>>

\* The client follows the project it was told of, or one that GET /projects
\* lists: every row of the owner.
Follow ==
  /\ phase = "create" /\ post = "none" /\ rows > 0
  /\ phase' = "poll"
  /\ shown' = IF created = 1 THEN Status!Version1 ELSE Status!Nothing
  /\ UNCHANGED <<analysis, handlers, poll, creation>>

-----------------------------------------------------------------------------
Poll == phase = "poll" /\ Status!Poll /\ UNCHANGED <<analysis, phase, creation>>
Handle == phase = "poll" /\ Status!Handlers /\ UNCHANGED <<analysis, phase, creation>>

Create ==
  \/ Post \/ GetGitHubToken \/ CreateWebhook \/ GetCurrentUser \/ Save \/ Publish
  \/ GiveUp \/ GoOnUnseen \/ Crash

Next == ListRepositories \/ Analyse \/ Decide \/ Create \/ Follow \/ Poll \/ Handle

Spec == Init /\ [][Next]_vars

\* As in StatusPoll: the server works on a poll, and the client polls on.
FairSpec == Spec /\ WF_vars(Poll)

-----------------------------------------------------------------------------
(* Analysis: the answer is the one the repository calls for, files that     *)
(* could not be read taken as empty.                                        *)
AnswersWhatItRead == Analysis!AnswersWhatItRead

(* Analysis: an install command goes by a file that was listed, whatever    *)
(* was pushed meanwhile.                                                    *)
InstallNamesListed == Analysis!InstallNamesListed

(* Every stored project is one the client was told of, or one of a request  *)
(* that lost a call from the INSERT on, was given up by the client or died  *)
(* with the process: a request that fails before leaves no row, however     *)
(* often it is sent again.                                                  *)
RowsAccounted ==
  rows = created + broken + (IF post = "publish" THEN 1 ELSE 0)

(* Poll: it sleeps over a newer version only after a stamp that is not      *)
(* later than all before it.                                                *)
PromptUnlessLate == Status!PromptUnlessLate

(* Poll: once the handlers stop, the client gets to know the last version.  *)
CatchesUp == <>(phase = "poll") => Status!CatchesUp

-----------------------------------------------------------------------------
\* A request has stored nothing before its INSERT, and only one was answered.
CreationInv ==
  /\ RowsAccounted
  /\ rows + adrift + (IF post \in {"token", "webhook", "me", "save"} THEN 1 ELSE 0)
       <= attempts
  /\ post # "none" => phase = "create" /\ created = 0

\* The poll begins with the project as it was created.
PhaseInv ==
  phase # "poll" =>
    /\ project.version = 1 /\ project.stamp = 0
    /\ shown = Status!Nothing /\ poll = Status!Idle

(* What the analysis, the creation and the poll maintain.                   *)
IInv ==
  /\ TypeOK
  /\ Analysis!ReadInv
  /\ Status!StampInv
  /\ CreationInv
  /\ PhaseInv
=============================================================================
