-------------------------- MODULE RepositoryAnalysis --------------------------
(***************************************************************************)
(* project-service: GET /repositories/{owner}/{repo}/config, which guesses *)
(* from the files of a GitHub repository how its project is built.  The    *)
(* repository is listed once; package.json, requirements.txt and           *)
(* pyproject.toml are then read one by one, each with a call of its own    *)
(* that may fail, while somebody may push.  The build and start commands   *)
(* follow from the framework and the files shown, and are left out.        *)
(***************************************************************************)
EXTENDS Naturals, Sequences, FiniteSets

CONSTANTS
  Files,     \* names of files that may be in the repository
  Packages,  \* npm packages that package.json may name
  Libraries, \* Python libraries that the other two files may name
  MaxPushes, \* bound: pushes while a request is under way
  Failing    \* "auth", "github": the services whose calls may fail

VARIABLES
  repo,   \* the branch: a function from its files to what they hold
  at,     \* the call the request makes next
  seen,   \* the files that were listed
  read,   \* of these, the ones whose content was read
  deps,   \* `dependencies`: libraries found so far
  answer, \* the RepositoryConfigDTO, or the error
  missed, \* history: files that could not be read though they are there
  pushes  \* history: pushes since the request began

vars == <<repo, at, seen, read, deps, answer, missed, pushes>>

Manifests == {"package.json", "requirements.txt", "pyproject.toml"}

\* What a file holds.  Text: what it names, among the names the rules know
\* and in the form the code recognises: a line `fastapi[all]` names nothing.
\* blank: empty, too large or not UTF-8.  broken: not JSON.  odd: JSON of
\* another shape than a package.json has.
Text(names) == [form |-> "text", names |-> names]
Form(form) == [form |-> form, names |-> {}]

Contents(f) ==
  CASE f = "package.json" -> {Text(n) : n \in SUBSET Packages}
                               \cup {Form("blank"), Form("broken"), Form("odd")}
    [] f \in {"requirements.txt", "pyproject.toml"} ->
         {Text(n) : n \in SUBSET Libraries} \cup {Form("blank")}
    [] OTHER -> {Form("blank")}

Named(r, f) == IF f \in DOMAIN r THEN r[f].names ELSE {}

-----------------------------------------------------------------------------
(* The rules                                                                *)

\* With the names in `needs` and the files in `listed`; the first file of
\* `shows` there is goes to detected_files.
Rule(needs, listed, framework, confidence, shows) ==
  [needs |-> needs, listed |-> listed, framework |-> framework,
   confidence |-> confidence, shows |-> shows]

NodeRules ==
  LET node(needs, framework, confidence, shows) ==
        Rule(needs, {}, framework, confidence, shows)
      vite == <<"vite.config.js", "vite.config.ts">>
  IN
  << node({"next"}, "Next.js", "high", <<"next.config.js", "next.config.mjs">>),
     node({"vite", "react"}, "React (Vite)", "high", vite),
     node({"vite", "vue"}, "Vue (Vite)", "high", vite),
     node({"vite", "svelte"}, "Svelte (Vite)", "high", vite),
     node({"vite"}, "Vite", "high", vite),
     node({"react-scripts"}, "React (CRA)", "high", <<>>),
     node({"react"}, "React", "medium", <<>>),
     node({"@angular/core"}, "Angular", "high", <<"angular.json">>),
     node({"vue"}, "Vue.js", "high", <<"vue.config.js">>),
     node({"@nestjs/core"}, "NestJS", "high", <<>>),
     node({"express"}, "Express", "high", <<>>),
     node({}, "Node.js", "medium", <<>>) >>

PythonRules ==
  << Rule({"fastapi"}, {}, "FastAPI", "high", <<"main.py", "app.py">>),
     Rule({"django"}, {}, "Django", "high", <<"manage.py">>),
     Rule({"flask"}, {}, "Flask", "high", <<"app.py", "wsgi.py">>),
     Rule({}, {"manage.py"}, "Django", "medium", <<"manage.py">>),
     Rule({}, {}, "Python", "medium", <<>>) >>

MarkerRules ==
  LET marker(file, framework) == Rule({}, {file}, framework, "high", <<file>>) IN
  << marker("go.mod", "Go"), marker("Cargo.toml", "Rust"), marker("pom.xml", "Java (Maven)"),
     marker("build.gradle.kts", "Java (Gradle)"), marker("build.gradle", "Java (Gradle)"),
     Rule({}, {}, "Unknown", "low", <<>>) >>

First(rules, names, listing) ==
  LET holds == {i \in DOMAIN rules :
                  rules[i].needs \subseteq names /\ rules[i].listed \subseteq listing}
  IN rules[CHOOSE i \in holds : \A j \in holds : i <= j]

Shown(shows, listing) ==
  LET there == {i \in DOMAIN shows : shows[i] \in listing} IN
  {shows[i] : i \in {k \in there : \A j \in there : k <= j}}

Config(rule, install, detected, listing) ==
  [framework |-> rule.framework, confidence |-> rule.confidence,
   install |-> install, detected |-> detected \cup Shown(rule.shows, listing)]

\* The file an install command goes by; "none" without a command.
MarkerConfig(listing) ==
  LET rule == First(MarkerRules, {}, listing) IN
  Config(rule, IF rule.listed = {} THEN "none" ELSE CHOOSE f \in rule.listed : TRUE,
         {}, listing)

NodeConfig(names, listing) ==
  Config(First(NodeRules, names, listing), "package.json", {"package.json"}, listing)

\* Mutant of PythonConfig: requirements.txt is what is installed, always.
PythonConfigListed(names, listing, got) ==
  Config(First(PythonRules, names, listing), "requirements.txt", got, listing)

\* got: of requirements.txt and pyproject.toml, the ones that were read.
PythonConfig(names, listing, got) ==
  Config(First(PythonRules, names, listing),
         IF "pyproject.toml" \in got /\ "requirements.txt" \notin listing
         THEN "pyproject.toml" ELSE "requirements.txt",
         got, listing)

NoAnswer == [framework |-> "none", confidence |-> "none", install |-> "none", detected |-> {}]
Error == [NoAnswer EXCEPT !.confidence = "error"]

-----------------------------------------------------------------------------
Calls == {"idle", "token", "list", "package", "requirements", "pyproject", "answered"}

TypeOK ==
  /\ DOMAIN repo \subseteq Files /\ \A f \in DOMAIN repo : repo[f] \in Contents(f)
  /\ at \in Calls
  /\ seen \subseteq Files /\ read \subseteq Manifests \cap seen
  /\ deps \subseteq Libraries
  /\ answer.confidence \in {"none", "error", "high", "medium", "low"}
  /\ answer.detected \subseteq Files
  /\ missed \subseteq Manifests /\ pushes \in 0 .. MaxPushes

Init ==
  /\ \E listing \in SUBSET Files, package \in Contents("package.json"),
        requirements \in Contents("requirements.txt"),
        pyproject \in Contents("pyproject.toml") :
       repo = [f \in listing |->
                 CASE f = "package.json" -> package
                   [] f = "requirements.txt" -> requirements
                   [] f = "pyproject.toml" -> pyproject
                   [] OTHER -> Form("blank")]
  /\ at = "idle" /\ seen = {} /\ read = {} /\ deps = {} /\ answer = NoAnswer
  /\ missed = {} /\ pushes = 0

Reply(config) == at' = "answered" /\ answer' = config
Goto(call) == at' = call /\ UNCHANGED answer

\* get_file_content: whatever goes wrong, the file counts as empty.
Read(f) ==
  (IF f \in DOMAIN repo THEN {repo[f]} ELSE {Form("blank")})
    \cup (IF "github" \in Failing THEN {Form("missing")} ELSE {})

Note(f, content) == missed' = IF content.form = "missing" THEN missed \cup {f} ELSE missed

Ask == at = "idle" /\ Goto("token") /\ UNCHANGED <<repo, seen, read, deps, missed, pushes>>

GetToken ==
  /\ at = "token"
  /\ Goto("list") \/ ("auth" \in Failing /\ Reply(Error))
  /\ UNCHANGED <<repo, seen, read, deps, missed, pushes>>

\* Where the analysis goes on when package.json settles nothing.
Fallback(listing) ==
  IF "requirements.txt" \in listing THEN Goto("requirements")
  ELSE IF "pyproject.toml" \in listing THEN Goto("pyproject")
  ELSE Reply(MarkerConfig(listing))

GetRepoContents ==
  /\ at = "list"
  /\ \/ /\ seen' = DOMAIN repo
        /\ IF "package.json" \in DOMAIN repo THEN Goto("package") ELSE Fallback(DOMAIN repo)
     \/ "github" \in Failing /\ Reply(Error) /\ UNCHANGED seen
  /\ UNCHANGED <<repo, read, deps, missed, pushes>>

\* Mutant of ReadPackage: a package.json that cannot be read is an empty one.
ReadPackageAnyway ==
  /\ at = "package"
  /\ \E c \in Read("package.json") :
       /\ Note("package.json", c)
       /\ Reply(NodeConfig(c.names, seen))
  /\ UNCHANGED <<repo, seen, read, deps, pushes>>

ReadPackage ==
  /\ at = "package"
  /\ \E c \in Read("package.json") :
       /\ Note("package.json", c)
       /\ CASE c.form = "text" -> Reply(NodeConfig(c.names, seen))
            [] c.form = "odd" -> Reply(Error)
            [] OTHER -> Fallback(seen)
       /\ read' = IF c.form = "text" THEN {"package.json"} ELSE {}
  /\ UNCHANGED <<repo, seen, deps, pushes>>

ReadRequirements ==
  /\ at = "requirements"
  /\ \E c \in Read("requirements.txt") :
       LET got == IF c.form = "text" THEN {"requirements.txt"} ELSE {} IN
       /\ Note("requirements.txt", c)
       /\ read' = got
       /\ deps' = c.names
       /\ IF "pyproject.toml" \in seen THEN Goto("pyproject")
          ELSE Reply(PythonConfig(c.names, seen, got))
  /\ UNCHANGED <<repo, seen, pushes>>

ReadPyproject ==
  /\ at = "pyproject"
  /\ \E c \in Read("pyproject.toml") :
       LET got == IF c.form = "text" THEN read \cup {"pyproject.toml"} ELSE read IN
       /\ Note("pyproject.toml", c)
       /\ read' = got
       /\ deps' = deps \cup c.names
       /\ Reply(PythonConfig(deps \cup c.names, seen, got))
  /\ UNCHANGED <<repo, seen, pushes>>

\* Somebody pushes: one file is removed, added or changed.
Push ==
  /\ at \notin {"idle", "answered"} /\ pushes < MaxPushes
  /\ \E f \in Files :
       \/ f \in DOMAIN repo /\ repo' = [g \in DOMAIN repo \ {f} |-> repo[g]]
       \/ \E c \in Contents(f) :
            repo' = [g \in DOMAIN repo \cup {f} |-> IF g = f THEN c ELSE repo[g]]
  /\ pushes' = pushes + 1
  /\ UNCHANGED <<at, seen, read, deps, answer, missed>>

Next ==
  \/ Ask \/ GetToken \/ GetRepoContents
  \/ ReadPackage \/ ReadRequirements \/ ReadPyproject
  \/ Push

Spec == Init /\ [][Next]_vars

-----------------------------------------------------------------------------
\* package.json decides when it is a JSON object, or no package.json at all.
Decides(r) == "package.json" \in DOMAIN r /\ r["package.json"].form \in {"text", "odd"}

Python == {"requirements.txt", "pyproject.toml"}
Texts(r) == {f \in Python \cap DOMAIN r : r[f].form = "text"}

\* What the repository calls for, by its files alone: a package.json that
\* can be parsed comes first, then the Python files, then the others.
Reference(r) ==
  LET listing == DOMAIN r IN
  CASE Decides(r) /\ r["package.json"].form = "odd" -> Error
    [] Decides(r) /\ r["package.json"].form = "text" ->
         NodeConfig(r["package.json"].names, listing)
    [] ~Decides(r) /\ Python \cap listing # {} ->
         PythonConfig(UNION {Named(r, f) : f \in Python}, listing, Texts(r))
    [] ~Decides(r) /\ Python \cap listing = {} -> MarkerConfig(listing)

\* The repository as it could be read.
Masked == [f \in DOMAIN repo |-> IF f \in missed THEN Form("blank") ELSE repo[f]]

Answered == at = "answered" /\ answer # Error

(* Without a push the answer is the one the repository calls for, if the    *)
(* files that could not be read are taken as empty: a failing call is not   *)
(* reported, but it changes nothing else.                                   *)
AnswersWhatItRead ==
  Answered /\ pushes = 0 => answer = Reference(Masked)

(* The install command goes by a file that was listed, however pushes and   *)
(* failing calls mixed what was read; unless pyproject.toml was the only    *)
(* Python file and could not be read.                                       *)
InstallNamesListed ==
  Answered /\ answer.install # "none" =>
    \/ answer.install \in seen
    \/ "pyproject.toml" \in seen \ read

-----------------------------------------------------------------------------
\* While nobody pushed: what is known is what the files before this call say.
ReadSoFar ==
  /\ at \in {"package", "requirements", "pyproject"} => seen = DOMAIN repo
  /\ at \in {"requirements", "pyproject"} => ~Decides(Masked)
  /\ at = "requirements" => missed \subseteq {"package.json"}
  /\ at = "pyproject" => /\ missed \subseteq {"package.json", "requirements.txt"}
                         /\ read = Texts(Masked) \cap {"requirements.txt"}
                         /\ deps = Named(Masked, "requirements.txt")

\* A file is read because it was listed, and nothing before the list.
Listed ==
  /\ at \in {"idle", "token", "list", "package"} => missed = {} /\ read = {} /\ deps = {}
  /\ at = "package" => "package.json" \in seen
  /\ at = "requirements" => "requirements.txt" \in seen
  /\ at = "pyproject" => "pyproject.toml" \in seen

(* The answer follows from what the calls returned one by one.              *)
ReadInv ==
  /\ Listed
  /\ pushes = 0 => ReadSoFar
  /\ AnswersWhatItRead
  /\ InstallNamesListed
=============================================================================
