\* A client analyses a repository while somebody pushes, posts the project up
\* to twice, and polls its status beside two handlers; any call may fail, the
\* client may give up and the process may end.
SPECIFICATION FairSpec
CONSTANTS
  w1 = w1
  w2 = w2
  Writers = {w1, w2}
  Files = {"package.json", "requirements.txt", "pyproject.toml", "manage.py", "main.py", "go.mod"}
  Packages = {"vite", "react", "next"}
  Libraries = {"django", "fastapi"}
  MaxPushes = 1
  MaxVersion = 3
  MaxTime = 2
  MaxRounds = 2
  MaxAttempts = 2
  Failing = {"auth", "github", "db", "kafka", "http", "crash"}
INVARIANTS IInv AnswersWhatItRead InstallNamesListed RowsAccounted PromptUnlessLate
PROPERTIES CatchesUp
CHECK_DEADLOCK FALSE
