SPECIFICATION MirrorSpec
CONSTANTS
  editor = editor
  shell = shell
  Names = {"a", "b"}
  Seeded <- MCSeeded
  Refused = {"b"}
  Tracees = {editor, shell}
  Calls <- MCCalls
  Versions = 4
INVARIANTS CommandsSeeTheEdits LetThroughWhole InStep
PROPERTIES KeepsEdits
CHECK_DEADLOCK FALSE
