SPECIFICATION MirrorSpec
CONSTANTS
  editor = editor
  shell = shell
  Names = {"a", "b"}
  Seeded <- MCSeeded
  Refused = {}
  Tracees = {editor}
  Calls <- MCCalls
  Versions = 4
PROPERTIES KeepsEveryEdit
CHECK_DEADLOCK FALSE
