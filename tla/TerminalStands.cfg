SPECIFICATION Spec
CONSTANTS
  Host = {h1, h2}
  Execution = {e1, e2}
  Nil = Nil
  MaxBegins = 2
  MaxFaults = 1
  Script <- OneEdit
  Deliverer = {d1}
PROPERTIES
  TerminalStands
