SPECIFICATION Spec
CONSTANTS
  Handlers = {h1}
  Detect = detect
  Nobody = nobody
INVARIANTS
  RequestsAreAnswered
