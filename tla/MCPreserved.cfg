\* A shutdown, or a kill, between two keys: whoever recovers takes the half-written
\* settings for a change made by the user.
SPECIFICATION Spec
CONSTANTS
  Endpoints = {local}
  Urls = {pac}
  None = None
INVARIANTS PreservedIsTheUsers
