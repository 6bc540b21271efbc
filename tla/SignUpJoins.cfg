\* Expected to be violated: what the join page says of its third step.
SPECIFICATION JoinSpec
CONSTANTS
  People = {h1, h2, h3}
  NoPerson = NoPerson
INVARIANT SignUpJoins
CHECK_DEADLOCK FALSE
