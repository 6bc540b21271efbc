\* Expected to be violated: what the chat hardening plan says of switching.
SPECIFICATION PageSpec
CONSTANTS
  Conversations = {c1, c2}
  First = c1
  Messages = {1, 2}
  Texts = {yes, no}
  Nothing = Nothing
  Background = TRUE
INVARIANT NothingLeaks
CHECK_DEADLOCK FALSE
