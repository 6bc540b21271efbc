SPECIFICATION PagesSpec
CONSTANTS
\* ChatPage: two channels, two messages that say the same or not.
  Conversations = {c1, c2}
  First = c1
  Messages = {1, 2}
  Texts = {yes, no}
  Nothing = Nothing
  Background = TRUE
\* Joining: an inviter and two who may use the invitation.
  People = {h1, h2, h3}
  NoPerson = NoPerson
\* NativeVoice: two sessions, two calls, one interruption.
  Presses = {1, 2}
  Talks = {1, 2}
  Nobody = Nobody
  MaxTroubles = 1
SYMMETRY Symmetry
INVARIANTS ViewsApart SentOnce WorkOwned JoinSound NativeSound
PROPERTIES TextStays
CHECK_DEADLOCK FALSE
