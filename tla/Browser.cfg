SPECIFICATION BrowserSpec
CONSTANTS
\* VoiceRelay: two presses of the button, one of which may come during the other.
  Activations = {a1, a2}
  Nobody = Nobody
\* RealtimeSync
  MaxEvents = 2
  Streams = {s1, s2}
  NoStream = NoStream
  ReplayLimit = 1
  Faults = {"network", "restart", "insert", "answer", "query"}
\* ChatPage: one conversation, whose second message waits for the first.
  Conversations = {c1}
  First = c1
  Messages = {1, 2}
  Texts = {yes}
  Nothing = Nothing
  Background = FALSE
\* SpeechQueue
  MaxSentences = 2
  MaxUrls = 3
  MaxAhead = 1
INVARIANTS VoiceSound SyncSound SpeechSound
PROPERTIES InOrder StartSettles SyncSettles QueueServed QueueDrains
CHECK_DEADLOCK FALSE
