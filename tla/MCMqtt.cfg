\* The MQTT session with the code's tolerance; a document of two chunks and a tail.
SPECIFICATION MqttSpec
CONSTANTS
  ChunkSize = 2
  DocLen = 5
  Tolerance = 3
  SeqMod = 16
  MaxPings = 3
INVARIANTS
  MqttTypeOK
  WriterFaithful
  NoTornSession
  SilenceBounded
  AlarmIsJustified
PROPERTIES
  DeadSessionDropped
  SessionComesBack
