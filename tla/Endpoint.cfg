\* One client with the token and six without; three streams, so that one reconnects.
CONSTANTS
  c1 = c1
  c2 = c2
  c3 = c3
  c4 = c4
  c5 = c5
  c6 = c6
  c7 = c7
  Client = {c1, c2, c3, c4, c5, c6, c7}
  Credential <- Credentials
  Expected <- Token
  Stream = {s1, s2, s3}
  NoStream = NoStream
  MaxVersion = 2
  MaxQueue = 2
SPECIFICATION Spec
INVARIANTS TypeOK NoChangeIsMissed
PROPERTY LostClientIsNoticed
CHECK_DEADLOCK FALSE
