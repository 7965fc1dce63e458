SPECIFICATION StreamsSpec
CONSTANTS
  Packets <- MCPackets
  OTPs = {"o1", "o2"}
  SESSION_ID_SIZE = 2
  None = None
  MaxUnread = 0
  FF = 6
  AckBytes = 1
  DEFAULT_ACKNOWLEDGE_INTERVAL = 2
  RX_ACKNOWLEDGE_INTERVAL = 3
  MaxPacket = 2
  TRANSMIT_BUFFER_SIZE = 4
  RECEIVE_BUFFER_SIZE = 4
  TX_BUFFER_SIZE = 2
  RX_BUFFER_SIZE = 4
  Races = {"sanitise"}
  MaxLineErrors = 1
  Parts = {"packets", "lpc", "lpc windows", "avr"}
INVARIANTS
  TakeTurns ConsentBeforeEffect EchoedSession StreamInOrder
PROPERTIES
  SignedWasApproved PasswordUsed AnswerArrives PacketsAnswered
