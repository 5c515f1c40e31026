\* Two concurrent requests of any kind, from two chats; one message, one restart
\* of the server, from a state file of any age.
SPECIFICATION Spec
CONSTANTS
  r1 = r1
  r2 = r2
  Requests = {r1, r2}
  ChatOf <- OneChatEach
  Mail = {"m1"}
  NoRequest = NoRequest
  NoChat = NoChat
  MaxRestarts = 1
CHECK_DEADLOCK FALSE
INVARIANTS ToolsTypeOK FileShared MailHandedOver TriggerRouted PadAnnounced
PROPERTY RequestAnswered
