SPECIFICATION DemoSpec
CONSTANTS
  server1 = server1
  server2 = server2
  client1 = client1
  client2 = client2
  None = None
  Servers <- MCServers
  Clients <- MCClients
  Namespace = "ABSTRACT"
  LISTEN_BACKLOG = 4
  MaxWords = 2
INVARIANT
  Orderly
PROPERTY
  AllStop
CHECK_DEADLOCK FALSE
