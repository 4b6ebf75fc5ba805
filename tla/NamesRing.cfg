SPECIFICATION Spec
CONSTANTS
  NET_RX_BUF_SIZE = 5
  NET_RXQUEUE_SLOTS = 3
  MaxFrames = 4
  Hosts <- MCHosts
  DnsHost = "dns"
  HostNames <- MCNames
  Address <- MCAddress
  Cut <- MCCut
  ARP_TABLE_SIZE = 2
  UDP_QUEUE_SLOTS = 3
  DNS_CACHE_SLOTS = 1
  DNS_RETRIES = 1
  TXIDS = 2
  MaxQueries = 2
INVARIANTS
  QueueFaithful
CHECK_DEADLOCK FALSE
