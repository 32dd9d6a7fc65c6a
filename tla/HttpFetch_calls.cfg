\* A cell's and an adapter's budget; two hosts that redirect to each other,
\* and send Retry-After.
SPECIFICATION FairSpec
INVARIANTS CostsAddUp AskedAndLeased FetchInv
PROPERTIES RetryAfterObeyed CallEnds
CONSTANTS
  a1 = a1  b1 = b1  a = a  b = b
  None = None
  Urls = {a1, b1}
  Hosts = {a, b}
  HostOf <- TwoHosts
  Depth = 2
  MaxRequests <- SmallRequests
  MaxSeconds <- SmallSeconds
  MaxAttempts = 2
  MaxRedirects = 1
  Backoff = 1
  Floor = 1
  Delays = {0}
  RetryAfters = {2}
  Horizon = 2
