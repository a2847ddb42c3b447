\* Two tickers, lane runs by hand and a failure over rows in any order.
CONSTANTS
  m2 = m2
  k1 = k1
  k2 = k2
  Row = {m2, k1, k2}
  Seed = {k1}
  At <- Instants
  Charge = {m2}
  Link = {k1, k2}
  Through <- Accounts
  Fanout = 1
  scheduler = scheduler
  post = post
  Ticker = {scheduler, post}
  Scheduler = scheduler
  NoTicker = NoTicker
  Reference = 1
  ByHand = {2}
  MaxFailures = 1
SPECIFICATION FairSpec
INVARIANTS
  NothingSkipped
  TickedOnceAfterFeatures
PROPERTIES
  ArrivalsEvaluated
