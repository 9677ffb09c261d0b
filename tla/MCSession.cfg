\* Two script threads, two pages submitted and one link both may follow, one
\* transfer, and room for one in flight.  The system may stop: its end is the
\* end of destroy() or shutdown().
SPECIFICATION FairSpec
CONSTANTS
  Workers = {w1, w2}
  Roots = {r1, r2}
  Links = {u1}
  Transfers = {t1}
  Limit = 1
INVARIANTS
  CountersHonest
  ExecutionOutlivesRequest
  DrainNotLost
  FollowedOnce
  ShutdownOutlastsUse
PROPERTIES
  SessionDrains
  EndReturns
CHECK_DEADLOCK FALSE
