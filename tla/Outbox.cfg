SPECIFICATION OutboxFairSpec
CONSTANTS
  Events = {1, 2, 3}
  Consumers <- MCConsumers
  Handlers <- MCHandlers
  Poison <- MCPoison
  ledger = ledger
  notifier = notifier
  Dispatchers = {d1, d2}
  BatchLimit = 2
  MaxAttempts = 2
  MaxMishaps = 1
INVARIANTS MarkedWasHandled EffectsHappenOnce
PROPERTY PoisonStarvesNobody
