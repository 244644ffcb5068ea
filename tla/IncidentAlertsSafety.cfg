SPECIFICATION Spec
CONSTANTS
  Notifiers = {n1, n2}
  Incidents = {i1, i2}
  NoIncident = NoIncident
  Cooldown = 2
  Reminder = 1
  MaxReminders = 2
  Horizon = 4
  MaxOutbox = 2
  MaxCrashes = 2
SYMMETRY Symmetry
CHECK_DEADLOCK FALSE
INVARIANTS
  NoReminderInCooldown
  ReminderFollowsOpenedAlert
  OutageReportedOnce
  ReminderCountBacked
  RecoveredAlertOnce
