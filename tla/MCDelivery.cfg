SPECIFICATION Spec
CONSTANTS
  Capacity = 2
  MessageCount = 3
  Auth = {1, 2, 3}
  Callbacks = {c1}
  MaxResponseErrors = 1
  MaxDeleteErrors = 0
INVARIANTS
  AnsweredAtMostOnce
  NoUseAfterRelease
  WatchdogAnswersItsEntry
  NeverReleasedUnanswered
  NoLostDeadline
  AnsweredBeforeDelete
  WakeupNeverStuck
