SPECIFICATION SmsSpec
CONSTANTS
  Records = {m, o}
  Mine = m
  NoRecord = none
  Sends = {s1, s2}
  Texts = {t1}
  MaxStopTexts = 1
INVARIANT StopReachesEveryTenant
CHECK_DEADLOCK FALSE
