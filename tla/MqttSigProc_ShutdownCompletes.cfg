CONSTANTS
  m1 = m1
  m2 = m2
  m3 = m3
  NoItem = NoItem
  Msgs <- MCMsgs
  Items <- MCMsgs
  Cap <- MCCap
  Guaranteed <- MCGuaranteed
  Lag <- MCLag
SPECIFICATION MqttSpec
CHECK_DEADLOCK FALSE
PROPERTY ShutdownCompletes
