SPECIFICATION Spec
CONSTANTS
  t1 = t1
  t2 = t2
  Threads <- TwoThreads
  Calls <- BoardCalls
  Slaves <- BoardSlaves
  Registers <- BoardRegisters
  Eeproms <- OneEeprom
  MaxRetries = 2
  None = None
  Configs <- TwoConfigs
  DefaultCfg = 1
  Clkins <- TwoClocks
  TCXO_CLOCK = 2
  Torn = Torn
SYMMETRY Symmetry
INVARIANTS
  MessagesReachTheirSlave
  ReadsTheirRegister
  MembersMatchHardware
