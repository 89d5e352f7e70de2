SPECIFICATION ClientSpec
CONSTANTS
  led_blinker = led_blinker
  pulse = pulse
  v1 = v1
  Names <- TwoNames
  Default = led_blinker
  Versions <- OneVersion
  NoVersion = NoVersion
  Broken = Broken
  None = None
  Firmwares <- PulseOrNone
INVARIANTS
  ListMatchesFiles
  ServedIsLive
  ConnectedAsAsked
PROPERTIES
  Recovers
