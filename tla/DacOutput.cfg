CONSTANTS
  Period = 7
  UsbTime = 4
  CounterModulus = 3
SPECIFICATION Spec
INVARIANTS NoTornWord ChannelsTogether StreamsReadyToArm
PROPERTIES LatchesPreviousWord NoUpdateLost EveryWordPutOut
