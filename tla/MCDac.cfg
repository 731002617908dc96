CONSTANTS
  N = 3
  Silence = 0
  MaxOverflow = 1
  Samples <- MCSamples
  Packets <- MCPackets
  Period = 5
  UsbTime = 2
  CounterModulus = 2
SPECIFICATION Spec
PROPERTIES ImplementsRing ImplementsOutput
