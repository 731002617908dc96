SPECIFICATION Spec
CONSTANTS
  DescCnt = 2
  Buffers = {b1, b2, b3, b4}
  NoBuffer = NoBuffer
  RxBuffLen = 2
  MaxBuffers = 2
  MaxLinkDowns = 1
INVARIANT BuffersSafe
PROPERTIES PacketsAsReceived ReceptionGoesOn
