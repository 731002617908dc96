SPECIFICATION Spec
CONSTANTS
  Word = 2
  Header = 4
  OutSize = 10
  IdSize = 1
  Setups <- MCSetups
  MaxBegun = 2
  Window = 2
PROPERTIES FramesInStep CutOnlyByLeftovers ImplementsService
