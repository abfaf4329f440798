SPECIFICATION Spec
CONSTANTS
  Stream <- SampleStream
  BodyLength <- SampleBodyLength
  Supported <- SampleSupported
  FieldBytes <- SampleFieldBytes
  NoKind = NoKind
  Cuts <- SampleCuts
  FifoDepth = 2
  DropMax = 1
  NoBeat = NoBeat
  NoDatagram = NoDatagram
INVARIANTS FieldsWhole Contiguous EmittedExactly
PROPERTIES ParserTimed
