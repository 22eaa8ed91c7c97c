SPECIFICATION Spec
CONSTANTS
  Byte = {a, b}
  NoByte = none
  MaxCall = 3
  MaxBytes = 8
  Header = 2
  WriterInitSize = 8
  ReaderInitSize = 6
INVARIANT TraceInOrder
