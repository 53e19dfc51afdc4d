SPECIFICATION Spec
CONSTANTS
  NCpus = 2
  Irq = {1, 2}
  Context = {0, 1}
  UartIrq = 2
  NChars = 3
INVARIANTS
  RequestsRight
  StreamsRight
  InputRight
  FilesRight
PROPERTY InterruptsRight
