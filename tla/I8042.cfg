\* One representative of the commands that differ only in what they disable
\* or answer.
CONSTANTS
  Keys = {2}
  AuxLen = 2
  BufferSize = 7
  KeyBufferSize = 1
  DumpLen = 3
  Commands = {"WriteByteConfig", "SimulateInputKbd", "SimulateInputAux", "WriteAux",
              "ReadByteConfig", "TestController", "DiagnosticDump",
              "DisablePortAux", "EnablePortAux", "DisablePortKbd", "EnablePortKbd"}
  DataBytes = {"0", "1", "2", "CodeSet", "Set3Key", "Echo", "ClearEnable", "DefaultDisable"}
  Unsolicited = FALSE
SPECIFICATION FairSpec
INVARIANTS WaitingExact NoStall
PROPERTIES LatchReleased AnswerFirst
