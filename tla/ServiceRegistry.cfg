SPECIFICATION Spec
CONSTANTS
  Null = Null
  MaxVoices = 2
  MaxSpeakers = 1
  MaxLangs = 1
  MaxModels = 1
  LangCounts = {0, 2}
  MaxCalls = 5
  MaxNoMem = 1
INVARIANTS
  TypeOK
  HeapAccounted
  DescribeExact
  DescribeNeverWrong
