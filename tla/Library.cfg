SPECIFICATION Spec
CONSTANTS
  NULL = NULL
  NoNode = NoNode
  Node = {n1, n2, n3, n4, n5}
  Key = {"one", "one.0", "one.5", "nine", "two"}
  Value = {"v", "w"}
  Nil = Nil
  Hash <- MCHash
  KeyClass <- MCKeyClass
  Other <- MCOther
  MaxMethods = 3
  Address = {0, 1, 2, 3, 4, 6, 9}
  HashSize = 2
  Object = {a1, a2}
  FirstRoom = 1
  Slack = 1
  Large = 3
  MaxCount = 3
  Class = {c1, c2, c3}
  Instance = {o1, o2}
  ABSENT = ABSENT
  SuperCalls = {0, 1, 2}
  MaxFetched = 2
  Text = {"a", "sub/b", "sub/util"}
  Lib = {"so"}
  MAIN = MAIN
  STDLIB = STDLIB
  NIL = NIL
  Name = {"math", "gone", "util", "a.lky", "b", "lib"}
  Located <- MCLocated
  CYCLES = FALSE
  MaxFrames = 4
  MaxRuns = 2
  Compiled <- MCCompiled
  FlagSet <- MCFlagSet
  Subject <- MCSubject
  Word <- MCWord
  Argument <- MCArgument
  Factor = {0, 1, 2, 3}
  Replacement <- MCReplacement
  MaxCalls = 2
  MaxLength = 8
INVARIANTS
  TypeOK
  NoHoles
  LoopsStayInside
  ChainsSound
  
  OneModule
  
  LeavesNoMarks
  SearchFindsMatch
  
  PiecesMakeWhole
  
PROPERTIES
  ImplementsDictionary
  ImplementsSet
  KeepsOrder
  SuperIsParent
  ImplementsText
