SPECIFICATION Spec
CONSTANTS
  doc1 = doc1
  doc2 = doc2
  list = list
  small = small
  large = large
  huge = huge
  json_doc = json_doc
  json_list = json_list
  Absent = Absent
  Keys = {doc1, doc2, list}
  Contents = {small, large, huge}
  Ttls = {0, 1, 2}
  Namespaces = {json_doc, json_list}
  NamespaceOf <- MCNamespaceOf
  SizeOf <- MCSizeOf
  Groups <- MCGroups
  MaxEntries = 2
  MaxBytes = 3
  Jobs = {}
  MaxWorkers = 2
  Callers = {}
  MaxRetries = 2
  Repeat = FALSE
  Floods = {1, 9}
  MaxFloodWait = 3
  Addresses = {}
  Telegram = Telegram
  Burst = 2
  TicksPerToken = 2
  Clients = {c1, c2}
  DocIds = {d1, d2}
  List = List
  PublicKey = PublicKey
  TtlOf <- MCTtlOf
  KeyWrites = TRUE
  MaxWrites = 2
  Scenes = {"reads"}
PROPERTIES StaleOnlyByRace StaleAnswersEnd
CHECK_DEADLOCK FALSE
