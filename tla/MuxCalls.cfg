SPECIFICATION FairSpec
CONSTANTS
  c1 = c1
  c2 = c2
  u1 = u1
  Child = {c1}
  Req <- CallAndHook
  Tool <- CallAndHookTool
  Up = {}
  Owner <- NoOwner
  LocalId <- NoLocalId
  CanStall = {c1}
  InitCalls = 2
CHECK_DEADLOCK FALSE
INVARIANTS MapsAgree ResultsMatch NoneForgotten ResultIsFinal NoLeak
PROPERTIES FoundCancelIsExact DeadChildAnswered HookAnswered
