SPECIFICATION Spec
CONSTANTS
  c1 = c1
  c2 = c2
  u1 = u1
  Child = {c1, c2}
  Req <- JustHook
  Tool <- JustHookTool
  Up = {u1}
  Owner <- UpOwner
  LocalId <- UpLocalId
  CanStall = {c1}
  InitCalls = 4
CHECK_DEADLOCK FALSE
INVARIANTS HookIsUnanimous UpstreamRouting
