SPECIFICATION Spec
CONSTANTS
  Fiber = {f1, f2, f3}
  Main = Main
  NoFiber = NoFiber
  MaxLive = 3
  MaxRust = 3
  MaxFrames = 2
SYMMETRY Symmetry
INVARIANTS FramesStayHome CurrentIsExecuting SuspendedExact CanYieldIsExact
