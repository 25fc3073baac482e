\* Two connections with two listeners: the documented use, and every use at once.
\* The program may stop once its connections are closed.
SPECIFICATION Spec
CHECK_DEADLOCK FALSE
CONSTANTS
  c1 = c1
  c2 = c2
  l1 = l1
  l2 = l2
  NoReg = NoReg
  NoConn = NoConn
  Conns <- TheConns
  Listeners <- TheListeners
  Programs <- AnyProgram
  MaxRegs = 2
  MaxNest = 4
SYMMETRY Symmetry
INVARIANTS TypeOK NothingTornUnderListener NothingStepsInHook SubscriptionsAreServed
INVARIANTS PostcommitIsPrompt
PROPERTIES NothingStepsClosed
