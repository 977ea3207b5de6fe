CONSTANTS
  MaxVertices = 3
  MaxDegree = 2
  MaxEdges = 5
SPECIFICATION Spec
INVARIANT TypeOK
INVARIANT FramesQueuedOnce
INVARIANT TraversalOrder
INVARIANT ThrowsIffInvalid
INVARIANT EachEdgeOnce
INVARIANT TurnsAlternate
PROPERTY Terminates
CHECK_DEADLOCK FALSE
