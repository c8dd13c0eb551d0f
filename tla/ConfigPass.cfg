SPECIFICATION Spec
CONSTANTS
  t1 = t1
  t2 = t2
  n1 = n1
  n2 = n2
  Threads <- TwoThreads
  Names <- TwoNames
  Types <- TwoTypes
  Default <- DefaultOf
  MaxAdds = 3
INVARIANTS OneVariable ListenersCurrent ListenersExact
SYMMETRY Symmetry
