CONSTANTS
  Callers = {c1, c2, c3}
  Overlap = FALSE
SPECIFICATION Spec
 
 
PROPERTY CallsReturn
