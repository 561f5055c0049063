\* Two starts of the service and one offline recovery.
CONSTANTS
  Instances = {s1, s2, u}
  Installers = {u}
  s1 = s1
  s2 = s2
  u = u
SPECIFICATION Spec
SYMMETRY Symmetry
INVARIANTS
  OneGeneration
  MachineQuiet
