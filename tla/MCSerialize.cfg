CONSTANTS
  glob = glob
  env1 = env1
  env2 = env2
  func1 = func1
  func2 = func2
  thr1 = thr1
  name1 = name1
  name2 = name2
  Envs <- MCEnvs
  Global = glob
  Names <- MCNames
  Funcs <- MCFuncs
  Thrs <- MCThrs
  Programs <- MCPrograms
  Plain <- MCPlain
  MaxSteps = 4
SYMMETRY CallEnvs
SPECIFICATION Spec
INVARIANTS
  
  
  BodyKept
CHECK_DEADLOCK FALSE
