CONSTANTS
  Decls <- MCDecls
  FileOf <- MCFileOf
  Root = 1
  Sources <- MCSources
  Packages <- MCPackages
  Graphs = {g1, g2}
  Idents = {image, profiled, tests}
  ImageIdents = {image, profiled}
SPECIFICATION IncSpec
INVARIANTS AnswersHold WarmIsCold
PROPERTIES PriorSurvives
