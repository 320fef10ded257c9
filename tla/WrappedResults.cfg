CONSTANTS
  RawIds <- MCRawIds
  Trim <- MCTrim
  Decls <- MCDecls
  Figures <- MCFigures

SPECIFICATION Spec

INVARIANTS
  TypeOK
  WrappersKeepTheirPromise
  SharedPathAgrees
