\* Sets of schema files, visited in every order, and every short comment.
SPECIFICATION Spec
CONSTANTS
  Targets <- MCTargets
  Lower <- MCLower
INVARIANTS
  OrderDoesNotMatter
  UsableIffPlain
  TextKept
\* The generator has done its work.
CHECK_DEADLOCK FALSE
