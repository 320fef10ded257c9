\* Every short text, alone, in a conjunction, and as a template.
CONSTANT Families <- MCFamilies
SPECIFICATION Spec
INVARIANT TypeOK
INVARIANT RenderedAsRead
\* A refused text, like a rendered one, is done with.
CHECK_DEADLOCK FALSE
