CONSTANT EnumTicks = 3
SPECIFICATION Spec
INVARIANT TypeOK
INVARIANT TasksOfStack
INVARIANT AttachNotStale
PROPERTY NotPassedBy
PROPERTY FindsPartner
