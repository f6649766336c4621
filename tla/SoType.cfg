SPECIFICATION Spec
INVARIANT SotypeMatchesBaseType
