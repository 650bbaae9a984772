SPECIFICATION Spec
INVARIANT
    RebootFindsDatabase
