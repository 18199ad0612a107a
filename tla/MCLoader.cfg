SPECIFICATION Spec
CONSTANT Files <- mcFiles
INVARIANTS TypeOK ReadsBack SafeWhenDeclared
