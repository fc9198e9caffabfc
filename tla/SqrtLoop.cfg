CONSTANT Word = 1024
SPECIFICATION Spec
INVARIANT TypeOK
INVARIANT RootCorrect
INVARIANT NoWrapInLoop
PROPERTY Terminates
