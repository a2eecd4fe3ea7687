SPECIFICATION Spec
INVARIANTS TypeOK JudgedIsRetained GreenIsRetained
PROPERTY ImplementsGate
