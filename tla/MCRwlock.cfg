SPECIFICATION FairSpec
CONSTANT Workers = {p1, p2, p3, p4}
INVARIANTS Exclusive Counted
PROPERTY SomeoneGetsIt
