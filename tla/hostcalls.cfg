\* Every path of every function: the graphs are finite and have no parameter.
SPECIFICATION Spec
INVARIANTS NothingLeaked UsedWhileHeld
