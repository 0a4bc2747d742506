SPECIFICATION Spec
PROPERTIES ShutdownReported
