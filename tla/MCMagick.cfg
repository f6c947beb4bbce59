SPECIFICATION Spec
CHECK_DEADLOCK FALSE
INVARIANT MagickTypeOK
INVARIANT HandlersRestored
INVARIANT ExceptionInfoDestroyed
PROPERTY CallexErrorThrows
