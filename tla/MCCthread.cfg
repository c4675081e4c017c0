CONSTANT Cores = {c1, c2}
SPECIFICATION Spec
INVARIANTS TypeOK ParkedCoresAreIdle ExitRequestStands NoLostWakeup NoAbort
PROPERTIES HaltedIsLeftByMainOnly OrdersAreServed ImplementsCoreAccess
