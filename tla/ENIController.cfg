SPECIFICATION FairSpec
CONSTANTS
    ENI = {e1, e2, e3}
    NoENI = NoENI
    NumENIs = 2
    Faults <- AllFaults
    MaxFaults = 2
    MaxLag = 2
INVARIANTS TypeOK AttachedIsReal AnnotationFits
           AttachmentsAreRecorded OnlyFailuresWedge
PROPERTIES EventuallyConfigured ImplementsNodeAnnotation
CHECK_DEADLOCK FALSE
