SPECIFICATION Spec
CHECK_DEADLOCK FALSE
PROPERTIES
    ProgramsEnd
    RequestsEnd
    UpstreamEnds
