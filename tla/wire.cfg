SPECIFICATION Spec
CONSTANTS
    Base = 4
    Half = 16
    Call <- Calls
    Body <- Bodies
    Bytes <- BytesOf
    Panics <- PanicsOf
    Reader <- Read
    Value <- MeaningOf
INVARIANTS
    ReadsWhatWasWritten
    EndIsNoticed
