SPECIFICATION Spec
CONSTANTS
    Records = {"r1", "r2"}
    FilesOf <- MCFilesOf
    Ipat = {"r1", "r2"}
    MaxVersion <- MCMaxVersion
    MaxFaults = 2
    None = None
INVARIANTS
    UploadedIsCurrent
    NoBlockedUpload
PROPERTIES
    PassIsComplete
CHECK_DEADLOCK FALSE
