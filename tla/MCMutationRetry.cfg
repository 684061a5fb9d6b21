SPECIFICATION TabSpec
CONSTANTS
    Nothing = Nothing
    Payloads = {p1, p2}
    MaxSends = 4
    MaxSessions = 3
SYMMETRY UploadSymmetry
INVARIANTS
    OneReceiptPerUpload
