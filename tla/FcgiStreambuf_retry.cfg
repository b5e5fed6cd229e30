\* The application goes on after an end of file.
CONSTANTS
    BufSize = 2
    MaxChars = 2
    Streams = {s1}
    Retries = TRUE
SPECIFICATION StreambufSpec
INVARIANTS
    NoCharacterInvented
