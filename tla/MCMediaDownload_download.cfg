SPECIFICATION LiveSpec
CONSTANTS
    Calls = {call1, call2}
    Screens = {"gallery", "lightbox"}
    Cancels = {"lightbox"}
    None = None
    MAX_CONCURRENT = 1
    MaxWaiting = 1
    MaxFaults = 1
    MaxVisits = 2
INVARIANTS TypeOK OneDownload DownloadedIsWhole
PROPERTIES Settles ImplementsArchivedPhoto
