CONSTANTS
 Clients <- TheClients
 BufferLimit = 3
 QueueLimit = 2
 MaxEvents = 4
 EventFaults = {"write", "read"}
 MaxRestarts = 1
 Ops <- TheOps
 MaxWindows = 3
 Faults = {"page", "goto", "close"}
 Files <- TheFiles
 Uploads <- TheUploads
 TextOf <- TheTexts
 Concurrency = 2
 MaxRankings = 1
 PdfFaults = {"db"}
 People <- ThePeople
 MaxReplies = 2
 MaxStarts = 2
 MaxScans = 1
 Contacts <- TheContacts
 Facts <- TheFacts
 Displays <- TheDisplays
 Mentions <- TheMentions
 ListTime <- TheTimes
 Texts <- TheTargets
 Retries = 2
 MaxChanges = 1
SPECIFICATION AnyFairSpec
INVARIANTS
 NothingSkipped
 NoStrayWindow
 NoTwins
 CountsAdd
 JudgedOnce
 
 OnlyNamesakes
PROPERTIES
 IdsNeverReused
 VerifyingEnds
 RunEnds
CHECK_DEADLOCK FALSE
