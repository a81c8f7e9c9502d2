CONSTANTS
 MaxRounds = 2
 MaxReplies = 2
 MaxRetries = 1
 MaxPosts = 1
 People <- ThePeople
 Folders <- TheFolders
 Collections <- TheCollections
 Similar <- TheSimilar
 PageSize = 2
 MaxPages = 2
 ClickAttempts = 2
 MaxChanges = 1
 MaxRequests = 2
 Faults = {"verify", "byHand", "unnumbered"}
 Persons <- ThePersons
 Outcomes <- TheOutcomes
 MinScore = 55
 TopK = 2
 MaxSnapshots = 2
 MaxJobs = 1
 MaxJudgments = 1
 Candidates <- TheCards
 RepeatLimit = 2
 HandlerTries = 2
 BackTries = 2
SPECIFICATION AnyFairSpec
INVARIANTS
 AskedAtMost
 CollectedFirst
 
 CacheIsShown
 ListSound
 ArchiveKeepsBest
PROPERTIES
 ConversationEnds
 CardEnds
CHECK_DEADLOCK FALSE
