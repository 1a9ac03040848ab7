\* A question answered before and two new ones, one of them perhaps streamed, in
\* a session, in a deleted one or in none, with room for both to run, one
\* failure, one restart, one deletion.
SPECIFICATION FairSpec
CONSTANTS
    Requests = {r0, r1, r2}
    Earlier = {r0}
    Sessions = {s1}
    Permits = 2
    HistoryLimit = 2
    MaxFaults = 1
    MaxCrashes = 1
    MaxDeletes = 1
    MaxStreams = 1
    None = None
CHECK_DEADLOCK FALSE
INVARIANTS
    ConversationWhole
    AnswerIsStored
    FramesInOrder
PROPERTIES
    EveryQuestionEnds
