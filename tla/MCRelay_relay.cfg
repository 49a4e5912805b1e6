CONSTANTS
    MAXLINE = 9
    RIO_BUFSIZE = 4
    MAX_OBJECT_SIZE = 20
    Requests <- MCRequests
    Answers <- MCAnswers
    MaxReaders = 2
    MaxOpen = 3
SPECIFICATION FairSpec
INVARIANTS TypeOK HeaderForwarded AnswerRelayed
PROPERTIES RequestServed
CHECK_DEADLOCK FALSE
