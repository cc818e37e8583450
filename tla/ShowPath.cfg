SPECIFICATION Spec
CONSTANTS
    RangesPerLine = 3
    Scenes <- AllScenes
    PageLengths = {0, 2, 5}

    
PROPERTIES
    AnswerArrives
CHECK_DEADLOCK FALSE
