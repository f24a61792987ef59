\* Every graph of three rows, two overlapping commands, one question.
SPECIFICATION CLSpec
CONSTANTS
    Absent = Absent
    Spec_ = Spec_
    Tasks = {t1, t2, t3}
    Commands = {a, b}
    MaxChanges = 2
SYMMETRY Symmetric

    
    
    
PROPERTIES
    QuestionsStand
CHECK_DEADLOCK FALSE
