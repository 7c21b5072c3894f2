CONSTANTS
    Parts = {"mp", "dm", "sr", "qy", "cn"}
    MpPlans <- MCMpPlans
    DmHost <- MCDmH
    DmMaxDeparted = 2
    DmPlans <- MCDmPlans
    SrPlans <- MCSrPlans
    QyLast = 1
    QyPlans <- MCQyPlans
    CnPlans <- MCCnPlans
SPECIFICATION ServicesSpec
INVARIANTS
    
    DmSound
    SrMonitorVerdict
    QySound
    CnSound

    
CHECK_DEADLOCK FALSE
