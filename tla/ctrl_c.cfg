CONSTANT Viewer = {v1}
SPECIFICATION FairSpec
CHECK_DEADLOCK FALSE
PROPERTY CtrlCExits
