\* Two joints, one of them also driven with setPose.
CONSTANTS
    Joints = {0, 1}
    SetJoints = {1}
    Asked = {0, 1, 77}
    None = none
SPECIFICATION FairSpec
INVARIANTS TypeOK RestsOnRequest
PROPERTIES Smooth ServiceKept LastRequestReached
