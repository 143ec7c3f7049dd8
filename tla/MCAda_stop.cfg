\* stopController while a joint moves.
CONSTANTS
    Joints = {0}
    SetJoints = {}
    Asked = {0, 1}
    None = none
SPECIFICATION Spec
INVARIANTS StopStops
