SPECIFICATION Spec
CONSTANTS
    None = None
    a = a
    b = b
    p = p
    q = q
    Objects = {a, b}
    FirstPlace <- MCFirstPlace
    Places = {p, q, out}
    Workspace = {p, q}
    MaxTime = 3
    MaxPushes = 1
    Pace = a
    Target = p
    Fresh = 1
    GazeboMoves = 1
    Pushable = {b}
    Free = {a, b}
    Assets = {usd}
    QueueDepth = 2
    IsaacMoves = 2
    Bad = Bad
    Robots = {robot, other}
    Usable = {robot}
    Joints <- MCJoints
    FirstJoints <- MCFirstJoints
    Lower = 1
    Upper = 2
    Targets = {2}
    MaxStep = 1
    MaxJointStateAge = 1
    MaxCommandAge = 2
    MaxLate = 1
    MaxReal = 4
    MaxJumps = 1
    Period = 3
    MinGap = 2
    StallPeriods = 1
    CameraTime = 6
INVARIANT MovesTrue
 
 
\* Time and the moves are bounded.
CHECK_DEADLOCK FALSE
