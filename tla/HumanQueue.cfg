SPECIFICATION Spec
CONSTANTS
    p1 = p1
    p2 = p2
    p3 = p3
    r1 = r1
    ann = ann
    bob = bob
    Requests = {r1}
    Callers = {p1, p2, p3}
    Names = {ann, bob}
    ApproverOf <- MCApprover
    WindowOf <- MCWindow
    MaxTime = 2
SYMMETRY Symmetry
INVARIANTS TypeOK AllowedByApprover OneAnswer DecisionAudited
PROPERTY DecisionStands
